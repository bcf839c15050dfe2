----------------------------- MODULE TurnClient -----------------------------
(***************************************************************************)
(* The TURN client (turn::impl::datagram_client): the allocation, the      *)
(* permissions and the channels it keeps, the background tasks that        *)
(* refresh them, the calls an agent makes and stop().                      *)
(*                                                                         *)
(* Everything runs on one executor: a step is what the code does between   *)
(* two co_await points.  A detached task is first posted, and only when    *)
(* that post runs does it register for its stop promise; a stop before     *)
(* that is lost, a later one reaches the task by one more post.            *)
(*                                                                         *)
(* request_with_retry() is one question to the server: it is sent, and a   *)
(* later step is the answer that ends it with what the caller does next.   *)
(* The 401 and 438 second request and the retransmissions are part of      *)
(* being sent; a cancelled request gives false, as a value.  The server is *)
(* external: it may refuse anything, it may act on a request whose answer  *)
(* is lost, and it drops what the client no longer refreshes.              *)
(*                                                                         *)
(* The timer, the request and the answer of one refresh of the allocation  *)
(* or of a permission are one step: a success changes nothing, a stop      *)
(* during the sleep and a stop during the request have the same effect,    *)
(* and nothing else looks at the task in between.  A channel's refresh is  *)
(* a channel_bind() and keeps its steps.                                   *)
(***************************************************************************)
EXTENDS Integers, FiniteSets

CONSTANTS
    Ips,            \* peer IP addresses
    Peers,          \* peer transport addresses
    IpOf,           \* the IP address of a peer
    MinNumber,      \* 0x4000
    MaxNumber,      \* 0x4fff
    Calls,          \* calls the application makes (bound); each is made once
    PermIds,        \* permission_state objects alive at once (bound)
    ChanIds         \* channel_state objects alive at once (bound)

ASSUME TurnAssumption ==
    /\ IpOf \in [Peers -> Ips] /\ Peers # {}
    /\ Calls \subseteq Nat
    /\ MinNumber \in Nat \ {0} /\ MaxNumber \in Nat
    /\ PermIds \subseteq Nat \ {0} /\ ChanIds \subseteq Nat \ {0}
    /\ IsFiniteSet(PermIds) /\ IsFiniteSet(ChanIds)

VARIABLES
    running,        \* _is_running
    relayed,        \* _relayed_address is set (and _lifetime > 0 with it)
    refresher,      \* the refresh_allocation_task coroutine
    perm,           \* permission_state objects, `linked` in _permissions
    chan,           \* channel_state objects and the table that holds each
    creating,       \* _creating_permissions
    call,           \* the calls in flight
    srvAlloc,       \* the server has an allocation for us
    srvBind         \* the server's channel bindings <<number, peer>>

vars == <<running, relayed, refresher, perm, chan, creating, call,
          srvAlloc, srvBind>>

None == 0

\* A refresh task: not there, its start posted, in its loop, or in its loop
\* with the stop signal on its way to it.
TaskAt == {"none", "posted", "live", "stopping"}

Perm == [ip : Ips, linked : BOOLEAN, at : TaskAt]
Chan == [num : Int, peer : Peers, perm : PermIds \cup {None},
         where : {"none", "bound", "expired"}, inPeer : BOOLEAN,
         at : {"none", "posted", "sleep", "sent", "linger"},
         stopping : BOOLEAN,
         ask : Int]
Call == [op : {"idle", "alloc", "perm", "bind", "delete", "done"},
         request : {"none", "sent", "ok", "failed"},
         ips : SUBSET Ips, others : SUBSET Ips,
         wait : {"none", "wait", "hop", "stopped", "done"}, all : BOOLEAN,
         peer : Peers, ask : Int]

TypeOK ==
    /\ running \in BOOLEAN /\ relayed \in BOOLEAN
    /\ refresher \in TaskAt
    /\ perm \in [PermIds -> Perm]
    /\ chan \in [ChanIds -> Chan]
    /\ creating \subseteq Ips
    /\ call \in [Calls -> Call]
    /\ srvAlloc \in BOOLEAN /\ srvBind \subseteq Int \X Peers

NoPerm == [ip |-> CHOOSE i \in Ips : TRUE, linked |-> FALSE, at |-> "none"]
NoChan == [num |-> None, peer |-> CHOOSE p \in Peers : TRUE,
           perm |-> None, where |-> "none", inPeer |-> FALSE, at |-> "none",
           stopping |-> FALSE, ask |-> None]
NoCall == [op |-> "idle", request |-> "none", ips |-> {},
           others |-> {}, wait |-> "none", all |-> TRUE,
           peer |-> CHOOSE p \in Peers : TRUE, ask |-> None]

Init ==
    /\ running = TRUE
    /\ relayed = FALSE
    /\ refresher = "none"
    /\ perm = [p \in PermIds |-> NoPerm]
    /\ chan = [k \in ChanIds |-> NoChan]
    /\ creating = {}
    /\ call = [c \in Calls |-> NoCall]
    /\ srvAlloc = FALSE
    /\ srvBind = {}
-----------------------------------------------------------------------------
(* The tables *)

\* _permissions.find(ip) != end()
Linked(ps, ip) == \E p \in PermIds : ps[p].linked /\ ps[p].ip = ip

\* _channel_to_peer.find(n) != end()
Bound(cs, n) == \E k \in ChanIds : cs[k].where = "bound" /\ cs[k].num = n

\* _peer_to_channel: the channel objects filed under a peer.
OfPeer(cs, peer) == {k \in ChanIds : cs[k].inPeer /\ cs[k].peer = peer}

\* set_value() of a task's stop promise: nobody listens before the posted
\* start has run, nor once the promise has fired.
StopTask(at) == IF at = "live" THEN "stopping" ELSE at
Fire(o) == [o EXCEPT !.stopping = o.at \in {"sleep", "sent", "linger"}]

\* channel_state::expire(): _expired_channel is a set keyed by the number.
Expire(cs, k) ==
    LET twin == \E j \in ChanIds : j # k /\ cs[j].where = "expired"
                                         /\ cs[j].num = cs[k].num
    IN Fire([cs[k] EXCEPT !.where = IF twin THEN "none" ELSE "expired",
                          !.inPeer = FALSE, !.perm = None])

\* channel_state::stop()
StopChan(o) ==
    Fire([o EXCEPT !.where = "none", !.inPeer = FALSE, !.perm = None])

\* The channels of the permissions in ps expire.
ExpireOf(cs, ps) ==
    [k \in ChanIds |-> IF cs[k].perm \in ps THEN Expire(cs, k) ELSE cs[k]]

\* unlink() and permission_state::stop()
StopPerm(o) == [o EXCEPT !.linked = FALSE, !.at = StopTask(@)]

Least(S) == CHOOSE x \in S : \A y \in S : x <= y

\* generate_channel_number(): one more than the largest number in use, and
\* past the end the number after the first gap of the sorted tables.  None
\* stands for the exception.
GenerateChannelNumber ==
    LET used == {k \in ChanIds : chan[k].where \in {"bound", "expired"}}
        at(k) == MinNumber + Cardinality({j \in used :
                     \/ chan[j].num < chan[k].num
                     \/ chan[j].num = chan[k].num /\ j < k})
        gaps == {at(k) : k \in {j \in used : chan[j].num # at(j)}}
        next == IF used = {} THEN MinNumber
                ELSE 1 + chan[CHOOSE k \in used : \A j \in used :
                                chan[j].num <= chan[k].num].num
    IN IF next <= MaxNumber THEN next
       ELSE IF gaps = {} THEN None ELSE Least(gaps) + 1

\* The number channel_bind() asks for: the peer's own, or a generated one.
NumberFor(peer) ==
    IF OfPeer(chan, peer) # {}
    THEN chan[CHOOSE k \in OfPeer(chan, peer) : TRUE].num
    ELSE GenerateChannelNumber

\* async_send_to(): the number channel data for a peer is sent under, if
\* any; without one it goes as an indication that names the peer.
RouteOut(peer) == {chan[k].num : k \in OfPeer(chan, peer)}

\* datagram_received(): the peers channel data of number n is handed up as.
RouteIn(n) ==
    {chan[k].peer : k \in {k \in ChanIds : chan[k].where = "bound"
                                           /\ chan[k].num = n}}
-----------------------------------------------------------------------------
(* New objects *)

FreePerms(ps) == {p \in PermIds : ps[p].at = "none" /\ ~ps[p].linked}
FreeChans(cs) == {k \in ChanIds : cs[k].at = "none" /\ cs[k].where = "none"}

\* An object of its own for each of ips.
Placements(ps, ips) ==
    {f \in [ips -> FreePerms(ps)] : \A i, j \in ips : i # j => f[i] # f[j]}

\* start() and _permissions.insert() of a permission for each of ips; insert
\* leaves an object out when the address is already there.  create_permission()
\* asserts that it is not, which a channel_bind() answered in between can make
\* false; here, as without asserts, the object is outside the table.
Install(ps, ips) ==
    LET id == CHOOSE f \in Placements(ps, ips) : TRUE
    IN [p \in PermIds |->
          IF \E i \in ips : id[i] = p
          THEN LET i == CHOOSE i \in ips : id[i] = p
               IN [ip |-> i, linked |-> ~Linked(ps, i), at |-> "posted"]
          ELSE ps[p]]

\* What channel_bind() does to the permissions and the channels once the
\* server has accepted <<n, peer>>.
BindPerms(ps, cs, n, peer) ==
    IF ~running \/ Bound(cs, n) \/ Linked(ps, IpOf[peer]) THEN ps
    ELSE Install(ps, {IpOf[peer]})

BindChans(ps, cs, n, peer) ==
    IF ~running \/ Bound(cs, n) THEN cs
    ELSE LET ps2 == BindPerms(ps, cs, n, peer)
             p   == CHOOSE p \in PermIds : ps2[p].linked
                                           /\ ps2[p].ip = IpOf[peer]
         IN [cs EXCEPT ![Least(FreeChans(cs))] =
               [num |-> n, peer |-> peer, perm |-> p, where |-> "bound",
                inPeer |-> OfPeer(cs, peer) = {}, at |-> "posted",
                stopping |-> FALSE, ask |-> None]]

\* The objects an accepted answer may need (bound).
PermRoom(ips) == Placements(perm, ips) # {}
BindRoom(n, peer) ==
    Bound(chan, n) \/ (PermRoom({IpOf[peer]}) /\ FreeChans(chan) # {})
-----------------------------------------------------------------------------
(* Deleting the allocation *)

\* _new_permissions_created.set_value() and .set_stopped(): the waiting
\* calls continue by a post.
Wake(cl, how) ==
    [c \in Calls |-> IF cl[c].wait = "wait" THEN [cl[c] EXCEPT !.wait = how]
                     ELSE cl[c]]

\* do_delete_allocation(), with rf the allocation task and cl the calls as
\* its caller leaves them.
DoDeleteAllocation(rf, cl) ==
    LET gone == {p \in PermIds : perm[p].linked}
        cs   == ExpireOf(chan, gone)
    IN /\ refresher' = rf
       /\ relayed' = FALSE
       /\ perm' = [p \in PermIds |-> IF p \in gone THEN StopPerm(perm[p])
                                     ELSE perm[p]]
       /\ call' = Wake(cl, "stopped")
       /\ chan' = [k \in ChanIds |-> IF cs[k].where = "expired"
                                     THEN StopChan(cs[k]) ELSE cs[k]]

\* stop(): the Refresh with lifetime 0 is sent and not awaited.
Stop ==
    /\ running
    /\ running' = FALSE
    /\ DoDeleteAllocation(StopTask(refresher), call)
    /\ UNCHANGED <<creating, srvAlloc, srvBind>>

\* delete_permission(peer)
DeletePermission(ip) ==
    LET gone == {p \in PermIds : perm[p].linked /\ perm[p].ip = ip}
    IN /\ running /\ gone # {}
       /\ perm' = [p \in PermIds |-> IF p \in gone THEN StopPerm(perm[p])
                                     ELSE perm[p]]
       /\ chan' = ExpireOf(chan, gone)
       /\ UNCHANGED <<running, relayed, refresher, creating, call, srvAlloc,
                      srvBind>>
-----------------------------------------------------------------------------
(* The server (external) *)

\* A ChannelBind the server accepts: neither the number nor the peer is
\* bound otherwise.
Acceptable(n, peer) ==
    srvAlloc /\ \A b \in srvBind : (b[1] = n) = (b[2] = peer)

\* What the server does with a request it accepts.
Allocates == srvAlloc' = TRUE /\ UNCHANGED srvBind
Binds(n, peer) ==
    /\ Acceptable(n, peer)
    /\ srvBind' = srvBind \cup {<<n, peer>>}
    /\ UNCHANGED srvAlloc
Deallocates == srvAlloc' = FALSE /\ srvBind' = {}
Refuses == UNCHANGED <<srvAlloc, srvBind>>

\* The server drops an allocation nobody refreshes any more.
AllocationExpires ==
    /\ srvAlloc /\ refresher = "none"
    /\ \A c \in Calls : call[c].op # "alloc"
    /\ Deallocates
    /\ UNCHANGED <<running, relayed, refresher, perm, chan, creating, call>>

\* The server drops a binding that no channel refreshes any more.
BindingExpires(b) ==
    /\ \A k \in ChanIds : chan[k].where = "bound" => chan[k].num # b[1]
    /\ srvBind' = srvBind \ {b}
    /\ UNCHANGED <<running, relayed, refresher, perm, chan, creating, call,
                   srvAlloc>>
-----------------------------------------------------------------------------
(* Calls *)

Begin(c, fields) ==
    /\ call[c].op = "idle"
    /\ \A d \in Calls : d < c => call[d].op # "idle"
    /\ call' = [call EXCEPT ![c] = fields]

Done == [NoCall EXCEPT !.op = "done"]

\* create_allocation(): an agent makes it once for a client.
CreateAllocation(c) ==
    /\ running /\ ~relayed
    /\ \A d \in Calls : call[d].op = "idle"
    /\ Begin(c, [NoCall EXCEPT !.op = "alloc", !.request = "sent"])
    /\ UNCHANGED <<running, relayed, refresher, perm, chan, creating,
                   srvAlloc, srvBind>>

\* Its answer; is_running() is asked again only before the task is started.
AllocationAnswered(c, ok) ==
    /\ call[c].op = "alloc"
    /\ IF ok THEN Allocates ELSE Refuses
    /\ relayed' = (relayed \/ ok)
    /\ refresher' = IF ok /\ running THEN "posted" ELSE refresher
    /\ call' = [call EXCEPT ![c] = Done]
    /\ UNCHANGED <<running, perm, chan, creating>>

\* channel_bind(peer) up to its first co_await.
ChannelBind(c, peer) ==
    /\ running /\ relayed /\ NumberFor(peer) # None
    /\ Begin(c, [NoCall EXCEPT !.op = "bind", !.request = "sent",
                   !.peer = peer, !.ask = NumberFor(peer)])
    /\ UNCHANGED <<running, relayed, refresher, perm, chan, creating,
                   srvAlloc, srvBind>>

\* Mutant: the answer to channel_bind() is not looked at.
BindAnsweredUnchecked(c, ok) ==
    LET n == call[c].ask
        p == call[c].peer
    IN /\ call[c].op = "bind"
       /\ BindRoom(n, p) /\ IF ok THEN Binds(n, p) ELSE Refuses
       /\ perm' = BindPerms(perm, chan, n, p)
       /\ chan' = BindChans(perm, chan, n, p)
       /\ call' = [call EXCEPT ![c] = Done]
       /\ UNCHANGED <<running, relayed, refresher, creating>>

BindAnswered(c, ok) ==
    LET n == call[c].ask
        p == call[c].peer
    IN /\ call[c].op = "bind"
       /\ IF ok THEN Binds(n, p) /\ BindRoom(n, p) ELSE Refuses
       /\ perm' = IF ok THEN BindPerms(perm, chan, n, p) ELSE perm
       /\ chan' = IF ok THEN BindChans(perm, chan, n, p) ELSE chan
       /\ call' = [call EXCEPT ![c] = Done]
       /\ UNCHANGED <<running, relayed, refresher, creating>>

\* delete_allocation() up to its co_await.
DeleteAllocation(c) ==
    /\ relayed
    /\ Begin(c, [NoCall EXCEPT !.op = "delete", !.request = "sent"])
    /\ UNCHANGED <<running, relayed, refresher, perm, chan, creating,
                   srvAlloc, srvBind>>

DeleteAnswered(c, ok) ==
    /\ call[c].op = "delete"
    /\ IF ok THEN Deallocates ELSE Refuses
    /\ DoDeleteAllocation(StopTask(refresher), [call EXCEPT ![c] = Done])
    /\ UNCHANGED <<running, creating>>

\* The server acts on the request of a call and the answer is lost.
AnswerLost(c) ==
    /\ call[c].request = "sent"
    /\ \/ call[c].op = "alloc" /\ Allocates
       \/ call[c].op = "bind" /\ Binds(call[c].ask, call[c].peer)
       \/ call[c].op = "delete" /\ Deallocates
    /\ UNCHANGED <<running, relayed, refresher, perm, chan, creating, call>>
-----------------------------------------------------------------------------
(* create_permission *)

\* create_permission(peers) up to its first co_await: asks for the addresses
\* nobody is asking for and waits for the ones another call is creating.
CreatePermission(c, ips) ==
    LET new    == {i \in ips : ~Linked(perm, i)}
        asked  == new \ creating
        others == new \cap creating
    IN /\ running /\ relayed /\ new # {}
       /\ Begin(c, [NoCall EXCEPT !.op = "perm",
                      !.request = IF asked = {} THEN "none" ELSE "sent",
                      !.ips = asked, !.others = others,
                      !.wait = IF others = {} THEN "none" ELSE "wait"])
       /\ creating' = creating \cup asked
       /\ UNCHANGED <<running, relayed, refresher, perm, chan, srvAlloc,
                      srvBind>>

\* Mutant: clear_creating runs only when the call succeeds.
FinishWithoutGuard(c, success) ==
    /\ perm' = IF success /\ running THEN Install(perm, call[c].ips)
               ELSE perm
    /\ creating' = IF success THEN creating \ call[c].ips ELSE creating
    /\ call' = LET cl == [call EXCEPT ![c] = Done]
               IN IF success /\ call[c].ips # {} THEN Wake(cl, "hop") ELSE cl
    /\ UNCHANGED <<running, relayed, refresher, chan, srvAlloc, srvBind>>

\* Mutant: clear_creating unmarks the addresses and wakes nobody.
FinishUnnoticed(c, success) ==
    /\ perm' = IF success /\ running THEN Install(perm, call[c].ips)
               ELSE perm
    /\ creating' = creating \ call[c].ips
    /\ call' = [call EXCEPT ![c] = Done]
    /\ UNCHANGED <<running, relayed, refresher, chan, srvAlloc, srvBind>>

\* create_permission() ends with `success`, or is stopped; the scope guard
\* clear_creating runs on every path on which something was asked for.
FinishPermission(c, success) ==
    /\ perm' = IF success /\ running THEN Install(perm, call[c].ips)
               ELSE perm
    /\ creating' = creating \ call[c].ips
    /\ call' = LET cl == [call EXCEPT ![c] = Done]
               IN IF call[c].ips = {} THEN cl ELSE Wake(cl, "hop")
    /\ UNCHANGED <<running, relayed, refresher, chan, srvAlloc, srvBind>>

\* The request is answered; when_all completes when the wait has as well.
PermissionAnswered(c, ok) ==
    /\ call[c].op = "perm" /\ call[c].request = "sent"
    /\ ok => srvAlloc /\ PermRoom(call[c].ips)
    /\ \/ /\ call[c].wait \in {"none", "done"}
          /\ FinishPermission(c, ok /\ call[c].all)
       \/ /\ call[c].wait \in {"wait", "hop", "stopped"}
          /\ call' = [call EXCEPT ![c].request = IF ok THEN "ok"
                                                 ELSE "failed"]
          /\ UNCHANGED <<running, relayed, refresher, perm, chan, creating,
                         srvAlloc, srvBind>>

\* wait_finish after _new_permissions_created: waits again while one of the
\* others' addresses is still being created.
WaitFinish(c) ==
    LET over == call[c].others \cap creating = {}
        all  == \A i \in call[c].others : Linked(perm, i)
    IN /\ call[c].wait = "hop"
       /\ \/ /\ ~over
             /\ call' = [call EXCEPT ![c].wait = "wait"]
             /\ UNCHANGED <<running, relayed, refresher, perm, chan,
                            creating, srvAlloc, srvBind>>
          \/ /\ over /\ call[c].request # "sent"
             /\ PermRoom(call[c].ips)
             /\ FinishPermission(c, all /\ call[c].request = "ok")
          \/ /\ over /\ call[c].request = "sent"
             /\ call' = [call EXCEPT ![c].wait = "done", ![c].all = all]
             /\ UNCHANGED <<running, relayed, refresher, perm, chan,
                            creating, srvAlloc, srvBind>>

\* The wait was stopped by do_delete_allocation(): the call unwinds.
WaitStopped(c) ==
    /\ call[c].wait = "stopped"
    /\ FinishPermission(c, FALSE)
-----------------------------------------------------------------------------
(* The allocation's refresh task *)

\* The exit guard of refresh_allocation_task.
EndRefresher ==
    /\ DoDeleteAllocation("none", call)
    /\ UNCHANGED <<running, creating, srvAlloc, srvBind>>

SetRefresher(at) ==
    /\ refresher' = at
    /\ UNCHANGED <<running, relayed, perm, chan, creating, call, srvAlloc,
                   srvBind>>

\* The posted start runs; the guard is not armed on a stopped client.
RefresherBegins ==
    /\ refresher = "posted"
    /\ \/ running /\ relayed /\ SetRefresher("live")
       \/ running /\ ~relayed /\ EndRefresher
       \/ ~running /\ SetRefresher("none")

\* refresh() gives false: refused, not answered with a lifetime, or the
\* client was stopped before the timer fired.
RefresherFails == refresher = "live" /\ EndRefresher

\* The stop signal arrives, in the sleep or in the request.
RefresherStopped == refresher = "stopping" /\ EndRefresher
-----------------------------------------------------------------------------
(* The refresh task of a permission *)

PermBegins(p) ==
    /\ perm[p].at = "posted"
    /\ perm' = [perm EXCEPT ![p].at = "live"]
    /\ UNCHANGED <<running, relayed, refresher, chan, creating, call,
                   srvAlloc, srvBind>>

\* Mutant: the exit guard leaves the permission's channels bound.
EndPermAlone(p) ==
    /\ perm' = [perm EXCEPT ![p] = NoPerm]
    /\ UNCHANGED <<running, relayed, refresher, chan, creating, call,
                   srvAlloc, srvBind>>

\* Mutant: the task ends and the permission stays in _permissions.
EndPermLinked(p) ==
    /\ perm' = [perm EXCEPT ![p].at = "none"]
    /\ chan' = ExpireOf(chan, {p})
    /\ UNCHANGED <<running, relayed, refresher, creating, call, srvAlloc,
                   srvBind>>

\* The exit guard: unlink, and the channels expire.
EndPerm(p) ==
    /\ perm' = [perm EXCEPT ![p] = NoPerm]
    /\ chan' = ExpireOf(chan, {p})
    /\ UNCHANGED <<running, relayed, refresher, creating, call, srvAlloc,
                   srvBind>>

\* Mutant: a refused refresh is tried again for ever.
PermRetries(p) == perm[p].at = "live" /\ UNCHANGED vars

\* The server refuses the refreshing CreatePermission.
PermFails(p) == perm[p].at = "live" /\ EndPerm(p)

PermStopped(p) == perm[p].at = "stopping" /\ EndPerm(p)
-----------------------------------------------------------------------------
(* The refresh task of a channel *)

SetChan(k, o) ==
    /\ chan' = [chan EXCEPT ![k] = o]
    /\ UNCHANGED <<running, relayed, refresher, perm, creating, call,
                   srvAlloc, srvBind>>

\* Both exits, the on_error guard and the expired path, take the object out
\* of the tables in the end.
EndChan(k) == SetChan(k, NoChan)

\* The loop ends because channel_bind() gave false.  A channel that expired,
\* and whose stop was lost, stays among the expired ones for five minutes.
\* (One whose number is there already is in no table and may as well end.)
LeaveLoop(k) ==
    IF chan[k].where = "expired"
    THEN SetChan(k, [chan[k] EXCEPT !.at = "linger", !.ask = None])
    ELSE EndChan(k)

ChanBegins(k) ==
    chan[k].at = "posted" /\ SetChan(k, [chan[k] EXCEPT !.at = "sleep"])

\* The timer fires and the task calls channel_bind(peer), which may throw for
\* want of a number; or the five minutes of an expired channel are over.
ChanTimer(k) ==
    LET n == NumberFor(chan[k].peer)
    IN \/ /\ chan[k].at = "sleep" /\ running /\ relayed /\ n # None
          /\ SetChan(k, [chan[k] EXCEPT !.at = "sent", !.ask = n])
       \/ chan[k].at = "sleep" /\ running /\ relayed /\ n = None /\ EndChan(k)
       \/ chan[k].at = "sleep" /\ ~(running /\ relayed) /\ LeaveLoop(k)
       \/ chan[k].at = "linger" /\ EndChan(k)

\* channel_bind() has its answer: a channel that expired meanwhile is bound
\* anew, as another object.
ChanAnswered(k, ok) ==
    LET rest == [chan EXCEPT ![k].at = "sleep", ![k].ask = None]
        n    == chan[k].ask
        p    == chan[k].peer
    IN /\ chan[k].at = "sent"
       /\ \/ ~ok /\ LeaveLoop(k)
          \/ /\ ok /\ BindRoom(n, p)
             /\ Binds(n, p)
             /\ perm' = BindPerms(perm, rest, n, p)
             /\ chan' = BindChans(perm, rest, n, p)
             /\ UNCHANGED <<running, relayed, refresher, creating, call>>

\* The stop signal arrives, in the sleep, in the request or in the five
\* minutes, which it cuts short in each case.
ChanStopped(k) == chan[k].stopping /\ EndChan(k)
-----------------------------------------------------------------------------
ApplicationStep ==
    \/ Stop
    \/ \E ip \in Ips : DeletePermission(ip)
    \/ \E c \in Calls :
        \/ CreateAllocation(c)
        \/ \E ips \in SUBSET Ips : CreatePermission(c, ips)
        \/ \E peer \in Peers : ChannelBind(c, peer)
        \/ DeleteAllocation(c)

AnswerStep(c, ok) ==
    \/ AllocationAnswered(c, ok)
    \/ PermissionAnswered(c, ok)
    \/ BindAnswered(c, ok)
    \/ DeleteAnswered(c, ok)

WaitStep(c) == WaitFinish(c) \/ WaitStopped(c)

PostedStep ==
    \/ RefresherBegins
    \/ RefresherStopped
    \/ \E p \in PermIds : PermBegins(p) \/ PermStopped(p)
    \/ \E k \in ChanIds : ChanBegins(k) \/ ChanStopped(k)
    \/ \E c \in Calls : WaitStep(c)

\* Timers, answers and what the server does.
OutsideStep ==
    \/ RefresherFails
    \/ \E p \in PermIds : PermFails(p)
    \/ \E k \in ChanIds :
        ChanTimer(k) \/ \E ok \in BOOLEAN : ChanAnswered(k, ok)
    \/ \E c \in Calls :
        AnswerLost(c) \/ \E ok \in BOOLEAN : AnswerStep(c, ok)
    \/ AllocationExpires
    \/ \E b \in srvBind : BindingExpires(b)

Next == ApplicationStep \/ PostedStep \/ OutsideStep

Spec == Init /\ [][Next]_vars

\* Posted work waits for the executor.
Posted ==
    \/ refresher \in {"posted", "stopping"}
    \/ \E p \in PermIds : perm[p].at \in {"posted", "stopping"}
    \/ \E k \in ChanIds : chan[k].at = "posted" \/ chan[k].stopping
    \/ \E c \in Calls : call[c].wait \in {"hop", "stopped"}

\* What is posted runs before the next timer or datagram; only calls of the
\* application that were queued already come in between.
PromptNext == ApplicationStep \/ PostedStep \/ (~Posted /\ OutsideStep)

\* Posted work runs, timers fire, and the server answers in the end, drops
\* an allocation that is no longer refreshed and refuses what asks for it.
PromptSpec ==
    /\ Init /\ [][PromptNext]_vars
    /\ \A c \in Calls :
         /\ WF_vars(WaitStep(c))
         /\ SF_vars(~Posted /\ \E ok \in BOOLEAN : AnswerStep(c, ok))
    /\ WF_vars(RefresherBegins \/ RefresherStopped)
    /\ WF_vars(~Posted /\ ~srvAlloc /\ RefresherFails)
    /\ \A p \in PermIds :
         /\ WF_vars(PermBegins(p) \/ PermStopped(p))
         /\ WF_vars(~Posted /\ ~srvAlloc /\ PermFails(p))
    /\ \A k \in ChanIds :
         /\ WF_vars(ChanBegins(k) \/ ChanStopped(k))
         /\ WF_vars(~Posted /\ ChanTimer(k))
         /\ WF_vars(~Posted /\ \E ok \in BOOLEAN : ChanAnswered(k, ok))
    /\ WF_vars(~Posted /\ AllocationExpires)
-----------------------------------------------------------------------------
(* Properties *)

\* Channel data goes to, and comes from, the peer the server relays it to:
\* whatever the order of concurrent channel_bind() calls, refreshes and
\* expiries, the number async_send_to() writes for a peer is bound to no
\* other peer, and the peer datagram_received() reports for a number is the
\* one the server has bound.
RoutesAgree ==
    \A b \in srvBind :
        /\ RouteIn(b[1]) \subseteq {b[2]}
        /\ \A peer \in Peers : b[1] \in RouteOut(peer) => peer = b[2]

\* The two asserts of do_delete_allocation(): a channel is in the tables
\* only as long as it hangs on a permission of _permissions, so stopping
\* every permission leaves both tables empty.
BoundHangsOnPermission ==
    \A k \in ChanIds :
        chan[k].where = "bound" \/ chan[k].inPeer =>
            /\ chan[k].perm # None
            /\ perm[chan[k].perm].linked

\* Nothing the client relies on lapses unnoticed: a permission in
\* _permissions and a channel in the tables have a refresh task, and the
\* allocation of a running client has one.
TablesRefreshed ==
    /\ \A p \in PermIds : perm[p].linked => perm[p].at # "none"
    /\ \A k \in ChanIds : chan[k].where # "none" => chan[k].at # "none"
    /\ running /\ relayed => refresher # "none"

\* An address is marked as being created exactly as long as one call asks
\* for it: the mark create_permission() waits on is never left behind.
CreatingHasOwner ==
    \A i \in creating :
        Cardinality({c \in Calls : call[c].op = "perm" /\ i \in call[c].ips}) = 1

\* Every call returns, a create_permission() that waits for addresses other
\* calls are creating included: no wake-up of wait_finish is lost.  (Each
\* call is made once, so in the end none is in flight.)
CallsReturn == <>[](\A c \in Calls : call[c].op \in {"idle", "done"})

\* After stop() every background task comes to its end for good, the ones
\* whose stop signal came before they had started included.
StopEndsTasks ==
    <>[](~running => /\ refresher = "none"
                     /\ \A p \in PermIds : perm[p].at = "none"
                     /\ \A k \in ChanIds : chan[k].at = "none")
=============================================================================
