------------------------------ MODULE IceAgent ------------------------------
(***************************************************************************)
(* One ICE agent (agent_base_impl): candidate pairing, the checklist, the  *)
(* ordinary and triggered connectivity checks, the inbound Binding         *)
(* requests, nomination, connect(), close() and the release of unused      *)
(* candidates.  The peer, the network and the clocks are the environment:  *)
(* a response arrives, is refused or never comes.                          *)
(*                                                                         *)
(* Everything runs on one executor, so a step of the model is what the     *)
(* code does between two co_await points, and the interleaving of checks,  *)
(* request handlers, the connect() loop and the application's calls is     *)
(* free.                                                                   *)
(***************************************************************************)
EXTENDS Integers, FiniteSets

CONSTANTS
    Hosts,          \* local candidates with a transport of their own
    Relays,         \* the hosts that are relayed through a TURN client
    Reflexive,      \* addresses a NAT shows to the peer instead of a host's
    Srflx,          \* the reflexive addresses gathered from a STUN server
    Remotes,        \* remote transport addresses
    Mdns,           \* remotes signalled as an mDNS name
    ComponentCount,
    Component,      \* component of a candidate
    Foundation,     \* foundation of a pair's key
    Priority,       \* pair priority of a key; equal ones are common
    Seen,           \* the address the peer reports for a check of a key
    Ties,           \* tie-breaker values
    Roles,          \* the values _config.ice_controlling may start with
    Trickle,        \* _config.trickle_ice
    RemoteLite,     \* _remote_is_lite
    Answers,        \* answers the peer may give to a check
    CheckIds,       \* slots for do_check coroutines
    MaxPending,     \* _config.max_pending_check_count
    MaxRounds,      \* requests one do_check may send (10 in the code)
    HandlerIds,     \* slots for do_handle_request coroutines
    MaxInst,        \* pair objects made for one key (bound)
    QueueBound      \* tickets of the triggered-check queue (bound)

Locals == Hosts \cup Reflexive
Components == 1 .. ComponentCount

\* Two endpoints of the same component; candidate_pair objects are compared
\* by this key wherever the code compares endpoints.
Keys == {k \in Locals \X Remotes : Component[k[1]] = Component[k[2]]}

\* The object identity of a candidate_pair: its key and which of the objects
\* made for that key it is.
Pairs == Keys \X (1 .. MaxInst)
NoPair == <<>>

KeyOf(p) == p[1]
CompOf(p) == Component[p[1][1]]
KeyComp(k) == Component[k[1]]

ASSUME CandidateAssumption ==
    /\ Relays \subseteq Hosts /\ Srflx \subseteq Reflexive
    /\ Mdns \subseteq Remotes /\ Hosts \cap Reflexive = {}
    /\ ComponentCount \in Nat \ {0}
    /\ Component \in [Locals \cup Remotes -> Components]

ASSUME PairAssumption ==
    /\ Priority \in [Keys -> Nat]
    /\ Seen \in [Keys -> Locals]
    /\ \A k \in Keys : Component[Seen[k]] = Component[k[1]]

\* A check from the address a NAT gave a candidate leaves by the transport of
\* that candidate, and the peer sees the two alike.
ASSUME NatAssumption ==
    \A j, k \in Keys : k[1] = Seen[j] => Seen[k] = Seen[<<j[1], k[2]>>]

ASSUME LimitAssumption ==
    /\ IsFiniteSet(CheckIds) /\ CheckIds # {}
    /\ MaxPending \in Nat /\ MaxPending <= Cardinality(CheckIds)
    /\ MaxRounds \in Nat \ {0} /\ MaxInst \in Nat \ {0} /\ QueueBound \in Nat
    /\ Ties \subseteq Nat /\ Ties # {} /\ Roles \subseteq BOOLEAN
    /\ Answers \subseteq {"ok", "conflict", "error"}
    /\ Trickle \in BOOLEAN /\ RemoteLite \in BOOLEAN

VARIABLES
    state,          \* _state
    clState,        \* _check_list_state
    controlling,    \* _config.ice_controlling
    tie,            \* _tie_breaker
    locals,         \* _local_candidates that can be paired
    remotes,        \* _remote_candidates
    localEnd,       \* _local_candidates_end and the end of gathering
    remoteEnd,      \* _remote_candidates_end
    resolving,      \* add_remote_candidate calls waiting for mDNS
    receivers,      \* transports with a _stun_receivers entry
    made,           \* number of pair objects made for each key
    checkList,      \* _check_list
    pairState,      \* candidate_pair::_state
    valid,          \* _valid_list
    trigQ,          \* _triggered_check_queue, as tickets ordered by "at"
    checks,         \* the running do_check coroutines
    pending,        \* _pending_check_count
    loop,           \* where the do_connect coroutine stands
    handlers,       \* the running do_handle_request coroutines
    freeTimer       \* free_candidates is waiting for its three seconds

candVars == <<locals, remotes, localEnd, remoteEnd, resolving>>
listVars == <<made, checkList, pairState>>
roleVars == <<controlling, tie>>
vars == <<state, clState, roleVars, candVars, receivers, listVars, valid,
          trigQ, checks, pending, loop, handlers, freeTimer>>

Idle == [phase |-> "idle"]

AgentStates == {"INIT", "CONNECTING", "CONNECTED", "CLOSED"}
PairStates == {"FROZEN", "WAITING", "IN_PROGRESS", "SUCCEEDED", "FAILED"}
Results == {"none", "ok", "conflict", "error", "fail", "cancel"}

\* check_task in a queue: "at" orders the queue, lowest first.
Tasks == [at : Nat, pair : Pairs, use : BOOLEAN]

\* A do_check coroutine.  "perm": waiting for a TURN permission; "sched": the
\* transaction is registered, its run() is still posted; "retry": run() is
\* retransmitting; "quiet": retransmission stopped, still waiting for the
\* answer; "ending": waiting for run() to finish.  Once its result is known a
\* check only has to be resumed.
Check == [phase : {"perm", "sched", "retry", "quiet", "ending"}, pair : Pairs,
          use : BOOLEAN, role : BOOLEAN, tie : Ties, round : 1 .. MaxRounds,
          result : Results]

\* A do_handle_request coroutine: "resp" while the success response is sent,
\* "early" while it waits for connect() to be called.
Handler == {q \in [phase : {"resp", "early"}, local : Hosts, remote : Remotes,
                    use : BOOLEAN] : <<q.local, q.remote>> \in Keys}

\* valid_pair: the key of its pair, the object when it is a checklist pair,
\* the pair whose check produced it.
ValidEntry == [key : Keys, obj : Pairs \cup {NoPair},
               source : Pairs \cup {NoPair}, nominated : BOOLEAN]

\* The end of the local candidates is indicated by do_gather_candidates when it
\* returns ("over") or by a nomination while it still runs ("told").
EndTold == localEnd # "open"

Over == state \in {"CLOSED", "CONNECTED"}
Active == {c \in CheckIds : checks[c] # Idle}

-----------------------------------------------------------------------------
(* Pairing *)

InTriggeredCheckQueue(p) == \E t \in trigQ : t.pair = p

\* A pair made now is redundant with one that has not been checked yet.
Redundant(k) == \E p \in checkList : /\ KeyOf(p) = k
                                     /\ pairState[p] \in {"WAITING", "FROZEN"}

\* j is above k in the column of their foundation.
Above(j, k) == /\ Foundation[j] = Foundation[k]
               /\ \/ KeyComp(j) < KeyComp(k)
                  \/ KeyComp(j) = KeyComp(k) /\ Priority[j] > Priority[k]

NewPair(k) == <<k, made[k] + 1>>

\* pair_local_candidate and pair_remote_candidate over the keys K, in any
\* order: init_pair_state compares a pair with the ones listed before it, so a
\* pair dominated only by another new pair may go either way.
MakePairs(K) ==
    LET New == {k \in K : ~Redundant(k)}
        Listed == {KeyOf(p) : p \in checkList}
        Thawed(k) == \E p \in checkList : /\ Foundation[KeyOf(p)] = Foundation[k]
                                          /\ pairState[p] = "SUCCEEDED"
        Top(k, J) == \A j \in J : ~Above(j, k)
        Waiting == {k \in New : Top(k, Listed \cup New) \/ Thawed(k)}
        Either == {k \in New : Top(k, Listed)} \ Waiting
    IN  /\ \A k \in New : made[k] < MaxInst
        /\ made' = [k \in Keys |-> IF k \in New THEN made[k] + 1 ELSE made[k]]
        /\ checkList' = checkList \cup {NewPair(k) : k \in New}
        /\ \E W \in SUBSET Either :
             pairState' = [p \in Pairs |->
                 IF KeyOf(p) \in New /\ p = NewPair(KeyOf(p))
                 THEN IF Trickle /\ KeyOf(p) \in Waiting \cup W
                      THEN "WAITING" ELSE "FROZEN"
                 ELSE pairState[p]]

CanGather == ~Over /\ localEnd # "over"

\* get_component_candidates: every host candidate of a component at once.
GatherHosts(comp) ==
    LET H == {h \in Hosts \ Relays : Component[h] = comp}
    IN  /\ CanGather /\ H # {} /\ H \cap locals = {}
        /\ MakePairs({k \in Keys : k[1] \in H /\ k[2] \in remotes})
        /\ locals' = locals \cup H
        /\ receivers' = receivers \cup H
        /\ UNCHANGED <<state, clState, roleVars, remotes, localEnd, remoteEnd,
                       resolving, valid, trigQ, checks, pending, loop,
                       handlers, freeTimer>>

\* A STUN server answered for host h: server_reflexive_candidate pairs h again.
SrflxAnswer(h) ==
    /\ CanGather /\ h \in locals \cap (Hosts \ Relays)
    /\ MakePairs({k \in Keys : k[1] = h /\ k[2] \in remotes})
    /\ UNCHANGED <<state, clState, roleVars, candVars, receivers, valid,
                   trigQ, checks, pending, loop, handlers, freeTimer>>

\* create_relayed_candidate: a TURN allocation succeeded; nothing is paired.
GatherRelay(h) ==
    /\ CanGather /\ h \in Relays \ locals
    /\ locals' = locals \cup {h}
    /\ receivers' = receivers \cup {h}
    /\ UNCHANGED <<state, clState, roleVars, remotes, localEnd, remoteEnd,
                   resolving, listVars, valid, trigQ, checks, pending, loop,
                   handlers, freeTimer>>

\* do_gather_candidates returns or is stopped: its scope guard signals the end.
GatherEnd ==
    /\ localEnd # "over" /\ (Over \/ Hosts \ Relays \subseteq locals)
    /\ localEnd' = "over"
    /\ UNCHANGED <<state, clState, roleVars, locals, remotes, remoteEnd,
                   resolving, receivers, listVars, valid, trigQ, checks,
                   pending, loop, handlers, freeTimer>>

\* add_remote_candidate from the duplicate test on.
AddResolved(r) ==
    /\ IF r \in remotes
       THEN UNCHANGED <<remotes, listVars>>
       ELSE /\ MakePairs({k \in Keys : k[1] \in locals /\ k[2] = r})
            /\ remotes' = remotes \cup {r}
    /\ UNCHANGED <<state, clState, roleVars, locals, localEnd, remoteEnd,
                   receivers, valid, trigQ, checks, pending, loop, handlers,
                   freeTimer>>

AddRemoteCandidate(r) ==
    /\ r \in Remotes \ Mdns /\ ~Over /\ ~remoteEnd
    /\ AddResolved(r)
    /\ UNCHANGED resolving

\* An mDNS candidate is resolved first; nothing is tested again afterwards.
AddMdnsCandidate(r) ==
    /\ r \in Mdns \ resolving /\ ~Over /\ ~remoteEnd
    /\ resolving' = resolving \cup {r}
    /\ UNCHANGED <<state, clState, roleVars, locals, remotes, localEnd,
                   remoteEnd, receivers, listVars, valid, trigQ, checks,
                   pending, loop, handlers, freeTimer>>

MdnsResolved(r) ==
    /\ r \in resolving
    /\ resolving' = resolving \ {r}
    /\ AddResolved(r)

MdnsFailed(r) ==
    /\ r \in resolving
    /\ resolving' = resolving \ {r}
    /\ UNCHANGED <<state, clState, roleVars, locals, remotes, localEnd,
                   remoteEnd, receivers, listVars, valid, trigQ, checks,
                   pending, loop, handlers, freeTimer>>

\* add_remote_candidate() without a candidate: the peer has no more.
EndOfRemotes ==
    /\ ~remoteEnd
    /\ remoteEnd' = TRUE
    /\ UNCHANGED <<state, clState, roleVars, locals, remotes, localEnd,
                   resolving, receivers, listVars, valid, trigQ, checks,
                   pending, loop, handlers, freeTimer>>

-----------------------------------------------------------------------------
(* The connect() loop *)

\* Assigning _state stops free_candidates and wakes the connect() loop.
SetState(s) == /\ state' = s
               /\ freeTimer' = FALSE

\* Mutant: the loop does not watch _state.
SleepingLoop == loop

WokenLoop == IF loop = "waiting" THEN "woken" ELSE loop

\* unfreeze_initial sorts the pairs by component and priority and takes the
\* first one of every foundation.  Equal pairs are sorted either way.
Topmost ==
    {U \in SUBSET checkList :
        /\ \A p \in U, q \in checkList : ~Above(KeyOf(q), KeyOf(p))
        /\ \A q \in checkList : \E p \in U : Foundation[KeyOf(p)] = Foundation[KeyOf(q)]
        /\ \A p, q \in U : Foundation[KeyOf(p)] = Foundation[KeyOf(q)] => p = q}

UnfreezeInitial(U) ==
    [p \in Pairs |-> IF p \in U THEN "WAITING" ELSE pairState[p]]

Waiting(ps) == {p \in checkList : ps[p] = "WAITING"}

\* pick_next_pair, when no pair is Waiting.
ThawIdleFoundations(ps) ==
    [p \in Pairs |->
        IF /\ p \in checkList /\ ps[p] = "FROZEN" /\ Waiting(ps) = {}
           /\ \A q \in checkList : ps[q] = "IN_PROGRESS" =>
                Foundation[KeyOf(q)] # Foundation[KeyOf(p)]
        THEN "WAITING" ELSE ps[p]]

\* Popping the ticket t of the queue: the others move up.
Pop(t) == {[u EXCEPT !.at = u.at - t.at - 1] : u \in trigQ \ {t}}

AllComponentsHaveValidPair ==
    \A comp \in Components : \E e \in valid : KeyComp(e.key) = comp

\* Leaving the loop: every transaction is cancelled and the scope is stopped.
Stopped(k) ==
    CASE k.phase = "perm" -> [k EXCEPT !.result = "fail"]
      [] k.phase \in {"sched", "retry", "quiet"} ->
            [k EXCEPT !.phase = "ending", !.result = "cancel"]
      [] OTHER -> k

LeaveLoop == /\ loop' = "draining"
             /\ checks' = [c \in CheckIds |-> Stopped(checks[c])]

\* The first phases of a round of do_check: a relayed pair may need a TURN
\* permission first.
FirstPhases(p) == IF KeyOf(p)[1] \in Relays THEN {"perm", "sched"} ELSE {"sched"}

MayPerform == pending < MaxPending

\* do_check up to its first suspension.  A task picked while the limit is
\* reached is dropped.
Perform(p, use, ps) ==
    /\ loop' = "waiting"
    /\ IF MayPerform
       THEN /\ pending' = pending + 1
            /\ pairState' = [ps EXCEPT ![p] = "IN_PROGRESS"]
            /\ \E c \in CheckIds \ Active, f \in FirstPhases(p) :
                 checks' = [checks EXCEPT ![c] =
                     [phase |-> f, pair |-> p, use |-> use \/ RemoteLite,
                      role |-> controlling, tie |-> tie, round |-> 1,
                      result |-> "none"]]
       ELSE /\ pairState' = ps
            /\ UNCHANGED <<pending, checks>>

\* One turn of the loop, from the pair states ps.
TriggeredTurn(ps) ==
    /\ checkList # {}
    /\ \E t \in trigQ :
         /\ \A u \in trigQ : t.at <= u.at
         /\ trigQ' = Pop(t)
         /\ Perform(t.pair, t.use, ps)
    /\ UNCHANGED clState

OrdinaryTurn(ps) ==
    LET ts == ThawIdleFoundations(ps)
    IN  /\ checkList # {} /\ trigQ = {}
        /\ \E p \in Waiting(ts) :
             /\ \A q \in Waiting(ts) :
                  \/ Priority[KeyOf(q)] < Priority[KeyOf(p)]
                  \/ /\ Priority[KeyOf(q)] = Priority[KeyOf(p)]
                     /\ CompOf(p) <= CompOf(q)
             /\ Perform(p, FALSE, ts)
        /\ UNCHANGED <<clState, trigQ>>

\* No check can be performed: the checklist fails when every pair is settled,
\* no candidate can come and some component has no valid pair.
IdleTurn(ps) ==
    LET ts == ThawIdleFoundations(ps)
    IN  /\ \/ checkList = {} /\ pairState' = ps
           \/ /\ checkList # {} /\ trigQ = {} /\ Waiting(ts) = {}
              /\ pairState' = ts
        /\ IF /\ \A p \in checkList : pairState'[p] \in {"SUCCEEDED", "FAILED"}
              /\ Trickle => EndTold /\ remoteEnd
              /\ ~AllComponentsHaveValidPair
           THEN LeaveLoop /\ clState' = "FAILED"
           ELSE /\ loop' = "waiting"
                /\ UNCHANGED <<checks, clState>>
        /\ UNCHANGED <<pending, trigQ>>

Turn(ps) == TriggeredTurn(ps) \/ OrdinaryTurn(ps) \/ IdleTurn(ps)

\* do_connect up to its first suspension.
Connect ==
    /\ state = "INIT" /\ loop = "idle"
    /\ Trickle \/ (EndTold /\ remoteEnd)
    /\ SetState("CONNECTING")
    /\ \E U \in Topmost : Turn(UnfreezeInitial(U))
    /\ UNCHANGED <<roleVars, candVars, receivers, made, checkList, valid,
                   handlers>>

\* The check interval timer fires.
Tick ==
    /\ loop = "waiting"
    /\ Turn(pairState)
    /\ UNCHANGED <<state, roleVars, candVars, receivers, made, checkList,
                   valid, handlers, freeTimer>>

\* The state changed while the loop was waiting.
Woken ==
    /\ loop = "woken"
    /\ LeaveLoop
    /\ UNCHANGED <<state, clState, roleVars, candVars, receivers, listVars,
                   valid, trigQ, pending, handlers, freeTimer>>

\* Every check is over: do_connect returns.
Drained ==
    /\ loop = "draining" /\ Active = {}
    /\ loop' = "done"
    /\ freeTimer' = (state = "CONNECTED")
    /\ UNCHANGED <<state, clState, roleVars, candVars, receivers, listVars,
                   valid, trigQ, checks, pending, handlers>>

-----------------------------------------------------------------------------
(* Nomination and the end of a check *)

\* Transactions of the pairs P stop retransmitting.  A transaction whose run()
\* is still posted has nothing to stop: the call is lost.
StopRetrying(cs, P) ==
    [c \in CheckIds |-> IF cs[c].phase = "retry" /\ cs[c].pair \in P
                        THEN [cs[c] EXCEPT !.phase = "quiet"] ELSE cs[c]]

HasNominated(v, comp) == \E e \in v : e.nominated /\ KeyComp(e.key) = comp

\* Mutant: a second nomination in a component is not refused.
MayNominateAgain(v, e) == ~Over /\ ~e.nominated

\* set_nominated proceeds for the entry e of v.
MayNominate(v, e) == /\ ~Over /\ ~e.nominated
                     /\ ~HasNominated(v, KeyComp(e.key))

Nominated(v, e) == (v \ {e}) \cup {[e EXCEPT !.nominated = TRUE]}

\* Mutant: the nomination of one component completes the checklist.
AnyNominated(v) == \E comp \in Components : HasNominated(v, comp)

AllNominated(v) == \A comp \in Components : HasNominated(v, comp)

\* The part of set_nominated that follows the nomination of e in v: the
\* component leaves the checklist, and the last component completes it.
CompleteNomination(v, e) ==
    /\ valid' = Nominated(v, e)
    /\ checkList' = {p \in checkList : CompOf(p) # KeyComp(e.key)}
    /\ localEnd' = IF localEnd = "open" THEN "told" ELSE localEnd
    /\ IF AllNominated(Nominated(v, e))
       THEN clState' = "COMPLETED" /\ SetState("CONNECTED") /\ loop' = WokenLoop
       ELSE UNCHANGED <<clState, state, freeTimer, loop>>

QueueWithout(comp) == {t \in trigQ : CompOf(t.pair) # comp}

SameComponent(e, f) == KeyComp(e.key) = KeyComp(f.key)

\* default_nominate sorts the valid list by priority; the first pair of each
\* component without a nominated one is checked again with USE-CANDIDATE.
\* Equal pairs are sorted either way.
ToNominate(v) ==
    LET Open == {e \in v : ~HasNominated(v, KeyComp(e.key))}
    IN  {T \in SUBSET Open :
            /\ \A e \in T, f \in v :
                 SameComponent(e, f) => Priority[f.key] <= Priority[e.key]
            /\ \A f \in Open : \E e \in T : SameComponent(e, f)
            /\ \A e, f \in T : SameComponent(e, f) => e = f}

\* n is the first ticket after those of q.
IsEnd(q, n) == /\ \A t \in q : t.at < n
               /\ n = 0 \/ \E t \in q : t.at = n - 1

\* What check_complete does for the successful pair p when default_nominate
\* picks the entries T, from pair states ps, checklist cl, queue q, checks cs.
Renew(T, p, ps, cl, q, cs) ==
    LET S == {e.source : e \in T}
    IN  /\ pairState' = [x \in Pairs |->
             IF \/ x \in S
                \/ /\ x \in cl /\ ps[x] = "FROZEN"
                   /\ Foundation[KeyOf(x)] = Foundation[KeyOf(p)]
             THEN "WAITING" ELSE ps[x]]
        /\ checks' = StopRetrying(cs, S)
        /\ \E n \in 0 .. QueueBound :
             /\ IsEnd(q, n)
             /\ trigQ' = q \cup {[at |-> n + KeyComp(e.key) - 1,
                                  pair |-> e.source, use |-> TRUE] : e \in T}
        /\ \A t \in trigQ' : t.at < QueueBound

\* check_complete of p, with the valid list v and the agent state st: only a
\* controlling agent that is still connecting nominates.
CheckComplete(p, ps, v, cl, q, cs, st) ==
    \E T \in IF st \in {"CLOSED", "CONNECTED"} \/ ~controlling'
             THEN {{}} ELSE ToNominate(v) : Renew(T, p, ps, cl, q, cs)

Without(c) == [checks EXCEPT ![c] = Idle]

\* Mutant: a way out of do_check that does not count down.
CountKept == pending

\* The scope guard of do_check.
CountDown == pending - 1

\* Mutant: a failed check takes the valid pairs of its component along.
EraseComponent(p) == {e \in valid : KeyComp(e.key) # CompOf(p)}

\* Mutant: a failed pair leaves what it made valid.
KeepValid(p) == valid

\* check_complete of a failed pair.
EraseValid(p) == {e \in valid : e.source # p}

\* The check failed: its scope guard marks the pair and removes what the pair
\* made valid.
FailCheck(c) ==
    LET p == checks[c].pair
    IN  /\ pairState' = [pairState EXCEPT ![p] = "FAILED"]
        /\ valid' = EraseValid(p)
        /\ checks' = Without(c)
        /\ pending' = CountDown
        /\ UNCHANGED <<state, clState, locals, localEnd, made, checkList,
                       trigQ, loop, freeTimer>>

\* Mutant: the transaction that ends is counted as well.
OthersAndSelf(c) == {d \in Active : checks[d].pair = checks[c].pair}

\* The other transactions registered for the pair of c.
OthersOf(c) == {d \in Active \ {c} : /\ checks[d].pair = checks[c].pair
                                     /\ checks[d].phase # "perm"}

\* The check was cancelled: the pair goes back to Waiting when this was its
\* last transaction.
CancelCheck(c) ==
    LET p == checks[c].pair
    IN  /\ pairState' = [pairState EXCEPT ![p] =
             IF @ = "IN_PROGRESS" /\ OthersOf(c) = {} THEN "WAITING" ELSE @]
        /\ checks' = Without(c)
        /\ pending' = CountDown
        /\ UNCHANGED <<state, clState, locals, localEnd, made, checkList,
                       valid, trigQ, loop, freeTimer>>

\* Mutant: one request too many.
RetriesOnceMore(k) == k.round <= MaxRounds

\* Another request after a 487.
MayRetry(k) == k.round < MaxRounds

\* 487 Role Conflict: take the role the request did not claim, roll a new
\* tie-breaker and ask again.  A stopped check is cancelled at once.
NextRound(c) ==
    LET k == checks[c]
        round(f, r) == [k EXCEPT !.phase = f, !.result = r, !.round = @ + 1,
                                 !.role = controlling', !.tie = tie']
    IN  /\ MayRetry(k)
        /\ IF loop = "draining"
           THEN \E f \in FirstPhases(k.pair) :
                  checks' = [checks EXCEPT ![c] = Stopped(round(f, "none"))]
           ELSE \E f \in FirstPhases(k.pair) :
                  checks' = [checks EXCEPT ![c] = round(f, "none")]
        /\ UNCHANGED <<state, clState, locals, localEnd, listVars, valid,
                       trigQ, pending, loop, freeTimer>>

\* A success response: construct_valid_pair, the new entry of the valid list,
\* the nomination the request asked for, check_complete.
SucceedCheck(c) ==
    LET k == checks[c]
        p == k.pair
        key == <<Seen[KeyOf(p)], KeyOf(p)[2]>>
        Listed == {q \in checkList : KeyOf(q) = key}
        Objects == IF key = KeyOf(p) THEN {p}
                   ELSE IF Listed # {} THEN Listed ELSE {NoPair}
        Known == {e \in valid : e.key = key}
    IN  \E o \in Objects :
        LET Fresh == [key |-> key, obj |-> o, source |-> p, nominated |-> FALSE]
            v == IF Known = {} THEN valid \cup {Fresh} ELSE valid
            ps == [x \in Pairs |-> IF x = p \/ (Known = {} /\ x = o)
                                   THEN "SUCCEEDED" ELSE pairState[x]]
        IN  /\ locals' = IF Objects = {NoPair} /\ key[1] \in Reflexive \ Srflx
                         THEN locals \cup {key[1]} ELSE locals
            /\ pending' = CountDown
            /\ \E e \in IF Known = {} THEN {Fresh} ELSE Known :
                 IF k.use /\ MayNominate(v, e)
                 THEN /\ CompleteNomination(v, e)
                      /\ CheckComplete(p, ps, valid', checkList',
                             QueueWithout(KeyComp(key)),
                             StopRetrying(Without(c), {e.obj}), state')
                 ELSE /\ valid' = v
                      /\ CheckComplete(p, ps, v, checkList, trigQ,
                                        Without(c), state)
                      /\ UNCHANGED <<state, clState, localEnd, checkList, loop,
                                     freeTimer>>
            /\ UNCHANGED made

\* The answer to the last request allowed was 487: another check of the same
\* pair may have succeeded meanwhile.
ExhaustCheck(c) ==
    LET k == checks[c]
    IN  /\ ~MayRetry(k)
        /\ IF pairState[k.pair] = "SUCCEEDED"
           THEN /\ pending' = CountDown
                /\ CheckComplete(k.pair, pairState, valid, checkList, trigQ,
                                 Without(c), state)
                /\ UNCHANGED <<state, clState, locals, localEnd, made,
                               checkList, valid, loop, freeTimer>>
           ELSE FailCheck(c)

Resumed(c, results) ==
    /\ checks[c] # Idle /\ checks[c].result \in results
    /\ UNCHANGED <<remotes, remoteEnd, resolving, receivers, handlers>>

CheckOk(c) ==
    /\ Resumed(c, {"ok"})
    /\ UNCHANGED roleVars
    /\ SucceedCheck(c)

\* No answer, a broken one, an error response other than 487, or 487 from a
\* lite peer.
CheckFailed(c) ==
    /\ Resumed(c, {"fail", "error"} \cup IF RemoteLite THEN {"conflict"} ELSE {})
    /\ FailCheck(c)
    /\ UNCHANGED roleVars

\* Mutant: a cancelled check whose pair was queued again never ends.
CancelledInProgress(c) ==
    /\ Resumed(c, {"cancel"}) /\ pairState[checks[c].pair] = "IN_PROGRESS"
    /\ CancelCheck(c)
    /\ UNCHANGED roleVars

CheckCancelled(c) ==
    /\ Resumed(c, {"cancel"})
    /\ CancelCheck(c)
    /\ UNCHANGED roleVars

\* Mutant: a 487 toggles the role, whatever the request claimed.
Toggled(c) == ~controlling

\* The role the refused request did not claim.
Yielded(c) == ~checks[c].role

CheckConflict(c) ==
    /\ ~RemoteLite /\ Resumed(c, {"conflict"})
    /\ controlling' = Yielded(c)
    /\ tie' \in Ties
    /\ NextRound(c) \/ ExhaustCheck(c)

-----------------------------------------------------------------------------
(* What happens to a check while it waits *)

Move(c, phase, result) ==
    /\ checks' = [checks EXCEPT ![c].phase = phase, ![c].result = result]
    /\ UNCHANGED <<state, clState, roleVars, candVars, receivers, listVars,
                   valid, trigQ, pending, loop, handlers, freeTimer>>

Undecided(c, phases) == /\ checks[c] # Idle /\ checks[c].result = "none"
                        /\ checks[c].phase \in phases

\* The TURN server granted the permission.
PermissionGranted(c) == Undecided(c, {"perm"}) /\ Move(c, "sched", "none")

\* transaction::run starts and sends the request.
TransactionRun(c) == Undecided(c, {"sched"}) /\ Move(c, "retry", "none")

\* A response that passes the tests of request().
Answer(c, result) ==
    /\ result \in Answers
    /\ Undecided(c, {"retry", "quiet"})
    /\ Move(c, "ending", result)

\* The check's timer fires, the request cannot be sent, or the response is
\* not symmetric or incomplete: a failure, unless retransmission has been
\* stopped.  Only a later round can find the timer expired before run().
GiveUp(c) ==
    \/ Undecided(c, {"perm"}) /\ Move(c, "perm", "fail")
    \/ Undecided(c, {"retry"}) /\ Move(c, "ending", "fail")
    \/ Undecided(c, {"quiet"}) /\ Move(c, "ending", "cancel")
    \/ /\ Undecided(c, {"sched"}) /\ checks[c].round > 1
       /\ Move(c, "ending", "cancel")

-----------------------------------------------------------------------------
(* Inbound Binding requests *)

\* An authenticated request claims the agent's own role and the tie-breaker t.
Conflicts(role) == role = controlling

\* Mutant: the agent that is asked always yields.
RefusesNone(role, t) == FALSE

Refuses(role, t) == Conflicts(role) /\ (IF controlling THEN tie >= t ELSE tie < t)

\* request_handler and do_handle_request up to the success response.  A
\* request that is refused (400, 401, 487) changes nothing.
Request(h, l, r, use, role, t) ==
    /\ state # "CLOSED" /\ ~RemoteLite /\ l \in receivers
    /\ handlers[h] = Idle /\ ~Refuses(role, t)
    /\ controlling' = ~role
    /\ handlers' = [handlers EXCEPT ![h] =
           [phase |-> "resp", local |-> l, remote |-> r, use |-> use]]
    /\ UNCHANGED <<state, clState, tie, candVars, receivers, listVars, valid,
                   trigQ, checks, pending, loop, freeTimer>>

\* The response is sent: an early check waits for connect(), a late one ends.
RequestWaits(h) ==
    /\ handlers[h].phase = "resp" /\ state = "INIT"
    /\ handlers' = [handlers EXCEPT ![h].phase = "early"]
    /\ UNCHANGED <<state, clState, roleVars, candVars, receivers, listVars,
                   valid, trigQ, checks, pending, loop, freeTimer>>

Return(h) == handlers' = [handlers EXCEPT ![h] = Idle]

RequestLate(h) ==
    /\ handlers[h] # Idle
    /\ Over \/ (state = "CONNECTING" /\ handlers[h].local \notin locals)
    /\ Return(h)
    /\ UNCHANGED <<state, clState, roleVars, candVars, receivers, listVars,
                   valid, trigQ, checks, pending, loop, freeTimer>>

Enqueue(p, use) ==
    \E n \in 0 .. QueueBound - 1 :
        /\ IsEnd(trigQ, n)
        /\ trigQ' = trigQ \cup {[at |-> n, pair |-> p, use |-> use]}

\* The rest of do_handle_request, for a pair p of the checklist.
TriggerSucceeded(p, use) ==
    LET Own == {e \in valid : e.source = p}
    IN  /\ pairState[p] = "SUCCEEDED"
        /\ IF use /\ \E e \in Own : MayNominate(valid, e)
           THEN \E e \in Own :
                  /\ MayNominate(valid, e)
                  /\ CompleteNomination(valid, e)
                  /\ trigQ' = QueueWithout(KeyComp(e.key))
                  /\ checks' = StopRetrying(checks, {e.obj})
           ELSE UNCHANGED <<valid, checkList, localEnd, state, clState, loop,
                            freeTimer, trigQ, checks>>
        /\ UNCHANGED <<pairState, made>>

TriggerInProgress(p, use) ==
    /\ pairState[p] = "IN_PROGRESS"
    /\ checks' = StopRetrying(checks, {p})
    /\ pairState' = [pairState EXCEPT ![p] = "WAITING"]
    /\ Enqueue(p, use)
    /\ UNCHANGED <<valid, checkList, made, localEnd, state, clState, loop,
                   freeTimer>>

TriggerUnchecked(p, use) ==
    /\ pairState[p] \in {"FROZEN", "WAITING", "FAILED"}
    /\ IF InTriggeredCheckQueue(p)
       THEN UNCHANGED <<pairState, trigQ>>
       ELSE /\ pairState' = [pairState EXCEPT ![p] = "WAITING"]
            /\ Enqueue(p, use)
    /\ UNCHANGED <<checks, valid, checkList, made, localEnd, state, clState,
                   loop, freeTimer>>

\* ... and for a pair that is not in the checklist.
TriggerNew(k, use) ==
    /\ made[k] < MaxInst
    /\ made' = [made EXCEPT ![k] = @ + 1]
    /\ checkList' = checkList \cup {NewPair(k)}
    /\ pairState' = [pairState EXCEPT ![NewPair(k)] = "WAITING"]
    /\ Enqueue(NewPair(k), use)
    /\ UNCHANGED <<checks, valid, localEnd, state, clState, loop, freeTimer>>

\* Mutant: USE-CANDIDATE is not looked at.
NominatesAlways(q) == ~controlling

\* The request q nominates.
Nominates(q) == ~controlling /\ q.use

\* do_handle_request after the response: learn the remote, then trigger.
RequestProceeds(h) ==
    LET q == handlers[h]
        k == <<q.local, q.remote>>
        use == Nominates(q)
        Listed == {p \in checkList : KeyOf(p) = k}
    IN  /\ q # Idle /\ state = "CONNECTING" /\ q.local \in locals
        /\ remotes' = remotes \cup {q.remote}
        /\ Return(h)
        /\ \/ \E p \in Listed : \/ TriggerSucceeded(p, use)
                                \/ TriggerInProgress(p, use)
                                \/ TriggerUnchecked(p, use)
           \/ Listed = {} /\ TriggerNew(k, use)
        /\ UNCHANGED <<roleVars, locals, remoteEnd, resolving, receivers,
                       pending>>

-----------------------------------------------------------------------------
(* The end of the session *)

\* Mutant: the candidate of a nominated pair is taken for its transport.
InUseByAddress == {l \in Hosts : \E e \in valid : e.nominated /\ e.key[1] = l}

\* The transports of the nominated pairs; a reflexive candidate has the
\* transport of the host it was learned from.
InUse == {l \in Hosts : \E e \in valid :
             /\ e.nominated /\ <<l, e.key[2]>> \in Keys
             /\ e.key[1] \in {l, Seen[<<l, e.key[2]>>]}}

\* Mutant: the valid pairs that were not nominated stay.
KeptAll == valid

Kept == {e \in valid : e.nominated}

\* free_candidates, three seconds after CONNECTED.
FreeCandidates ==
    /\ freeTimer
    /\ freeTimer' = FALSE
    /\ receivers' = receivers \cap InUse
    /\ locals' = {} /\ remotes' = {} /\ checkList' = {} /\ trigQ' = {}
    /\ valid' = {[e EXCEPT !.source = NoPair] : e \in Kept}
    /\ UNCHANGED <<state, clState, roleVars, localEnd, remoteEnd, resolving,
                   made, pairState, checks, pending, loop, handlers>>

Close ==
    /\ state # "CLOSED"
    /\ SetState("CLOSED")
    /\ loop' = WokenLoop
    /\ checkList' = {} /\ valid' = {} /\ trigQ' = {}
    /\ checks' = StopRetrying(checks, Pairs)
    /\ receivers' = {}
    /\ handlers' = [h \in HandlerIds |-> Idle]
    /\ UNCHANGED <<clState, roleVars, candVars, made, pairState, pending>>

-----------------------------------------------------------------------------
Init ==
    /\ state = "INIT" /\ clState = "RUNNING"
    /\ controlling \in IF RemoteLite THEN {TRUE} ELSE Roles
    /\ tie \in Ties
    /\ locals = {} /\ remotes = {} /\ localEnd = "open" /\ remoteEnd = FALSE
    /\ resolving = {} /\ receivers = {}
    /\ made = [k \in Keys |-> 0]
    /\ checkList = {} /\ pairState = [p \in Pairs |-> "FROZEN"]
    /\ valid = {} /\ trigQ = {}
    /\ checks = [c \in CheckIds |-> Idle] /\ pending = 0
    /\ loop = "idle"
    /\ handlers = [h \in HandlerIds |-> Idle]
    /\ freeTimer = FALSE

Candidates ==
    \/ \E comp \in Components : GatherHosts(comp)
    \/ \E h \in Hosts : SrflxAnswer(h) \/ GatherRelay(h)
    \/ GatherEnd \/ EndOfRemotes
    \/ \E r \in Remotes : \/ AddRemoteCandidate(r) \/ AddMdnsCandidate(r)
                          \/ MdnsResolved(r) \/ MdnsFailed(r)

Waits(c) == \/ PermissionGranted(c) \/ TransactionRun(c) \/ GiveUp(c)
            \/ \E result \in Results : Answer(c, result)

Resumes(c) == CheckOk(c) \/ CheckFailed(c) \/ CheckCancelled(c) \/ CheckConflict(c)

Inbound(h) ==
    \/ \E l \in Hosts, r \in Remotes, use, role \in BOOLEAN, t \in Ties :
         <<l, r>> \in Keys /\ Request(h, l, r, use, role, t)
    \/ RequestWaits(h) \/ RequestLate(h) \/ RequestProceeds(h)

Next ==
    \/ Candidates
    \/ Connect \/ Tick \/ Woken \/ Drained
    \/ \E c \in CheckIds : Waits(c) \/ Resumes(c)
    \/ \E h \in HandlerIds : Inbound(h)
    \/ FreeCandidates \/ Close

Spec == Init /\ [][Next]_vars

\* The schedules in which everything already posted to the executor runs
\* before the next timer, datagram or call of the application.
Posted == \/ loop = "woken"
          \/ \E c \in Active : checks[c].result # "none" \/ checks[c].phase = "sched"

PromptNext == \/ \E c \in CheckIds : TransactionRun(c) \/ Resumes(c)
              \/ Woken
              \/ ~Posted /\ Next

PromptSpec == Init /\ [][PromptNext]_vars

\* What the executor and the timers guarantee: posted work runs, a check's
\* timer fires.
Fairness == /\ WF_vars(Tick) /\ WF_vars(Woken) /\ WF_vars(Drained)
            /\ \A c \in CheckIds : /\ WF_vars(TransactionRun(c))
                                   /\ WF_vars(GiveUp(c))
                                   /\ WF_vars(Resumes(c))

FairSpec == Spec /\ Fairness
PromptFairSpec == PromptSpec /\ Fairness

-----------------------------------------------------------------------------
(* Properties *)

\* Type invariant: among others no check sends more than MaxRounds requests,
\* however often the peer answers 487 (do_check).
TypeOK ==
    /\ state \in AgentStates
    /\ clState \in {"RUNNING", "COMPLETED", "FAILED"}
    /\ controlling \in BOOLEAN /\ tie \in Ties
    /\ locals \subseteq Locals /\ remotes \subseteq Remotes
    /\ localEnd \in {"open", "told", "over"} /\ remoteEnd \in BOOLEAN
    /\ resolving \subseteq Mdns /\ receivers \subseteq Hosts
    /\ made \in [Keys -> 0 .. MaxInst]
    /\ checkList \subseteq Pairs /\ pairState \in [Pairs -> PairStates]
    /\ valid \subseteq ValidEntry /\ trigQ \subseteq Tasks
    /\ checks \in [CheckIds -> Check \cup {Idle}] /\ pending \in Nat
    /\ loop \in {"idle", "waiting", "woken", "draining", "done"}
    /\ handlers \in [HandlerIds -> Handler \cup {Idle}]
    /\ freeTimer \in BOOLEAN

\* A component never has two nominated pairs, whatever the order in which
\* checks with USE-CANDIDATE succeed and requests with USE-CANDIDATE arrive
\* (set_nominated; find_nominated_pair returns the first it meets).
NominatedUnique ==
    \A e, f \in valid : e.nominated /\ f.nominated
                        /\ KeyComp(e.key) = KeyComp(f.key) => e = f

\* No pair of the valid list was produced by a pair whose last completed check
\* failed (check_complete erases what a failed pair made valid), although a
\* pair may be under several checks at once.
FailedPairNotValid ==
    \A e \in valid : e.source # NoPair => pairState[e.source] # "FAILED"

\* A pair is In-Progress only while a check of it is running: cancelled,
\* superseded and concurrent checks of the same pair leave no pair behind that
\* nothing will ever move on (do_check).
InProgressHasCheck ==
    \A p \in Pairs : pairState[p] = "IN_PROGRESS"
                     => \E c \in Active : checks[c].pair = p

\* _pending_check_count is the number of running checks and respects its
\* limit, on every path out of do_check.
PendingAccounting == pending = Cardinality(Active) /\ pending <= MaxPending

\* default_nominate dereferences the source of every entry it may pick: only
\* a nominated entry can have lost it (free_candidates resets sources).
SourcePresent == \A e \in valid : e.source = NoPair => e.nominated

\* A nominated pair keeps the transport its data arrives on: free_candidates
\* finds it from the nominated address, whether that is the host's own or one
\* a NAT gave it.
NominatedKeepsTransport ==
    \A e \in valid : e.nominated => \E l \in receivers :
        <<l, e.key[2]>> \in Keys /\ e.key[1] \in {l, Seen[<<l, e.key[2]>>]}

\* The comment in set_nominated: once a pair is nominated, a superseded
\* transaction is not treated as a failure.  A nomination then lasts until the
\* agent is closed.
NominationKept ==
    [][state' # "CLOSED" =>
         \A e \in valid : e.nominated => \E f \in valid' : f.key = e.key /\ f.nominated]_vars

\* The comment in check_complete: when the nominating request of a controlling
\* agent fails, the checklist fails, so connect() does not wait for ever for a
\* pair that nobody nominates.
FailedNominationEnds ==
    (\E c \in Active : /\ checks[c].use /\ checks[c].role /\ checks[c].result = "fail"
                       /\ ~HasNominated(valid, CompOf(checks[c].pair)))
        ~> clState = "FAILED" \/ Over

\* Once the loop of connect() is left, every running check ends, answered or
\* not, and connect() returns.
ConnectReturns == loop \in {"woken", "draining"} ~> loop = "done"

\* After close() nothing of the agent keeps running: the loop notices, and no
\* check is left behind.
CloseEnds == state = "CLOSED" ~> loop \in {"idle", "done"} /\ Active = {}
=============================================================================
