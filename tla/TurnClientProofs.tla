-------------------------- MODULE TurnClientProofs --------------------------
(***************************************************************************)
(* What holds of the TURN client for any number of calls, addresses,       *)
(* permissions and channels, and whatever the server does, also when       *)
(* posted work is late: channel data goes to the peer the server relays it *)
(* to, a channel in the tables hangs on a permission in _permissions, what *)
(* is in the tables is being refreshed, and no address stays marked as     *)
(* being created.                                                          *)
(*                                                                         *)
(* The routes need the most: that every channel in the tables has its      *)
(* binding at the server as long as there is an allocation.  An allocation *)
(* is made before the first channel, never after.                          *)
(*                                                                         *)
(* The records keep their shape; the fields no property depends on, such   *)
(* as a channel number, are left without a type.                           *)
(***************************************************************************)
EXTENDS TurnClient, FiniteSetTheorems, WellFoundedInduction, TLAPS

PermShape(o) == o \in [ip : {o.ip}, linked : BOOLEAN, at : TaskAt]

ChanShape(o) ==
    o \in [num : {o.num}, peer : {o.peer}, perm : PermIds \cup {None},
           where : {"none", "bound", "expired"}, inPeer : BOOLEAN,
           at : {"none", "posted", "sleep", "sent", "linger"}, stopping : BOOLEAN,
           ask : {o.ask}]

\* Only create_permission() waits.
CallShape(o) ==
    /\ o \in [op : {"idle", "alloc", "perm", "bind", "delete", "done"},
              request : {o.request}, ips : {o.ips}, others : {o.others},
              wait : {o.wait}, all : {o.all}, peer : {o.peer}, ask : {o.ask}]
    /\ o.wait # "none" => o.op = "perm"

\* A linked permission has its task.
PermGood(o) == PermShape(o) /\ (o.linked => o.at # "none")

\* A channel is in the tables exactly as long as it has a permission, and then
\* and while it is expired it has its task.
ChanGood(o, ps) ==
    /\ ChanShape(o)
    /\ o.where = "bound" => o.perm # None
    /\ o.perm # None => ps[o.perm].linked /\ o.at # "none"
    /\ o.inPeer => o.where = "bound"
    /\ o.where # "none" => o.at # "none"

PermsGood(ps) == DOMAIN ps = PermIds /\ \A p \in PermIds : PermGood(ps[p])

ChansGood(cs, ps) == DOMAIN cs = ChanIds /\ \A k \in ChanIds : ChanGood(cs[k], ps)

\* The bindings of the server are one to one, and while there is an allocation
\* every channel in the tables has one.
BindsGood(cs, alloc, binds) ==
    /\ \A b, d \in binds : (b[1] = d[1]) <=> (b[2] = d[2])
    /\ binds # {} => alloc
    /\ alloc => \A k \in ChanIds : cs[k].where = "bound"
                                     => <<cs[k].num, cs[k].peer>> \in binds

CallsGood == DOMAIN call = Calls /\ \A c \in Calls : CallShape(call[c])

\* Before the allocation has been answered there is nothing else.
NothingYet ==
    (\A c \in Calls : call[c].op \in {"idle", "alloc"}) =>
        /\ ~relayed /\ \A k \in ChanIds : chan[k].where # "bound" /\ chan[k].at = "none"

AllocAlone ==
    \A c \in Calls : call[c].op = "alloc" =>
        \A d \in Calls : d # c => call[d].op = "idle"

\* An address is marked exactly as long as a call asks for it, and only one.
MarksOwned ==
    /\ \A i \in creating : \E c \in Calls : call[c].op = "perm" /\ i \in call[c].ips
    /\ \A c \in Calls : call[c].op = "perm" => call[c].ips \subseteq creating
    /\ \A c, d \in Calls : /\ c # d /\ call[c].op = "perm" /\ call[d].op = "perm"
                           => call[c].ips \cap call[d].ips = {}

AllocRefreshed == running /\ relayed => refresher # "none"

\* The inductive invariant.
IInv == /\ PermsGood(perm)
        /\ ChansGood(chan, perm)
        /\ BindsGood(chan, srvAlloc, srvBind)
        /\ CallsGood
        /\ NothingYet /\ AllocAlone
        /\ MarksOwned
        /\ AllocRefreshed

-----------------------------------------------------------------------------
(* One permission, one channel.                                            *)

LEMMA Constants == None \notin PermIds /\ None \notin ChanIds
BY Zenon, TurnAssumption DEF None

LEMMA NoPermGood == PermGood(NoPerm) /\ ~NoPerm.linked
BY Zenon DEF PermGood, PermShape, NoPerm, TaskAt

LEMMA NoChanGood ==
    ASSUME NEW ps
    PROVE  ChanGood(NoChan, ps) /\ NoChan.where = "none" /\ NoChan.at = "none"
BY Zenon DEF ChanGood, ChanShape, NoChan, None

LEMMA StopPermGood ==
    ASSUME NEW o, PermGood(o)
    PROVE  PermGood(StopPerm(o)) /\ ~StopPerm(o).linked
BY Zenon DEF PermGood, PermShape, StopPerm, StopTask, TaskAt

LEMMA FireKeeps ==
    ASSUME NEW o, ChanShape(o)
    PROVE  LET e == Fire(o) IN
           /\ ChanShape(e) /\ e.where = o.where /\ e.inPeer = o.inPeer
           /\ e.perm = o.perm /\ e.at = o.at
           /\ e.num = o.num /\ e.peer = o.peer
<1> DEFINE b == o.at \in {"sleep", "sent", "linger"}
<1>1. Fire(o) = [o EXCEPT !.stopping = b] /\ b \in BOOLEAN
  BY DEF Fire
<1> HIDE DEF b
<1> QED
  BY Zenon, <1>1 DEF ChanShape

\* An expired or stopped channel has left the tables.
LEMMA ExpireGood ==
    ASSUME NEW cs, NEW k, ChanShape(cs[k]), cs[k].at # "none", NEW ps
    PROVE  LET e == Expire(cs, k) IN
           /\ ChanGood(e, ps) /\ e.where # "bound" /\ e.at = cs[k].at
<1> DEFINE twin == \E j \in ChanIds : j # k /\ cs[j].where = "expired"
                                            /\ cs[j].num = cs[k].num
           w == IF twin THEN "none" ELSE "expired"
           o == [cs[k] EXCEPT !.where = w, !.inPeer = FALSE, !.perm = None]
<1>1. w \in {"none", "expired"}
  OBVIOUS
<1>2. Expire(cs, k) = Fire(o)
  BY Zenon DEF Expire
<1> HIDE DEF w
<1>3. /\ ChanShape(o) /\ o.where = w /\ o.inPeer = FALSE /\ o.perm = None
      /\ o.at = cs[k].at
  BY Zenon, <1>1 DEF ChanShape
<1> HIDE DEF o
<1> QED
  BY <1>1, <1>2, <1>3, FireKeeps DEF ChanGood

LEMMA StopChanGood ==
    ASSUME NEW o, ChanShape(o), NEW ps
    PROVE  LET e == StopChan(o) IN
           /\ ChanGood(e, ps) /\ e.where # "bound" /\ e.at = o.at
<1> DEFINE d == [o EXCEPT !.where = "none", !.inPeer = FALSE, !.perm = None]
<1>1. StopChan(o) = Fire(d)
  BY Zenon DEF StopChan
<1>2. /\ ChanShape(d) /\ d.where = "none" /\ d.inPeer = FALSE /\ d.perm = None
      /\ d.at = o.at
  BY Zenon DEF ChanShape
<1> HIDE DEF d
<1> QED
  BY Zenon, <1>1, <1>2, FireKeeps DEF ChanGood

\* The channels of the permissions that go expire, the others keep theirs.
LEMMA ExpireOfGood ==
    ASSUME NEW cs, NEW ps, ChansGood(cs, ps), NEW gone \in SUBSET PermIds, NEW qs,
           \A p \in PermIds \ gone : ps[p].linked => qs[p].linked
    PROVE  /\ ChansGood(ExpireOf(cs, gone), qs)
           /\ \A k \in ChanIds :
                /\ ExpireOf(cs, gone)[k].at = cs[k].at
                /\ ExpireOf(cs, gone)[k].where = "bound"
                     => ExpireOf(cs, gone)[k] = cs[k] /\ cs[k].perm \notin gone
<1> DEFINE es == ExpireOf(cs, gone)
<1>1. ASSUME NEW k \in ChanIds
      PROVE  /\ ChanGood(es[k], qs) /\ es[k].at = cs[k].at
             /\ es[k].where = "bound" => es[k] = cs[k] /\ cs[k].perm \notin gone
  <2>1. ChanGood(cs[k], ps) /\ ChanShape(cs[k])
    BY Zenon DEF ChansGood, ChanGood
  <2>2. CASE cs[k].perm \in gone
    <3>1. es[k] = Expire(cs, k)
      BY Zenon, <2>2 DEF ExpireOf
    <3>2. cs[k].at # "none"
      BY Zenon, <2>1, <2>2, Constants DEF ChanGood
    <3> HIDE DEF es
    <3> QED
      BY Zenon, <2>1, <3>1, <3>2, ExpireGood
  <2>3. CASE cs[k].perm \notin gone
    <3>1. es[k] = cs[k]
      BY Zenon, <2>3 DEF ExpireOf
    <3>2. cs[k].perm # None => qs[cs[k].perm].linked
      BY Zenon, <2>1, <2>3 DEF ChanGood, ChanShape
    <3> HIDE DEF es
    <3> QED
      BY Zenon, <2>1, <2>3, <3>1, <3>2 DEF ChanGood
  <2> QED
    BY Zenon, <2>2, <2>3
<1>2. DOMAIN es = ChanIds
  BY Zenon DEF ExpireOf
<1> QED
  BY Zenon, <1>1, <1>2 DEF ChansGood

LEMMA BindsKept ==
    ASSUME NEW cs, NEW ds, NEW alloc, NEW binds, BindsGood(cs, alloc, binds),
           \A k \in ChanIds : ds[k].where = "bound" =>
               /\ cs[k].where = "bound"
               /\ ds[k].num = cs[k].num /\ ds[k].peer = cs[k].peer
    PROVE  BindsGood(ds, alloc, binds)
BY Zenon DEF BindsGood

-----------------------------------------------------------------------------
(* New objects.                                                            *)

\* The new permissions take objects that were free, and each address of ips has
\* a linked one afterwards.
LEMMA InstallGood ==
    ASSUME NEW ps, PermsGood(ps), NEW ips, Placements(ps, ips) # {}
    PROVE  /\ PermsGood(Install(ps, ips))
           /\ \A p \in PermIds : ps[p].linked => Install(ps, ips)[p] = ps[p]
           /\ \A i \in ips : Linked(Install(ps, ips), i)
<1> DEFINE id == CHOOSE f \in Placements(ps, ips) : TRUE
           qs == Install(ps, ips)
           New(i) == [ip |-> i, linked |-> ~Linked(ps, i), at |-> "posted"]
<1>1. id \in Placements(ps, ips)
  OBVIOUS
<1>2. /\ id \in [ips -> FreePerms(ps)]
      /\ \A i, j \in ips : id[i] = id[j] => i = j
  BY Zenon, <1>1 DEF Placements
<1>3. qs = [p \in PermIds |->
              IF \E i \in ips : id[i] = p
              THEN New(CHOOSE i \in ips : id[i] = p)
              ELSE ps[p]]
  BY Zenon DEF Install
<1> HIDE DEF id, qs
<1>4. \A i \in ips : id[i] \in PermIds /\ ~ps[id[i]].linked
  BY Zenon, <1>2 DEF FreePerms
<1>5. ASSUME NEW i \in ips PROVE qs[id[i]] = New(i)
  <2>1. (CHOOSE j \in ips : id[j] = id[i]) = i
    BY Zenon, <1>2
  <2> QED
    BY Zenon, <1>3, <1>4, <2>1
<1>6. ASSUME NEW p \in PermIds, ~\E i \in ips : id[i] = p PROVE qs[p] = ps[p]
  BY Zenon, <1>3, <1>6
<1>7. \A i \in ips : PermGood(New(i)) /\ New(i).ip = i /\ New(i).linked = ~Linked(ps, i)
  BY Zenon DEF PermGood, PermShape, TaskAt, Linked
<1>8. ASSUME NEW p \in PermIds
      PROVE  PermGood(qs[p]) /\ (ps[p].linked => qs[p] = ps[p])
  <2>1. CASE \E i \in ips : id[i] = p
    BY ZenonT(30), <2>1, <1>4, <1>5, <1>7
  <2>2. CASE ~\E i \in ips : id[i] = p
    BY Zenon, <2>2, <1>6 DEF PermsGood
  <2> QED
    BY Zenon, <2>1, <2>2
<1>9. ASSUME NEW i \in ips PROVE Linked(qs, i)
  <2>1. CASE Linked(ps, i)
    <3>1. PICK p \in PermIds : ps[p].linked /\ ps[p].ip = i
      BY Zenon, <2>1 DEF Linked
    <3> QED
      BY Zenon, <3>1, <1>8 DEF Linked
  <2>2. CASE ~Linked(ps, i)
    <3>1. qs[id[i]].linked /\ qs[id[i]].ip = i
      BY Zenon, <2>2, <1>5, <1>7
    <3> QED
      BY Zenon, <3>1, <1>4 DEF Linked
  <2> QED
    BY Zenon, <2>1, <2>2
<1>10. DOMAIN qs = PermIds
  BY Zenon, <1>3
<1> QED
  BY Zenon, <1>8, <1>9, <1>10 DEF PermsGood, qs

LEMMA LeastExists ==
    ASSUME NEW S \in SUBSET Nat, S # {}
    PROVE  Least(S) \in S
<1> DEFINE R == OpToRel(<, Nat)
<1>1. \A x, y \in Nat : <<y, x>> \in R <=> y < x
  BY Zenon DEF OpToRel
<1>2. IsWellFoundedOn(R, Nat)
  BY Zenon, NatLessThanWellFounded
<1> HIDE DEF R
<1>3. PICK x \in S : \A y \in S : ~(<<y, x>> \in R)
  BY Zenon, <1>2, WFMin
<1>4. ASSUME NEW y \in S PROVE x <= y
  <2>1. x \in Nat /\ y \in Nat /\ ~(<<y, x>> \in R)
    BY Zenon, <1>3
  <2>2. ~(y < x)
    BY <2>1, <1>1, Zenon
  <2> QED
    BY <2>1, <2>2
<1> QED
  BY Zenon, <1>4 DEF Least

\* The only channel a bind changes is the new one.
OnlyNew(cs, ds, n, peer) ==
    \A k \in ChanIds : ds[k] = cs[k] \/ (ds[k].num = n /\ ds[k].peer = peer)

\* What channel_bind() makes of the tables when the server has accepted the
\* number: a permission of the address if there is none, and the channel, which
\* hangs on it.
LEMMA BindGood ==
    ASSUME PermsGood(perm), NEW cs, ChansGood(cs, perm), NEW n, NEW peer,
           \/ Bound(cs, n)
           \/ PermRoom({IpOf[peer]}) /\ FreeChans(cs) # {}
    PROVE  LET ps2 == BindPerms(perm, cs, n, peer)
               cs2 == BindChans(perm, cs, n, peer)
           IN /\ PermsGood(ps2) /\ ChansGood(cs2, ps2)
              /\ OnlyNew(cs, cs2, n, peer)
<1> DEFINE ip == IpOf[peer]
           ps2 == BindPerms(perm, cs, n, peer)
           cs2 == BindChans(perm, cs, n, peer)
<1> SUFFICES /\ PermsGood(ps2) /\ ChansGood(cs2, ps2)
             /\ \A k \in ChanIds : cs2[k] = cs[k]
                                   \/ (cs2[k].num = n /\ cs2[k].peer = peer)
  BY Zenon DEF OnlyNew
<1> HIDE DEF ps2, cs2
<1>1. CASE ~running \/ Bound(cs, n)
  <2>1. ps2 = perm /\ cs2 = cs
    BY Zenon, <1>1 DEF BindPerms, BindChans, ps2, cs2
  <2> QED
    BY Zenon, <2>1
<1>2. CASE ~(~running \/ Bound(cs, n))
  <2>1. /\ PermsGood(ps2) /\ Linked(ps2, ip)
        /\ \A p \in PermIds : perm[p].linked => ps2[p].linked
    <3>1. CASE Linked(perm, ip)
      <4>1. ps2 = perm
        BY Zenon, <3>1 DEF BindPerms, ps2
      <4> QED
        BY Zenon, <3>1, <4>1
    <3>2. CASE ~Linked(perm, ip)
      <4>1. ps2 = Install(perm, {ip})
        BY Zenon, <1>2, <3>2 DEF BindPerms, ps2
      <4>2. Placements(perm, {ip}) # {}
        BY Zenon, <1>2 DEF PermRoom
      <4> HIDE DEF ip
      <4> QED
        BY SMTT(30), <4>1, <4>2, InstallGood
    <3> QED
      BY Zenon, <3>1, <3>2
  <2> DEFINE p == CHOOSE p \in PermIds : ps2[p].linked /\ ps2[p].ip = ip
             k0 == Least(FreeChans(cs))
             o == [num |-> n, peer |-> peer, perm |-> p, where |-> "bound",
                   inPeer |-> OfPeer(cs, peer) = {}, at |-> "posted",
                   stopping |-> FALSE, ask |-> None]
  <2>2. p \in PermIds /\ ps2[p].linked
    BY Zenon, <2>1 DEF Linked
  <2>3. k0 \in FreeChans(cs) /\ k0 \in ChanIds
    <3>1. FreeChans(cs) \in SUBSET Nat /\ FreeChans(cs) # {}
      BY Zenon, <1>2, TurnAssumption DEF FreeChans
    <3>2. k0 \in FreeChans(cs)
      BY Zenon, <3>1, LeastExists
    <3> QED
      BY Zenon, <3>2 DEF FreeChans
  <2>4. cs2 = [cs EXCEPT ![k0] = o]
    BY Zenon, <1>2 DEF BindChans, cs2, ps2
  <2> HIDE DEF p, k0
  <2>5. ChanGood(o, ps2) /\ o.num = n /\ o.peer = peer
    BY Zenon, <2>2, Constants DEF ChanGood, ChanShape
  <2> HIDE DEF o
  <2>6. ASSUME NEW k \in ChanIds PROVE ChanGood(cs[k], ps2)
    <3>1. ChanGood(cs[k], perm)
      BY Zenon DEF ChansGood
    <3>2. cs[k].perm # None => ps2[cs[k].perm].linked
      BY Zenon, <3>1, <2>1 DEF ChanGood, ChanShape
    <3> QED
      BY Zenon, <3>1, <3>2 DEF ChanGood
  <2>7. DOMAIN cs2 = ChanIds /\ \A k \in ChanIds : cs2[k] = IF k = k0 THEN o ELSE cs[k]
    BY Zenon, <2>3, <2>4 DEF ChansGood
  <2> QED
    BY Zenon, <2>1, <2>5, <2>6, <2>7 DEF ChansGood
<1> QED
  BY Zenon, <1>1, <1>2

-----------------------------------------------------------------------------
(* The calls.                                                              *)

LEMMA NoCallShape == CallShape(NoCall)
BY Zenon DEF CallShape, NoCall

LEMMA DoneShape == CallShape(Done) /\ Done.op = "done"
BY Zenon DEF CallShape, NoCall, Done

LEMMA WakeKeeps ==
    ASSUME NEW cl, NEW how, \A c \in Calls : CallShape(cl[c])
    PROVE  /\ DOMAIN Wake(cl, how) = Calls
           /\ \A c \in Calls : /\ CallShape(Wake(cl, how)[c])
                               /\ Wake(cl, how)[c].op = cl[c].op
                               /\ Wake(cl, how)[c].ips = cl[c].ips
<1>1. DOMAIN Wake(cl, how) = Calls
  BY Zenon DEF Wake
<1>2. ASSUME NEW c \in Calls
      PROVE  /\ CallShape(Wake(cl, how)[c])
             /\ Wake(cl, how)[c].op = cl[c].op
             /\ Wake(cl, how)[c].ips = cl[c].ips
  <2>1. Wake(cl, how)[c] = IF cl[c].wait = "wait" THEN [cl[c] EXCEPT !.wait = how]
                           ELSE cl[c]
    BY Zenon DEF Wake
  <2> QED
    BY Zenon, <2>1 DEF CallShape
<1> QED
  BY Zenon, <1>1, <1>2

CallsInv == CallsGood /\ AllocAlone /\ MarksOwned

\* Calls that go on ask for what they asked for.
Onward == /\ CallsGood'
          /\ \A d \in Calls : call'[d].op = call[d].op /\ call'[d].ips = call[d].ips
          /\ UNCHANGED creating

LEMMA CallsOnward ==
    ASSUME CallsInv, Onward
    PROVE  CallsInv'
BY DEF CallsInv, AllocAlone, MarksOwned, Onward

\* A call ends, and with it what it asked for.
LEMMA CallEnds ==
    ASSUME CallsInv, NEW c \in Calls, CallsGood', call[c].op # "idle",
           call'[c].op = "done",
           \A d \in Calls : d # c => /\ call'[d].op = call[d].op
                                     /\ call'[d].ips = call[d].ips,
           \/ call[c].op = "perm" /\ creating' = creating \ call[c].ips
           \/ call[c].op # "perm" /\ UNCHANGED creating
    PROVE  CallsInv' /\ NothingYet'
<1>1. AllocAlone'
  BY Zenon DEF CallsInv, AllocAlone
<1>2. MarksOwned'
  <2>1. ASSUME NEW i \in creating'
        PROVE  \E d \in Calls : call'[d].op = "perm" /\ i \in call'[d].ips
    <3>1. PICK d \in Calls : call[d].op = "perm" /\ i \in call[d].ips
      BY Zenon DEF CallsInv, MarksOwned
    <3>2. d # c
      BY Zenon, <3>1
    <3> QED
      BY Zenon, <3>1, <3>2
  <2>2. ASSUME NEW d \in Calls, call'[d].op = "perm"
        PROVE  call'[d].ips \subseteq creating'
    <3>1. d # c /\ call[d].op = "perm" /\ call'[d].ips = call[d].ips
      BY Zenon, <2>2
    <3>2. call[d].ips \subseteq creating
      BY Zenon, <3>1 DEF CallsInv, MarksOwned
    <3>3. call[c].op = "perm" => call[d].ips \cap call[c].ips = {}
      BY Zenon, <3>1 DEF CallsInv, MarksOwned
    <3> QED
      BY Zenon, <3>1, <3>2, <3>3
  <2>3. ASSUME NEW d \in Calls, NEW e \in Calls, d # e,
               call'[d].op = "perm", call'[e].op = "perm"
        PROVE  call'[d].ips \cap call'[e].ips = {}
    BY Zenon, <2>3 DEF CallsInv, MarksOwned
  <2> QED
    BY Zenon, <2>1, <2>2, <2>3 DEF MarksOwned
<1>3. NothingYet'
  BY Zenon DEF NothingYet
<1> QED
  BY Zenon, <1>1, <1>2, <1>3 DEF CallsInv

\* A call begins, once there is a relayed address.
LEMMA CallBegins ==
    ASSUME IInv, NEW c \in Calls, NEW f, Begin(c, f), CallShape(f), relayed,
           f.op \in {"perm", "bind", "delete"},
           f.op = "perm" => f.ips \cap creating = {},
           creating' = IF f.op = "perm" THEN creating \cup f.ips ELSE creating
    PROVE  CallsInv' /\ NothingYet'
<1>1. /\ call[c].op = "idle" /\ call'[c] = f
      /\ \A d \in Calls : d # c => call'[d] = call[d]
      /\ DOMAIN call' = Calls
  BY Zenon DEF Begin, IInv, CallsGood
<1>2. CallsGood'
  BY Zenon, <1>1 DEF IInv, CallsGood
<1>3. \A d \in Calls : call[d].op # "alloc"
  <2> SUFFICES ASSUME NEW d \in Calls, call[d].op = "alloc" PROVE FALSE
    OBVIOUS
  <2>1. \A e \in Calls : call[e].op \in {"idle", "alloc"}
    BY Zenon DEF IInv, AllocAlone
  <2> QED
    BY Zenon, <2>1 DEF IInv, NothingYet
<1>4. AllocAlone'
  BY Zenon, <1>1, <1>3 DEF AllocAlone
<1>5. MarksOwned'
  <2>1. ASSUME NEW i \in creating'
        PROVE  \E d \in Calls : call'[d].op = "perm" /\ i \in call'[d].ips
    <3>1. CASE i \in creating
      <4>1. PICK d \in Calls : call[d].op = "perm" /\ i \in call[d].ips
        BY Zenon, <3>1 DEF IInv, MarksOwned
      <4> QED
        BY Zenon, <4>1, <1>1
    <3>2. CASE i \notin creating
      BY Zenon, <3>2, <1>1
    <3> QED
      BY Zenon, <3>1, <3>2
  <2>2. ASSUME NEW d \in Calls, call'[d].op = "perm"
        PROVE  call'[d].ips \subseteq creating'
    BY Zenon, <2>2, <1>1 DEF IInv, MarksOwned
  <2>3. ASSUME NEW d \in Calls, NEW e \in Calls, d # e,
               call'[d].op = "perm", call'[e].op = "perm"
        PROVE  call'[d].ips \cap call'[e].ips = {}
    <3>1. CASE d # c /\ e # c
      BY <2>3, <3>1, <1>1 DEF IInv, MarksOwned
    <3>2. CASE d = c
      <4>1. call'[d] = f /\ call'[e] = call[e]
        BY Zenon, <2>3, <3>2, <1>1
      <4>2. call[e].ips \subseteq creating
        BY Zenon, <2>3, <4>1 DEF IInv, MarksOwned
      <4> QED
        BY Zenon, <2>3, <4>1, <4>2
    <3>3. CASE e = c
      <4>1. call'[e] = f /\ call'[d] = call[d]
        BY Zenon, <2>3, <3>3, <1>1
      <4>2. call[d].ips \subseteq creating
        BY Zenon, <2>3, <4>1 DEF IInv, MarksOwned
      <4> QED
        BY Zenon, <2>3, <4>1, <4>2
    <3> QED
      BY Zenon, <3>1, <3>2, <3>3
  <2> QED
    BY Zenon, <2>1, <2>2, <2>3 DEF MarksOwned
<1>6. NothingYet'
  BY Zenon, <1>1 DEF NothingYet
<1> QED
  BY Zenon, <1>2, <1>4, <1>5, <1>6 DEF CallsInv

-----------------------------------------------------------------------------
(* What the steps have in common.                                          *)

LEMMA Assembled ==
    ASSUME PermsGood(perm'), ChansGood(chan', perm'),
           BindsGood(chan', srvAlloc', srvBind'),
           CallsInv', NothingYet', AllocRefreshed'
    PROVE  IInv'
<1>1. PermsGood(perm)'
  BY Zenon DEF PermsGood, PermGood, PermShape
<1>2. ChansGood(chan, perm)'
  BY Zenon DEF ChansGood, ChanGood, ChanShape
<1>3. BindsGood(chan, srvAlloc, srvBind)'
  BY Zenon DEF BindsGood
<1>4. CallsGood' /\ AllocAlone' /\ MarksOwned'
  BY Zenon DEF CallsInv
<1> QED
  BY Zenon, <1>1, <1>2, <1>3, <1>4 DEF IInv

\* A channel that has a task, or a relayed address, comes after a call that was
\* not for the allocation.
LEMMA SomethingYet ==
    ASSUME IInv, relayed \/ \E k \in ChanIds : chan[k].at # "none", Onward
    PROVE  NothingYet'
<1>1. PICK c \in Calls : call[c].op \notin {"idle", "alloc"}
  BY Zenon DEF IInv, NothingYet
<1>2. call'[c].op \notin {"idle", "alloc"}
  BY Zenon, <1>1 DEF Onward
<1> QED
  BY Zenon, <1>1, <1>2 DEF NothingYet

LEMMA StillNothing ==
    ASSUME IInv, Onward, relayed' => relayed,
           \A k \in ChanIds : /\ chan'[k].at = chan[k].at
                              /\ chan'[k].where = "bound" => chan[k].where = "bound"
    PROVE  NothingYet'
<1> SUFFICES ASSUME \A c \in Calls : call'[c].op \in {"idle", "alloc"}
             PROVE  /\ ~relayed'
                    /\ \A k \in ChanIds : chan'[k].where # "bound"
                                          /\ chan'[k].at = "none"
  BY Zenon DEF NothingYet
<1>1. \A c \in Calls : call[c].op \in {"idle", "alloc"}
  BY Zenon DEF Onward
<1> QED
  BY Zenon, <1>1 DEF IInv, NothingYet

\* The calls are left alone.
LEMMA CallsKept ==
    ASSUME IInv, UNCHANGED <<call, creating>>
    PROVE  CallsInv' /\ Onward
BY Zenon DEF IInv, CallsInv, Onward, CallsGood, CallShape, AllocAlone, MarksOwned

\* The tables are left alone.
LEMMA TablesKept ==
    ASSUME IInv, UNCHANGED <<perm, chan>>
    PROVE  PermsGood(perm') /\ ChansGood(chan', perm')
BY Zenon DEF IInv

\* The server refuses, or drops the allocation with its bindings.
LEMMA ServerKept ==
    ASSUME IInv, Refuses \/ Deallocates,
           \A k \in ChanIds : chan'[k].where = "bound" =>
               /\ chan[k].where = "bound"
               /\ chan'[k].num = chan[k].num /\ chan'[k].peer = chan[k].peer
    PROVE  BindsGood(chan', srvAlloc', srvBind')
<1>1. CASE Refuses
  <2>1. srvAlloc' = srvAlloc /\ srvBind' = srvBind
    BY Zenon, <1>1 DEF Refuses
  <2> QED
    BY Zenon, <2>1, BindsKept DEF IInv
<1>2. CASE Deallocates
  BY Zenon, <1>2 DEF Deallocates, BindsGood
<1> QED
  BY Zenon, <1>1, <1>2

\* The server accepts a binding.
LEMMA ServerBinds ==
    ASSUME IInv, NEW n, NEW peer, Binds(n, peer),
           \A k \in ChanIds : chan'[k].where = "bound" =>
               \/ /\ chan[k].where = "bound"
                  /\ chan'[k].num = chan[k].num /\ chan'[k].peer = chan[k].peer
               \/ chan'[k].num = n /\ chan'[k].peer = peer
    PROVE  BindsGood(chan', srvAlloc', srvBind')
<1>1. /\ srvAlloc /\ srvAlloc' = srvAlloc
      /\ srvBind' = srvBind \cup {<<n, peer>>}
      /\ \A b \in srvBind : (b[1] = n) = (b[2] = peer)
  BY Zenon DEF Binds, Acceptable
<1>2. \A b, d \in srvBind : (b[1] = d[1]) <=> (b[2] = d[2])
  BY Zenon DEF IInv, BindsGood
<1>3. \A b, d \in srvBind' : (b[1] = d[1]) <=> (b[2] = d[2])
  BY <1>1, <1>2
<1>4. ASSUME NEW k \in ChanIds, chan'[k].where = "bound"
      PROVE  <<chan'[k].num, chan'[k].peer>> \in srvBind'
  BY Zenon, <1>1, <1>4 DEF IInv, BindsGood
<1> QED
  BY Zenon, <1>1, <1>3, <1>4 DEF BindsGood

LEMMA Deleted ==
    ASSUME IInv, NEW rf, NEW cl, DoDeleteAllocation(rf, cl),
           \A c \in Calls : CallShape(cl[c])
    PROVE  /\ PermsGood(perm') /\ ChansGood(chan', perm')
           /\ \A k \in ChanIds : /\ chan'[k].at = chan[k].at
                                 /\ chan'[k].where # "bound"
           /\ ~relayed' /\ AllocRefreshed'
           /\ CallsGood'
           /\ \A c \in Calls : call'[c].op = cl[c].op /\ call'[c].ips = cl[c].ips
<1> DEFINE gone == {p \in PermIds : perm[p].linked}
           cs == ExpireOf(chan, gone)
<1>1. perm' = [p \in PermIds |-> IF p \in gone THEN StopPerm(perm[p]) ELSE perm[p]]
  BY Zenon DEF DoDeleteAllocation
<1>2. chan' = [k \in ChanIds |-> IF cs[k].where = "expired"
                                 THEN StopChan(cs[k]) ELSE cs[k]]
  BY Zenon DEF DoDeleteAllocation
<1>3. gone \in SUBSET PermIds /\ \A p \in PermIds \ gone : ~perm[p].linked
  OBVIOUS
<1> HIDE DEF gone
<1>4. PermsGood(perm')
  <2>1. ASSUME NEW p \in PermIds PROVE PermGood(perm'[p])
    <3>1. PermGood(perm[p])
      BY Zenon DEF IInv, PermsGood
    <3> QED
      BY Zenon, <1>1, <3>1, StopPermGood
  <2> QED
    BY Zenon, <1>1, <2>1 DEF PermsGood
<1>5. /\ ChansGood(cs, perm')
      /\ \A k \in ChanIds :
           /\ cs[k].at = chan[k].at
           /\ cs[k].where = "bound" => cs[k] = chan[k] /\ chan[k].perm \notin gone
  BY Zenon, <1>3, ExpireOfGood DEF IInv
<1> HIDE DEF cs
<1>6. ASSUME NEW k \in ChanIds PROVE cs[k].where # "bound"
  <2> SUFFICES ASSUME cs[k].where = "bound" PROVE FALSE
    OBVIOUS
  <2>1. chan[k].where = "bound" /\ chan[k].perm \notin gone
    BY Zenon, <1>5
  <2>2. chan[k].perm # None /\ chan[k].perm \in PermIds /\ perm[chan[k].perm].linked
    BY Zenon, <2>1 DEF IInv, ChansGood, ChanGood, ChanShape
  <2> QED
    BY Zenon, <1>3, <2>1, <2>2
<1>7. ASSUME NEW k \in ChanIds
      PROVE  /\ ChanGood(chan'[k], perm') /\ chan'[k].at = chan[k].at
             /\ chan'[k].where # "bound"
  <2>1. ChanGood(cs[k], perm') /\ ChanShape(cs[k])
    BY Zenon, <1>5 DEF ChansGood, ChanGood
  <2>2. CASE cs[k].where = "expired"
    <3>1. chan'[k] = StopChan(cs[k])
      BY Zenon, <1>2, <2>2
    <3> QED
      BY Zenon, <2>1, <3>1, <1>5, StopChanGood
  <2>3. CASE cs[k].where # "expired"
    <3>1. chan'[k] = cs[k]
      BY Zenon, <1>2, <2>3
    <3> QED
      BY Zenon, <2>1, <3>1, <1>5, <1>6
  <2> QED
    BY Zenon, <2>2, <2>3
<1>8. ChansGood(chan', perm')
  BY Zenon, <1>2, <1>7 DEF ChansGood
<1>9. ~relayed' /\ AllocRefreshed'
  BY Zenon DEF DoDeleteAllocation, AllocRefreshed
<1>10. /\ CallsGood'
       /\ \A c \in Calls : call'[c].op = cl[c].op /\ call'[c].ips = cl[c].ips
  <2>1. call' = Wake(cl, "stopped")
    BY Zenon DEF DoDeleteAllocation
  <2>2. /\ DOMAIN call' = Calls
        /\ \A c \in Calls : /\ CallShape(call'[c])
                            /\ call'[c].op = cl[c].op /\ call'[c].ips = cl[c].ips
    BY Zenon, <2>1, WakeKeeps
  <2> QED
    BY Zenon, <2>2 DEF CallsGood, CallShape
<1> QED
  BY Zenon, <1>4, <1>7, <1>8, <1>9, <1>10

-----------------------------------------------------------------------------
(* The application's calls.                                                *)

LEMMA StopStep == ASSUME IInv, Stop PROVE IInv'
<1>1. DoDeleteAllocation(StopTask(refresher), call) /\ \A c \in Calls : CallShape(call[c])
  BY Zenon DEF Stop, IInv, CallsGood
<1>2. /\ PermsGood(perm') /\ ChansGood(chan', perm') /\ ~relayed'
      /\ \A k \in ChanIds : chan'[k].at = chan[k].at /\ chan'[k].where # "bound"
      /\ AllocRefreshed' /\ CallsGood'
      /\ \A c \in Calls : call'[c].op = call[c].op /\ call'[c].ips = call[c].ips
  BY Zenon, <1>1, Deleted
<1>3. Onward
  BY Zenon, <1>2 DEF Onward, Stop
<1>4. CallsInv'
  BY Zenon, <1>3, CallsOnward DEF IInv, CallsInv
<1>5. NothingYet'
  BY Zenon, <1>2, <1>3, StillNothing
<1>6. BindsGood(chan', srvAlloc', srvBind')
  BY Zenon, <1>2, ServerKept DEF Stop, Refuses
<1> QED
  BY Zenon, <1>2, <1>4, <1>5, <1>6, Assembled

LEMMA EndRefresherStep == ASSUME IInv, EndRefresher PROVE IInv'
<1>1. DoDeleteAllocation("none", call) /\ \A c \in Calls : CallShape(call[c])
  BY Zenon DEF EndRefresher, IInv, CallsGood
<1>2. /\ PermsGood(perm') /\ ChansGood(chan', perm') /\ ~relayed'
      /\ \A k \in ChanIds : chan'[k].at = chan[k].at /\ chan'[k].where # "bound"
      /\ AllocRefreshed' /\ CallsGood'
      /\ \A c \in Calls : call'[c].op = call[c].op /\ call'[c].ips = call[c].ips
  BY Zenon, <1>1, Deleted
<1>3. Onward
  BY Zenon, <1>2 DEF Onward, EndRefresher
<1>4. CallsInv'
  BY <1>3, CallsOnward DEF IInv, CallsInv
<1>5. NothingYet'
  BY <1>2, <1>3, StillNothing
<1>6. BindsGood(chan', srvAlloc', srvBind')
  BY Zenon, <1>2, ServerKept DEF EndRefresher, Refuses
<1> QED
  BY <1>2, <1>4, <1>5, <1>6, Assembled

\* Permissions go with their channels, by delete_permission() or by the exit
\* guard of a task.
LEMMA PermissionsGo ==
    ASSUME IInv, NEW gone \in SUBSET PermIds, PermsGood(perm'),
           \A p \in PermIds \ gone : perm'[p] = perm[p],
           chan' = ExpireOf(chan, gone),
           UNCHANGED <<running, relayed, refresher, creating, call, srvAlloc,
                       srvBind>>
    PROVE  IInv'
<1>1. /\ ChansGood(chan', perm')
      /\ \A k \in ChanIds :
           /\ chan'[k].at = chan[k].at
           /\ chan'[k].where = "bound" => chan'[k] = chan[k]
  BY ExpireOfGood DEF IInv
<1>2. CallsInv' /\ Onward
  BY Zenon, CallsKept
<1>3. NothingYet'
  BY Zenon, <1>1, <1>2, StillNothing
<1>4. BindsGood(chan', srvAlloc', srvBind')
  BY Zenon, <1>1, ServerKept DEF Refuses
<1>5. AllocRefreshed'
  BY Zenon DEF IInv, AllocRefreshed
<1> QED
  BY Zenon, <1>1, <1>2, <1>3, <1>4, <1>5, Assembled

LEMMA DeletePermissionStep ==
    ASSUME IInv, NEW ip \in Ips, DeletePermission(ip) PROVE IInv'
<1> DEFINE gone == {p \in PermIds : perm[p].linked /\ perm[p].ip = ip}
<1>1. /\ gone \in SUBSET PermIds
      /\ perm' = [p \in PermIds |-> IF p \in gone THEN StopPerm(perm[p]) ELSE perm[p]]
      /\ chan' = ExpireOf(chan, gone)
  BY Zenon DEF DeletePermission
<1> HIDE DEF gone
<1>2. ASSUME NEW p \in PermIds PROVE PermGood(perm'[p])
  <2>1. PermGood(perm[p])
    BY Zenon DEF IInv, PermsGood
  <2> QED
    BY Zenon, <1>1, <2>1, StopPermGood
<1>3. PermsGood(perm')
  BY Zenon, <1>1, <1>2 DEF PermsGood
<1> QED
  BY Zenon, <1>1, <1>3, PermissionsGo DEF DeletePermission

\* A call begins and changes nothing but the marks.
LEMMA BeginStep ==
    ASSUME IInv, CallsInv', NothingYet',
           UNCHANGED <<running, relayed, refresher, perm, chan, srvAlloc, srvBind>>
    PROVE  IInv'
<1>1. PermsGood(perm') /\ ChansGood(chan', perm')
  BY Zenon, TablesKept
<1>2. BindsGood(chan', srvAlloc', srvBind')
  BY Zenon, ServerKept DEF Refuses
<1>3. AllocRefreshed'
  BY Zenon DEF IInv, AllocRefreshed
<1> QED
  BY Zenon, <1>1, <1>2, <1>3, Assembled

LEMMA CreateAllocationStep ==
    ASSUME IInv, NEW c \in Calls, CreateAllocation(c) PROVE IInv'
<1> DEFINE f == [NoCall EXCEPT !.op = "alloc", !.request = "sent"]
<1>1. CallShape(f) /\ f.op = "alloc"
  BY Zenon DEF NoCall, CallShape
<1>2. /\ \A d \in Calls : call[d].op = "idle" /\ UNCHANGED creating
      /\ call' = [call EXCEPT ![c] = f] /\ ~relayed
  BY Zenon DEF CreateAllocation, Begin
<1> HIDE DEF f
<1>3. /\ DOMAIN call' = Calls /\ call'[c] = f
      /\ \A d \in Calls : d # c => call'[d] = call[d]
  BY Zenon, <1>2 DEF IInv, CallsGood
<1>4. CallsGood'
  BY Zenon, <1>1, <1>3 DEF IInv, CallsGood
<1>5. AllocAlone' /\ MarksOwned'
  BY <1>1, <1>2, <1>3 DEF IInv, AllocAlone, MarksOwned
<1>6. NothingYet'
  BY Zenon, <1>2 DEF IInv, NothingYet, CreateAllocation
<1> QED
  BY Zenon, <1>4, <1>5, <1>6, BeginStep DEF CallsInv, CreateAllocation

LEMMA ChannelBindStep ==
    ASSUME IInv, NEW c \in Calls, NEW peer, ChannelBind(c, peer) PROVE IInv'
<1> DEFINE n == NumberFor(peer)
           f == [NoCall EXCEPT !.op = "bind", !.request = "sent",
                   !.peer = peer, !.ask = n]
<1>1. relayed /\ Begin(c, f) /\ UNCHANGED creating
  BY Zenon DEF ChannelBind
<1> HIDE DEF n
<1>2. CallShape(f) /\ f.op = "bind"
  BY Zenon DEF NoCall, CallShape
<1> HIDE DEF f
<1>3. CallsInv' /\ NothingYet'
  BY Zenon, <1>1, <1>2, CallBegins
<1> QED
  BY Zenon, <1>3, BeginStep DEF ChannelBind

LEMMA DeleteAllocationStep ==
    ASSUME IInv, NEW c \in Calls, DeleteAllocation(c) PROVE IInv'
<1> DEFINE f == [NoCall EXCEPT !.op = "delete", !.request = "sent"]
<1>1. relayed /\ Begin(c, f) /\ UNCHANGED creating
  BY Zenon DEF DeleteAllocation
<1>2. CallShape(f) /\ f.op = "delete"
  BY Zenon DEF NoCall, CallShape
<1> HIDE DEF f
<1>3. CallsInv' /\ NothingYet'
  BY Zenon, <1>1, <1>2, CallBegins
<1> QED
  BY Zenon, <1>3, BeginStep DEF DeleteAllocation

LEMMA CreatePermissionStep ==
    ASSUME IInv, NEW c \in Calls, NEW ips, CreatePermission(c, ips) PROVE IInv'
<1> DEFINE new == {i \in ips : ~Linked(perm, i)}
           asked == new \ creating
           others == new \cap creating
           rq == IF asked = {} THEN "none" ELSE "sent"
           wt == IF others = {} THEN "none" ELSE "wait"
           f == [NoCall EXCEPT !.op = "perm", !.request = rq, !.ips = asked,
                               !.others = others, !.wait = wt]
<1>1. relayed /\ Begin(c, f) /\ creating' = creating \cup asked
  BY Zenon DEF CreatePermission
<1>2. asked \cap creating = {}
  OBVIOUS
<1> HIDE DEF asked, others, rq, wt
<1>3. CallShape(f) /\ f.op = "perm" /\ f.ips = asked
  BY Zenon DEF NoCall, CallShape
<1> HIDE DEF f
<1>4. CallsInv' /\ NothingYet'
  BY Zenon, <1>1, <1>2, <1>3, CallBegins
<1> QED
  BY Zenon, <1>4, BeginStep DEF CreatePermission

-----------------------------------------------------------------------------
(* Answers.                                                                *)

\* The calls after one has ended.
LEMMA EndCall ==
    ASSUME IInv, NEW c \in Calls, call' = [call EXCEPT ![c] = Done]
    PROVE  /\ CallsGood' /\ call'[c].op = "done"
           /\ \A d \in Calls : d # c => /\ call'[d].op = call[d].op
                                        /\ call'[d].ips = call[d].ips
<1>1. /\ DOMAIN call' = Calls /\ call'[c] = Done
      /\ \A d \in Calls : d # c => call'[d] = call[d]
  BY Zenon DEF IInv, CallsGood
<1>2. \A d \in Calls : CallShape(call'[d])
  BY Zenon, <1>1, DoneShape DEF IInv, CallsGood
<1>3. CallsGood'
  BY Zenon, <1>1, <1>2 DEF CallsGood, CallShape
<1> QED
  BY Zenon, <1>1, <1>3, DoneShape

LEMMA AllocationAnsweredStep ==
    ASSUME IInv, NEW c \in Calls, NEW ok \in BOOLEAN, AllocationAnswered(c, ok)
    PROVE  IInv'
<1>1. call[c].op = "alloc" /\ call' = [call EXCEPT ![c] = Done]
      /\ UNCHANGED <<running, perm, chan, creating>>
  BY Zenon DEF AllocationAnswered
<1>2. CallsInv' /\ NothingYet'
  BY Zenon, <1>1, EndCall, CallEnds DEF IInv, CallsInv
<1>3. PermsGood(perm') /\ ChansGood(chan', perm')
  BY Zenon, <1>1, TablesKept
<1>4. AllocRefreshed'
  BY Zenon DEF AllocationAnswered, IInv, AllocRefreshed
<1>5. BindsGood(chan', srvAlloc', srvBind')
  <2>1. CASE ok
    <3>1. \A d \in Calls : call[d].op \in {"idle", "alloc"}
      BY Zenon, <1>1 DEF IInv, AllocAlone
    <3>2. \A k \in ChanIds : chan[k].where # "bound"
      BY Zenon, <3>1 DEF IInv, NothingYet
    <3>3. srvAlloc' = TRUE /\ srvBind' = srvBind
      BY Zenon, <2>1 DEF AllocationAnswered, Allocates
    <3> QED
      BY Zenon, <1>1, <3>2, <3>3 DEF IInv, BindsGood
  <2>2. CASE ~ok
    BY Zenon, <1>1, <2>2, ServerKept DEF AllocationAnswered
  <2> QED
    BY Zenon, <2>1, <2>2
<1> QED
  BY Zenon, <1>2, <1>3, <1>4, <1>5, Assembled

LEMMA BindAnsweredStep ==
    ASSUME IInv, NEW c \in Calls, NEW ok \in BOOLEAN, BindAnswered(c, ok)
    PROVE  IInv'
<1> DEFINE n == call[c].ask
           p == call[c].peer
<1>1. call[c].op = "bind" /\ call' = [call EXCEPT ![c] = Done]
      /\ UNCHANGED <<running, relayed, refresher, creating>>
  BY Zenon DEF BindAnswered
<1>2. CallsInv' /\ NothingYet'
  BY Zenon, <1>1, EndCall, CallEnds DEF IInv, CallsInv
<1>3. AllocRefreshed'
  BY Zenon, <1>1 DEF IInv, AllocRefreshed
<1>4. CASE ok
  <2>1. /\ Binds(n, p) /\ BindRoom(n, p)
        /\ perm' = BindPerms(perm, chan, n, p)
        /\ chan' = BindChans(perm, chan, n, p)
    BY Zenon, <1>4 DEF BindAnswered
  <2> HIDE DEF n, p
  <2>2. /\ PermsGood(perm') /\ ChansGood(chan', perm')
        /\ \A k \in ChanIds : chan'[k] = chan[k]
                              \/ (chan'[k].num = n /\ chan'[k].peer = p)
    BY SMTT(30), <2>1, BindGood DEF IInv, BindRoom, OnlyNew
  <2>3. BindsGood(chan', srvAlloc', srvBind')
    BY SMTT(30), <2>1, <2>2, ServerBinds
  <2> QED
    BY Zenon, <1>2, <1>3, <2>2, <2>3, Assembled
<1>5. CASE ~ok
  <2>1. UNCHANGED <<perm, chan>> /\ Refuses
    BY Zenon, <1>5 DEF BindAnswered
  <2> QED
    BY Zenon, <1>2, <1>3, <2>1, TablesKept, ServerKept, Assembled
<1> QED
  BY Zenon, <1>4, <1>5

LEMMA DeleteAnsweredStep ==
    ASSUME IInv, NEW c \in Calls, NEW ok \in BOOLEAN, DeleteAnswered(c, ok)
    PROVE  IInv'
<1> DEFINE cl == [call EXCEPT ![c] = Done]
<1>1. /\ call[c].op = "delete" /\ UNCHANGED creating
      /\ DoDeleteAllocation(StopTask(refresher), cl)
      /\ Refuses \/ Deallocates
  BY Zenon DEF DeleteAnswered
<1>2. /\ \A d \in Calls : CallShape(cl[d])
      /\ cl[c].op = "done" /\ \A d \in Calls : d # c => cl[d] = call[d]
  BY Zenon, DoneShape DEF IInv, CallsGood
<1> HIDE DEF cl
<1>3. /\ PermsGood(perm') /\ ChansGood(chan', perm') /\ ~relayed'
      /\ \A k \in ChanIds : chan'[k].at = chan[k].at /\ chan'[k].where # "bound"
      /\ AllocRefreshed' /\ CallsGood'
      /\ \A d \in Calls : call'[d].op = cl[d].op /\ call'[d].ips = cl[d].ips
  BY Zenon, <1>1, <1>2, Deleted
<1>4. CallsInv' /\ NothingYet'
  BY SMTT(30), <1>1, <1>2, <1>3, CallEnds DEF IInv, CallsInv
<1>5. BindsGood(chan', srvAlloc', srvBind')
  BY Zenon, <1>1, <1>3, ServerKept
<1> QED
  BY Zenon, <1>3, <1>4, <1>5, Assembled

\* The server acts, and the client does not hear of it.
LEMMA UnheardStep ==
    ASSUME IInv, BindsGood(chan', srvAlloc', srvBind'),
           UNCHANGED <<running, relayed, refresher, perm, chan, creating, call>>
    PROVE  IInv'
<1>1. CallsInv' /\ Onward
  BY Zenon, CallsKept
<1>2. NothingYet'
  BY Zenon, <1>1, StillNothing
<1>3. AllocRefreshed'
  BY Zenon DEF IInv, AllocRefreshed
<1> QED
  BY Zenon, <1>1, <1>2, <1>3, TablesKept, Assembled

LEMMA AnswerLostStep ==
    ASSUME IInv, NEW c \in Calls, AnswerLost(c) PROVE IInv'
<1>1. UNCHANGED <<running, relayed, refresher, perm, chan, creating, call>>
  BY Zenon DEF AnswerLost
<1>2. BindsGood(chan', srvAlloc', srvBind')
  <2>1. CASE call[c].op = "alloc" /\ Allocates
    <3>1. \A d \in Calls : call[d].op \in {"idle", "alloc"}
      BY Zenon, <2>1 DEF IInv, AllocAlone
    <3>2. \A k \in ChanIds : chan[k].where # "bound"
      BY Zenon, <3>1 DEF IInv, NothingYet
    <3>3. srvAlloc' = TRUE /\ srvBind' = srvBind
      BY Zenon, <2>1 DEF Allocates
    <3> QED
      BY Zenon, <1>1, <3>2, <3>3 DEF IInv, BindsGood
  <2>2. CASE Binds(call[c].ask, call[c].peer)
    BY Zenon, <1>1, <2>2, ServerBinds
  <2>3. CASE Deallocates
    BY Zenon, <1>1, <2>3, ServerKept
  <2> QED
    BY Zenon, <2>1, <2>2, <2>3 DEF AnswerLost
<1> QED
  BY Zenon, <1>1, <1>2, UnheardStep

LEMMA AllocationExpiresStep == ASSUME IInv, AllocationExpires PROVE IInv'
<1>1. BindsGood(chan', srvAlloc', srvBind')
  BY Zenon, ServerKept DEF AllocationExpires
<1> QED
  BY Zenon, <1>1, UnheardStep DEF AllocationExpires

LEMMA BindingExpiresStep ==
    ASSUME IInv, NEW b \in srvBind, BindingExpires(b) PROVE IInv'
<1>1. /\ \A k \in ChanIds : chan[k].where = "bound" => chan[k].num # b[1]
      /\ srvBind' = srvBind \ {b} /\ UNCHANGED <<chan, srvAlloc>>
  BY Zenon DEF BindingExpires
<1>2. ASSUME NEW k \in ChanIds, srvAlloc, chan[k].where = "bound"
      PROVE  <<chan[k].num, chan[k].peer>> \in srvBind'
  <2>1. <<chan[k].num, chan[k].peer>> \in srvBind
    BY Zenon, <1>2 DEF IInv, BindsGood
  <2>2. <<chan[k].num, chan[k].peer>> # b
    BY <1>1, <1>2
  <2> QED
    BY Zenon, <1>1, <2>1, <2>2
<1>3. BindsGood(chan', srvAlloc', srvBind')
  BY Zenon, <1>1, <1>2 DEF IInv, BindsGood
<1> QED
  BY Zenon, <1>3, UnheardStep DEF BindingExpires

-----------------------------------------------------------------------------
(* create_permission().                                                    *)

\* create_permission() ends: its marks go, and the permissions that were there
\* stay as they are.
LEMMA FinishPermissionStep ==
    ASSUME IInv, NEW c \in Calls, NEW success \in BOOLEAN, call[c].op = "perm",
           success => PermRoom(call[c].ips), FinishPermission(c, success)
    PROVE  IInv'
<1> DEFINE cl == [call EXCEPT ![c] = Done]
<1>1. /\ call' = IF call[c].ips = {} THEN cl ELSE Wake(cl, "hop")
      /\ creating' = creating \ call[c].ips
      /\ UNCHANGED <<running, relayed, refresher, chan, srvAlloc, srvBind>>
  BY Zenon DEF FinishPermission
<1>2. /\ DOMAIN cl = Calls /\ \A d \in Calls : CallShape(cl[d])
      /\ cl[c].op = "done" /\ \A d \in Calls : d # c => cl[d] = call[d]
  BY Zenon, DoneShape DEF IInv, CallsGood
<1> HIDE DEF cl
<1>3. /\ DOMAIN call' = Calls
      /\ \A d \in Calls : /\ CallShape(call'[d]) /\ call'[d].op = cl[d].op
                          /\ call'[d].ips = cl[d].ips
  BY <1>1, <1>2, WakeKeeps
<1>4. CallsGood'
  BY Zenon, <1>3 DEF CallsGood, CallShape
<1>5. CallsInv' /\ NothingYet'
  BY <1>1, <1>2, <1>3, <1>4, CallEnds DEF IInv, CallsInv
<1>6. PermsGood(perm') /\ \A p \in PermIds : perm[p].linked => perm'[p] = perm[p]
  <2>1. CASE success /\ running
    BY SMTT(30), <2>1, InstallGood DEF FinishPermission, PermRoom, IInv
  <2>2. CASE ~(success /\ running)
    BY Zenon, <2>2 DEF FinishPermission, IInv
  <2> QED
    BY Zenon, <2>1, <2>2
<1>7. ChansGood(chan', perm')
  <2>1. ASSUME NEW k \in ChanIds PROVE ChanGood(chan[k], perm')
    <3>1. ChanGood(chan[k], perm)
      BY Zenon DEF IInv, ChansGood
    <3>2. chan[k].perm # None => perm'[chan[k].perm].linked
      BY Zenon, <1>6, <3>1 DEF ChanGood, ChanShape
    <3> QED
      BY ZenonT(30), <3>1, <3>2 DEF ChanGood
  <2> QED
    BY ZenonT(30), <1>1, <2>1 DEF IInv, ChansGood
<1>8. BindsGood(chan', srvAlloc', srvBind')
  BY Zenon, <1>1, ServerKept DEF Refuses
<1>9. AllocRefreshed'
  BY Zenon, <1>1 DEF IInv, AllocRefreshed
<1> QED
  BY Zenon, <1>5, <1>6, <1>7, <1>8, <1>9, Assembled

\* create_permission() goes on.
LEMMA PermissionGoesOn ==
    ASSUME IInv, NEW c \in Calls, NEW o, CallShape(o),
           o.op = call[c].op, o.ips = call[c].ips,
           call' = [call EXCEPT ![c] = o],
           UNCHANGED <<running, relayed, refresher, perm, chan, creating,
                       srvAlloc, srvBind>>
    PROVE  IInv'
<1>1. /\ DOMAIN call' = Calls /\ call'[c] = o
      /\ \A d \in Calls : d # c => call'[d] = call[d]
  BY Zenon DEF IInv, CallsGood
<1>2. CallsGood'
  BY Zenon, <1>1 DEF IInv, CallsGood
<1>3. Onward
  BY Zenon, <1>1, <1>2 DEF Onward
<1>4. CallsInv'
  BY Zenon, <1>3, CallsOnward DEF IInv, CallsInv
<1>5. NothingYet'
  BY Zenon, <1>3, StillNothing
<1> QED
  BY Zenon, <1>4, <1>5, BeginStep

LEMMA PermissionAnsweredStep ==
    ASSUME IInv, NEW c \in Calls, NEW ok \in BOOLEAN, PermissionAnswered(c, ok)
    PROVE  IInv'
<1>1. call[c].op = "perm" /\ (ok => PermRoom(call[c].ips))
  BY Zenon DEF PermissionAnswered
<1>2. CASE FinishPermission(c, ok /\ call[c].all)
  <2>1. CASE ok /\ call[c].all
    <3>1. FinishPermission(c, TRUE)
      BY Zenon, <1>2, <2>1 DEF FinishPermission
    <3> QED
      BY Zenon, <1>1, <2>1, <3>1, FinishPermissionStep
  <2>2. CASE ~(ok /\ call[c].all)
    <3>1. FinishPermission(c, FALSE)
      BY Zenon, <1>2, <2>2 DEF FinishPermission
    <3> QED
      BY Zenon, <1>1, <3>1, FinishPermissionStep
  <2> QED
    BY Zenon, <2>1, <2>2
<1>3. CASE ~FinishPermission(c, ok /\ call[c].all)
  <2> DEFINE r == IF ok THEN "ok" ELSE "failed"
             o == [call[c] EXCEPT !.request = r]
  <2>1. /\ call' = [call EXCEPT ![c] = o]
        /\ UNCHANGED <<running, relayed, refresher, perm, chan, creating,
                       srvAlloc, srvBind>>
    BY Zenon, <1>3 DEF PermissionAnswered
  <2>2. CallShape(call[c])
    BY Zenon DEF IInv, CallsGood
  <2> HIDE DEF r
  <2>3. CallShape(o) /\ o.op = call[c].op /\ o.ips = call[c].ips
    BY Zenon, <2>2 DEF CallShape
  <2> HIDE DEF o
  <2> QED
    BY Zenon, <2>1, <2>3, PermissionGoesOn
<1> QED
  BY Zenon, <1>2, <1>3

LEMMA WaitFinishStep ==
    ASSUME IInv, NEW c \in Calls, WaitFinish(c) PROVE IInv'
<1> DEFINE all == \A i \in call[c].others : Linked(perm, i)
           b == all /\ call[c].request = "ok"
           w == [call[c] EXCEPT !.wait = "wait"]
           d == [call[c] EXCEPT !.wait = "done", !.all = all]
<1>1. CallShape(call[c]) /\ call[c].op = "perm"
  BY Zenon DEF IInv, CallsGood, CallShape, WaitFinish
<1>2. b \in BOOLEAN
  OBVIOUS
<1>3. \/ call' = [call EXCEPT ![c] = w]
         /\ UNCHANGED <<running, relayed, refresher, perm, chan, creating,
                        srvAlloc, srvBind>>
      \/ PermRoom(call[c].ips) /\ FinishPermission(c, b)
      \/ call' = [call EXCEPT ![c] = d]
         /\ UNCHANGED <<running, relayed, refresher, perm, chan, creating,
                        srvAlloc, srvBind>>
  BY Zenon DEF WaitFinish
<1> HIDE DEF all, b
<1>4. /\ CallShape(w) /\ w.op = call[c].op /\ w.ips = call[c].ips
      /\ CallShape(d) /\ d.op = call[c].op /\ d.ips = call[c].ips
  BY Zenon, <1>1 DEF CallShape
<1> HIDE DEF w, d
<1> QED
  BY Zenon, <1>1, <1>2, <1>3, <1>4, PermissionGoesOn, FinishPermissionStep

LEMMA WaitStoppedStep ==
    ASSUME IInv, NEW c \in Calls, WaitStopped(c) PROVE IInv'
<1>1. call[c].op = "perm" /\ FinishPermission(c, FALSE)
  BY Zenon DEF IInv, CallsGood, CallShape, WaitStopped
<1> QED
  BY Zenon, <1>1, FinishPermissionStep

-----------------------------------------------------------------------------
(* The refresh tasks.                                                      *)

LEMMA RefresherBeginsStep == ASSUME IInv, RefresherBegins PROVE IInv'
<1>1. CASE EndRefresher
  BY Zenon, <1>1, EndRefresherStep
<1>2. ASSUME NEW at, SetRefresher(at), running => at # "none" PROVE IInv'
  <2>1. UNCHANGED <<running, relayed, perm, chan, creating, call, srvAlloc, srvBind>>
        /\ refresher' = at
    BY Zenon, <1>2 DEF SetRefresher
  <2>2. CallsInv' /\ Onward
    BY Zenon, <2>1, CallsKept
  <2>3. NothingYet'
    BY Zenon, <2>1, <2>2, StillNothing
  <2>4. BindsGood(chan', srvAlloc', srvBind')
    BY Zenon, <2>1, ServerKept DEF Refuses
  <2>5. AllocRefreshed'
    BY Zenon, <1>2, <2>1 DEF AllocRefreshed
  <2> QED
    BY Zenon, <2>1, <2>2, <2>3, <2>4, <2>5, TablesKept, Assembled
<1> QED
  BY Zenon, <1>1, <1>2 DEF RefresherBegins

LEMMA PermBeginsStep ==
    ASSUME IInv, NEW p \in PermIds, PermBegins(p) PROVE IInv'
<1> DEFINE o == [perm[p] EXCEPT !.at = "live"]
<1>1. perm' = [perm EXCEPT ![p] = o]
      /\ UNCHANGED <<running, relayed, refresher, chan, creating, call, srvAlloc,
                     srvBind>>
  BY Zenon DEF PermBegins
<1>2. PermGood(perm[p]) /\ DOMAIN perm = PermIds
  BY Zenon DEF IInv, PermsGood
<1>3. PermGood(o) /\ o.linked = perm[p].linked
  BY Zenon, <1>2 DEF PermGood, PermShape, TaskAt
<1> HIDE DEF o
<1>4. /\ DOMAIN perm' = PermIds
      /\ \A q \in PermIds : PermGood(perm'[q]) /\ perm'[q].linked = perm[q].linked
  BY Zenon, <1>1, <1>2, <1>3 DEF IInv, PermsGood
<1>5. PermsGood(perm')
  BY Zenon, <1>4 DEF PermsGood
<1>6. ChansGood(chan', perm')
  <2>1. ASSUME NEW k \in ChanIds PROVE ChanGood(chan[k], perm')
    <3>1. ChanGood(chan[k], perm)
      BY Zenon DEF IInv, ChansGood
    <3>2. chan[k].perm # None => perm'[chan[k].perm].linked
      BY Zenon, <1>4, <3>1 DEF ChanGood, ChanShape
    <3> QED
      BY Zenon, <3>1, <3>2 DEF ChanGood
  <2> QED
    BY Zenon, <1>1, <2>1 DEF IInv, ChansGood
<1>7. CallsInv' /\ Onward
  BY Zenon, <1>1, CallsKept
<1>8. NothingYet'
  BY Zenon, <1>1, <1>7, StillNothing
<1>9. BindsGood(chan', srvAlloc', srvBind')
  BY Zenon, <1>1, ServerKept DEF Refuses
<1>10. AllocRefreshed'
  BY Zenon, <1>1 DEF IInv, AllocRefreshed
<1> QED
  BY Zenon, <1>5, <1>6, <1>7, <1>8, <1>9, <1>10, Assembled

LEMMA EndPermStep == ASSUME IInv, NEW p \in PermIds, EndPerm(p) PROVE IInv'
<1>1. /\ perm' = [perm EXCEPT ![p] = NoPerm] /\ chan' = ExpireOf(chan, {p})
      /\ UNCHANGED <<running, relayed, refresher, creating, call, srvAlloc,
                     srvBind>>
  BY Zenon DEF EndPerm
<1>2. /\ DOMAIN perm' = PermIds /\ perm'[p] = NoPerm
      /\ \A q \in PermIds \ {p} : perm'[q] = perm[q]
  BY Zenon, <1>1 DEF IInv, PermsGood
<1>3. PermsGood(perm')
  BY Zenon, <1>2, NoPermGood DEF IInv, PermsGood
<1>4. {p} \in SUBSET PermIds
  OBVIOUS
<1> QED
  BY Zenon, <1>1, <1>2, <1>3, <1>4, PermissionsGo

\* One channel changes, and is in the tables only if it was.
LEMMA SetChanStep ==
    ASSUME IInv, NEW k \in ChanIds, NEW o, SetChan(k, o), ChanGood(o, perm),
           o.at # "none" => chan[k].at # "none",
           o.where = "bound" => /\ chan[k].where = "bound" /\ o.num = chan[k].num
                                /\ o.peer = chan[k].peer
    PROVE  IInv'
<1>1. chan' = [chan EXCEPT ![k] = o]
      /\ UNCHANGED <<running, relayed, refresher, perm, creating, call, srvAlloc,
                     srvBind>>
  BY Zenon DEF SetChan
<1>2. /\ DOMAIN chan' = ChanIds /\ chan'[k] = o
      /\ \A j \in ChanIds : j # k => chan'[j] = chan[j]
  BY Zenon, <1>1 DEF IInv, ChansGood
<1>3. ChansGood(chan', perm')
  BY Zenon, <1>1, <1>2 DEF IInv, ChansGood
<1>4. CallsInv' /\ Onward
  BY Zenon, <1>1, CallsKept
<1>5. NothingYet'
  <2> SUFFICES ASSUME \A c \in Calls : call'[c].op \in {"idle", "alloc"}
               PROVE  /\ ~relayed'
                      /\ \A j \in ChanIds : chan'[j].where # "bound"
                                            /\ chan'[j].at = "none"
    BY Zenon DEF NothingYet
  <2>1. ~relayed /\ \A j \in ChanIds : chan[j].where # "bound" /\ chan[j].at = "none"
    BY Zenon, <1>1 DEF IInv, NothingYet
  <2> QED
    BY Zenon, <1>1, <1>2, <2>1
<1>6. BindsGood(chan', srvAlloc', srvBind')
  BY Zenon, <1>1, <1>2, ServerKept DEF Refuses
<1>7. AllocRefreshed'
  BY Zenon, <1>1 DEF IInv, AllocRefreshed
<1>8. PermsGood(perm')
  BY Zenon, <1>1 DEF IInv
<1> QED
  BY Zenon, <1>3, <1>4, <1>5, <1>6, <1>7, <1>8, Assembled

LEMMA EndChanStep == ASSUME IInv, NEW k \in ChanIds, EndChan(k) PROVE IInv'
BY Zenon, SetChanStep, NoChanGood DEF EndChan

LEMMA LeaveLoopStep ==
    ASSUME IInv, NEW k \in ChanIds, chan[k].at \in {"sleep", "sent"}, LeaveLoop(k)
    PROVE  IInv'
<1> DEFINE o == [chan[k] EXCEPT !.at = "linger", !.ask = None]
<1>1. ChanGood(chan[k], perm) /\ (SetChan(k, o) \/ EndChan(k))
  BY Zenon DEF LeaveLoop, IInv, ChansGood
<1>2. /\ ChanGood(o, perm) /\ o.where = chan[k].where
      /\ o.num = chan[k].num /\ o.peer = chan[k].peer
  BY ZenonT(30), <1>1 DEF ChanGood, ChanShape
<1> HIDE DEF o
<1> QED
  BY Zenon, <1>1, <1>2, SetChanStep, EndChanStep

LEMMA ChanBeginsStep ==
    ASSUME IInv, NEW k \in ChanIds, ChanBegins(k) PROVE IInv'
<1> DEFINE o == [chan[k] EXCEPT !.at = "sleep"]
<1>1. chan[k].at = "posted" /\ SetChan(k, o) /\ ChanGood(chan[k], perm)
  BY Zenon DEF ChanBegins, IInv, ChansGood
<1>2. /\ ChanGood(o, perm) /\ o.where = chan[k].where
      /\ o.num = chan[k].num /\ o.peer = chan[k].peer
  BY Zenon, <1>1 DEF ChanGood, ChanShape
<1> HIDE DEF o
<1> QED
  BY Zenon, <1>1, <1>2, SetChanStep

LEMMA ChanTimerStep ==
    ASSUME IInv, NEW k \in ChanIds, ChanTimer(k) PROVE IInv'
<1> DEFINE n == NumberFor(chan[k].peer)
           o == [chan[k] EXCEPT !.at = "sent", !.ask = n]
<1>1. /\ ChanGood(chan[k], perm)
      /\ \/ chan[k].at = "sleep" /\ SetChan(k, o)
         \/ EndChan(k)
         \/ chan[k].at = "sleep" /\ LeaveLoop(k)
  BY Zenon DEF ChanTimer, IInv, ChansGood
<1> HIDE DEF n
<1>2. ASSUME chan[k].at = "sleep"
      PROVE  /\ ChanGood(o, perm) /\ o.where = chan[k].where
             /\ o.num = chan[k].num /\ o.peer = chan[k].peer
  BY Zenon, <1>1, <1>2 DEF ChanGood, ChanShape
<1> HIDE DEF o
<1> QED
  BY Zenon, <1>1, <1>2, SetChanStep, EndChanStep, LeaveLoopStep

\* The answer to a channel's own channel_bind(): the object waits again, and
\* when it has left the tables meanwhile another one is bound.
LEMMA ChanAnsweredStep ==
    ASSUME IInv, NEW k \in ChanIds, NEW ok \in BOOLEAN, ChanAnswered(k, ok)
    PROVE  IInv'
<1> DEFINE o == [chan[k] EXCEPT !.at = "sleep", !.ask = None]
           rest == [chan EXCEPT ![k] = o]
           n == chan[k].ask
           p == chan[k].peer
<1>1. CASE ~ok
  BY Zenon, <1>1, LeaveLoopStep DEF ChanAnswered
<1>2. CASE ok
  <2>1. /\ BindRoom(n, p) /\ Binds(n, p) /\ chan[k].at = "sent"
        /\ perm' = BindPerms(perm, rest, n, p)
        /\ chan' = BindChans(perm, rest, n, p)
        /\ UNCHANGED <<running, relayed, refresher, creating, call>>
    BY Zenon, <1>2 DEF ChanAnswered
  <2>2. ChanGood(chan[k], perm) /\ DOMAIN chan = ChanIds
    BY Zenon DEF IInv, ChansGood
  <2>3. /\ ChanGood(o, perm) /\ o.where = chan[k].where /\ o.at = "sleep"
        /\ o.num = chan[k].num /\ o.peer = chan[k].peer
    BY ZenonT(30), <2>1, <2>2 DEF ChanGood, ChanShape
  <2> HIDE DEF o, n, p
  <2>4. /\ DOMAIN rest = ChanIds /\ rest[k] = o
        /\ \A j \in ChanIds : j # k => rest[j] = chan[j]
    BY Zenon, <2>2
  <2> HIDE DEF rest
  <2>5. ChansGood(rest, perm)
    BY Zenon, <2>3, <2>4 DEF IInv, ChansGood
  <2>6. (Bound(chan, n) => Bound(rest, n)) /\ (FreeChans(chan) # {} => FreeChans(rest) # {})
    BY Zenon, <2>1, <2>3, <2>4 DEF Bound, FreeChans
  <2>7. /\ PermsGood(perm') /\ ChansGood(chan', perm')
        /\ \A j \in ChanIds : chan'[j] = rest[j]
                              \/ (chan'[j].num = n /\ chan'[j].peer = p)
    <3>1. \/ Bound(rest, n)
          \/ PermRoom({IpOf[p]}) /\ FreeChans(rest) # {}
      BY Zenon, <2>1, <2>6 DEF BindRoom
    <3>2. PermsGood(perm)
      BY Zenon DEF IInv
    <3> DEFINE ps2 == BindPerms(perm, rest, n, p)
               cs2 == BindChans(perm, rest, n, p)
    <3>3. PermsGood(ps2)
      BY Zenon, <2>5, <3>1, <3>2, BindGood
    <3>4. ChansGood(cs2, ps2)
      BY Zenon, <2>5, <3>1, <3>2, BindGood
    <3>5. OnlyNew(rest, cs2, n, p)
      BY ZenonT(30), <2>5, <3>1, <3>2, BindGood
    <3>6. \A j \in ChanIds : cs2[j] = rest[j] \/ (cs2[j].num = n /\ cs2[j].peer = p)
      BY Zenon, <3>5 DEF OnlyNew
    <3> QED
      BY Zenon, <2>1, <3>3, <3>4, <3>6
  <2>8. BindsGood(chan', srvAlloc', srvBind')
    <3>1. \A j \in ChanIds : chan'[j].where = "bound" =>
            \/ /\ chan[j].where = "bound"
               /\ chan'[j].num = chan[j].num /\ chan'[j].peer = chan[j].peer
            \/ chan'[j].num = n /\ chan'[j].peer = p
      BY Zenon, <2>3, <2>4, <2>7
    <3> QED
      BY <2>1, <3>1, ServerBinds
  <2>9. CallsInv' /\ Onward
    BY Zenon, <2>1, CallsKept
  <2>10. NothingYet'
    BY Zenon, <2>1, <2>9, SomethingYet
  <2>11. AllocRefreshed'
    BY Zenon, <2>1 DEF IInv, AllocRefreshed
  <2> QED
    BY Zenon, <2>7, <2>8, <2>9, <2>10, <2>11, Assembled
<1> QED
  BY Zenon, <1>1, <1>2

-----------------------------------------------------------------------------
(* The invariant.                                                          *)

LEMMA InitHolds == Init => IInv
<1> SUFFICES ASSUME Init PROVE IInv
  OBVIOUS
<1>1. /\ perm = [p \in PermIds |-> NoPerm] /\ chan = [k \in ChanIds |-> NoChan]
      /\ call = [c \in Calls |-> NoCall] /\ creating = {} /\ srvBind = {}
      /\ ~relayed /\ srvAlloc = FALSE
  BY Zenon DEF Init
<1>2. PermsGood(perm)
  BY Zenon, <1>1, NoPermGood DEF PermsGood
<1>3. ChansGood(chan, perm) /\ BindsGood(chan, srvAlloc, srvBind)
  BY Zenon, <1>1, NoChanGood DEF ChansGood, BindsGood
<1>4. CallsGood /\ \A c \in Calls : call[c].op = "idle"
  BY Zenon, <1>1, NoCallShape DEF CallsGood, NoCall
<1>5. NothingYet
  BY Zenon, <1>1, NoChanGood DEF NothingYet
<1>6. AllocAlone /\ MarksOwned /\ AllocRefreshed
  BY Zenon, <1>1, <1>4 DEF AllocAlone, MarksOwned, AllocRefreshed
<1> QED
  BY Zenon, <1>2, <1>3, <1>4, <1>5, <1>6 DEF IInv

LEMMA ApplicationKeeps == ASSUME IInv, ApplicationStep PROVE IInv'
BY Zenon, StopStep, DeletePermissionStep, CreateAllocationStep, CreatePermissionStep,
   ChannelBindStep, DeleteAllocationStep DEF ApplicationStep

LEMMA PostedKeeps == ASSUME IInv, PostedStep PROVE IInv'
<1>1. ASSUME RefresherStopped PROVE IInv'
  BY Zenon, <1>1, EndRefresherStep DEF RefresherStopped
<1>2. ASSUME NEW p \in PermIds, PermStopped(p) PROVE IInv'
  BY Zenon, <1>2, EndPermStep DEF PermStopped
<1>3. ASSUME NEW k \in ChanIds, ChanStopped(k) PROVE IInv'
  BY Zenon, <1>3, EndChanStep DEF ChanStopped
<1> QED
  BY Zenon, <1>1, <1>2, <1>3, RefresherBeginsStep, PermBeginsStep, ChanBeginsStep,
     WaitFinishStep, WaitStoppedStep DEF PostedStep, WaitStep

LEMMA OutsideKeeps == ASSUME IInv, OutsideStep PROVE IInv'
<1>1. ASSUME RefresherFails PROVE IInv'
  BY Zenon, <1>1, EndRefresherStep DEF RefresherFails
<1>2. ASSUME NEW p \in PermIds, PermFails(p) PROVE IInv'
  BY Zenon, <1>2, EndPermStep DEF PermFails
<1>3. ASSUME NEW c \in Calls, NEW ok \in BOOLEAN, AnswerStep(c, ok) PROVE IInv'
  BY Zenon, <1>3, AllocationAnsweredStep, PermissionAnsweredStep, BindAnsweredStep,
     DeleteAnsweredStep DEF AnswerStep
<1> QED
  BY Zenon, <1>1, <1>2, <1>3, ChanTimerStep, ChanAnsweredStep, AnswerLostStep,
     AllocationExpiresStep, BindingExpiresStep DEF OutsideStep

\* The tables, the calls and the bindings of the server stay consistent with
\* one another, whatever the server answers and in whatever order posted work,
\* timers, answers and calls of the application come.
THEOREM Inductive == Spec => []IInv
<1>1. IInv /\ UNCHANGED vars => IInv'
  <2> SUFFICES ASSUME IInv, UNCHANGED vars PROVE IInv'
    OBVIOUS
  <2>1. UNCHANGED <<running, relayed, refresher, perm, chan, creating, call>>
        /\ UNCHANGED <<srvAlloc, srvBind>>
    BY Zenon DEF vars
  <2>2. BindsGood(chan', srvAlloc', srvBind')
    BY Zenon, <2>1, ServerKept DEF Refuses
  <2> QED
    BY Zenon, <2>1, <2>2, UnheardStep
<1>2. IInv /\ Next => IInv'
  BY Zenon, ApplicationKeeps, PostedKeeps, OutsideKeeps DEF Next
<1> QED
  BY InitHolds, <1>1, <1>2, PTL DEF Spec

-----------------------------------------------------------------------------
(* The properties.                                                         *)

\* async_send_to() and datagram_received() agree with the server on the peer of
\* every channel number, for any number of peers, channels and calls.
THEOREM RoutesAgreeAlways == Spec => []RoutesAgree
<1>1. IInv => RoutesAgree
  <2> SUFFICES ASSUME IInv, NEW b \in srvBind
               PROVE  /\ RouteIn(b[1]) \subseteq {b[2]}
                      /\ \A peer \in Peers : b[1] \in RouteOut(peer) => peer = b[2]
    BY Zenon DEF RoutesAgree
  <2>1. ASSUME NEW k \in ChanIds, chan[k].where = "bound", chan[k].num = b[1]
        PROVE  chan[k].peer = b[2]
    <3> DEFINE d == <<chan[k].num, chan[k].peer>>
    <3>1. d \in srvBind
      BY Zenon, <2>1 DEF IInv, BindsGood
    <3>2. d[1] = chan[k].num /\ d[2] = chan[k].peer
      OBVIOUS
    <3> HIDE DEF d
    <3>3. (d[1] = b[1]) <=> (d[2] = b[2])
      BY Zenon, <3>1 DEF IInv, BindsGood
    <3> QED
      BY Zenon, <2>1, <3>2, <3>3
  <2>2. RouteIn(b[1]) \subseteq {b[2]}
    BY Zenon, <2>1 DEF RouteIn
  <2>3. ASSUME NEW peer \in Peers, b[1] \in RouteOut(peer) PROVE peer = b[2]
    <3>1. PICK k \in ChanIds : chan[k].inPeer /\ chan[k].peer = peer /\ chan[k].num = b[1]
      BY Zenon, <2>3 DEF RouteOut, OfPeer
    <3>2. chan[k].where = "bound"
      BY Zenon, <3>1 DEF IInv, ChansGood, ChanGood
    <3> QED
      BY Zenon, <3>1, <3>2, <2>1
  <2> QED
    BY Zenon, <2>2, <2>3
<1> QED
  BY Inductive, <1>1, PTL

\* The two asserts of do_delete_allocation() hold: no channel is in the tables
\* without a permission in _permissions.
THEOREM BoundHangsOnPermissionAlways == Spec => []BoundHangsOnPermission
<1>1. IInv => BoundHangsOnPermission
  BY Zenon DEF IInv, ChansGood, ChanGood, BoundHangsOnPermission
<1> QED
  BY Inductive, <1>1, PTL

\* Every permission and channel in the tables, and the allocation of a running
\* client, has its refresh task.
THEOREM TablesRefreshedAlways == Spec => []TablesRefreshed
<1>1. IInv => TablesRefreshed
  BY Zenon DEF IInv, PermsGood, PermGood, ChansGood, ChanGood, AllocRefreshed,
         TablesRefreshed
<1> QED
  BY Inductive, <1>1, PTL

\* An address in _creating_permissions has exactly one create_permission() call
\* that asks for it.
THEOREM CreatingHasOwnerAlways == Spec => []CreatingHasOwner
<1>1. IInv => CreatingHasOwner
  <2> SUFFICES ASSUME IInv, NEW i \in creating
               PROVE  Cardinality({c \in Calls : call[c].op = "perm"
                                                 /\ i \in call[c].ips}) = 1
    BY Zenon DEF CreatingHasOwner
  <2>1. PICK c \in Calls : call[c].op = "perm" /\ i \in call[c].ips
    BY Zenon DEF IInv, MarksOwned
  <2>2. {d \in Calls : call[d].op = "perm" /\ i \in call[d].ips} = {c}
    BY <2>1 DEF IInv, MarksOwned
  <2> QED
    BY ZenonT(30), <2>2, FS_Singleton
<1> QED
  BY Inductive, <1>1, PTL

=============================================================================
