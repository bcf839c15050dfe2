--------------------------- MODULE IceAgentRoles ----------------------------
(***************************************************************************)
(* What one ICE agent adds to a session: how its steps carry the role its  *)
(* checks claim, its tie-breaker and the USE-CANDIDATE flag from a request *)
(* to a task, from the task to a check and from the check to a nominated   *)
(* pair.  The lemmas hold for an agent without a NAT in front of it and    *)
(* with a full peer; a session of two such agents builds on them.          *)
(***************************************************************************)
EXTENDS IceAgent, TLAPS

CheckTable == [CheckIds -> Check \cup {Idle}]
RoleTasks == [at : Int, pair : Pairs, use : BOOLEAN]

\* The peer sees every check come from the address it was sent from.
NoNat == \A k \in Keys : Seen[k] = k[1]

\* The request of a check is on the network, and answers may come.
OnTheWay(k) == k.phase \in {"retry", "quiet"}

(***************************************************************************)
(* An agent whose lasting role is "mine" (TRUE: controlling), which has    *)
(* the tie-breaker t as long as it is in the other role, when the pairs    *)
(* with a key in K have been asked for with USE-CANDIDATE by a controlling *)
(* agent.                                                                  *)
(***************************************************************************)
CheckPlays(mine, t, K, ctl, k) ==
    /\ k.role = mine => ctl = mine
    /\ k.role # mine => k.tie = t
    /\ k.result = "ok" => k.role = mine
    /\ k.result = "conflict" => k.role # mine
    /\ k.use => (mine /\ k.role) \/ KeyOf(k.pair) \in K
    /\ k.use /\ k.role /\ (OnTheWay(k) \/ k.result = "ok") => KeyOf(k.pair) \in K

ChecksPlay(mine, t, K, ctl, cs) ==
    /\ cs \in CheckTable
    /\ \A c \in CheckIds : cs[c] # Idle => CheckPlays(mine, t, K, ctl, cs[c])

QueuePlays(mine, K, ctl, q) ==
    \A x \in q : x \in RoleTasks /\ (x.use => (mine /\ ctl) \/ KeyOf(x.pair) \in K)

ValidPlays(K, v) ==
    \A e \in v : /\ e \in ValidEntry /\ e.source \in Pairs /\ e.key = KeyOf(e.source)
                 /\ e.nominated => e.key \in K

HandlersPlay(mine, K, ctl, hs) ==
    /\ hs \in [HandlerIds -> Handler \cup {Idle}]
    /\ \A h \in HandlerIds : hs[h] # Idle =>
         (hs[h].use => (mine /\ ctl) \/ <<hs[h].local, hs[h].remote>> \in K)

Plays(mine, t, K) ==
    /\ controlling \in BOOLEAN /\ tie \in Ties
    /\ made \in [Keys -> Nat] /\ checkList \subseteq Pairs
    /\ controlling # mine => tie = t
    /\ ChecksPlay(mine, t, K, controlling, checks)
    /\ QueuePlays(mine, K, controlling, trigQ)
    /\ ValidPlays(K, valid)
    /\ HandlersPlay(mine, K, controlling, handlers)

\* The agent is in its lasting role, with the tie-breaker t, and always was.
Holds(mine, t) ==
    /\ controlling = mine /\ tie = t
    /\ \A c \in CheckIds : checks[c] # Idle => checks[c].role = mine /\ checks[c].tie = t

\* What is on the network after a step has been asked for.
Out(L) == \A c \in CheckIds : LET k == checks[c] IN
    k # Idle /\ OnTheWay(k) /\ k.use /\ k.role => KeyOf(k.pair) \in L

\* A step that plays on: nobody leaves a lasting role, and a check that waits
\* for answers has claimed the same role before.
PlaysOn(mine, t, L) ==
    /\ Plays(mine, t, L)'
    /\ controlling = mine => controlling' = mine
    /\ Holds(mine, t) => Holds(mine, t)'
    /\ \A c \in CheckIds : /\ checks[c] # Idle /\ OnTheWay(checks[c])
                           /\ checks'[c] # Idle /\ OnTheWay(checks'[c])
                           => checks'[c].role = checks[c].role

-----------------------------------------------------------------------------
(* Changes of the table of checks *)

LEMMA IdleIsNoCheck == Idle \notin Check /\ Idle.phase = "idle"
BY Zenon DEF Idle, Check

LEMMA PairKey ==
    ASSUME NEW p \in Pairs
    PROVE  KeyOf(p) \in Keys /\ KeyOf(p) = <<KeyOf(p)[1], KeyOf(p)[2]>> /\ p # NoPair
BY DEF Pairs, Keys, KeyOf, NoPair

\* The check n goes on as k did, or has just been given up.
Carried(k, n) ==
    /\ n \in Check /\ k \in Check
    /\ n.pair = k.pair /\ n.use = k.use /\ n.role = k.role /\ n.tie = k.tie
    /\ n.result \in {"ok", "conflict"} => n.result = k.result

\* Every check of ds goes on as in cs.
TableKept(cs, ds) ==
    /\ ds \in CheckTable
    /\ \A c \in CheckIds : ds[c] # Idle => cs[c] # Idle /\ Carried(cs[c], ds[c])

\* The check n starts a round in the role ctl with the tie-breaker ti.
Started(n, ctl, ti) ==
    /\ n \in Check /\ n.role = ctl /\ n.tie = ti
    /\ n.result \notin {"ok", "conflict"} /\ ~OnTheWay(n)

LEMMA TableKeptSelf ==
    ASSUME NEW cs \in CheckTable
    PROVE  TableKept(cs, cs)
BY Zenon DEF TableKept, Carried, CheckTable

-----------------------------------------------------------------------------
(* How a step plays on *)

\* The roles move only towards the lasting one.
RoleStep(mine, t) ==
    /\ controlling' \in BOOLEAN /\ tie' \in Ties
    /\ controlling' = controlling \/ controlling' = mine
    /\ tie' = tie \/ (controlling' = mine /\ ~Holds(mine, t))

\* A check goes on, or starts a round for which USE-CANDIDATE has a reason.
TableStep(mine, L) ==
    /\ checks' \in CheckTable
    /\ \A c \in CheckIds : checks'[c] # Idle =>
         \/ checks[c] # Idle /\ Carried(checks[c], checks'[c])
         \/ /\ Started(checks'[c], controlling', tie')
            /\ checks'[c].use => (mine /\ checks'[c].role) \/ KeyOf(checks'[c].pair) \in L

LEMMA StepPlaysOn ==
    ASSUME NEW mine \in BOOLEAN, NEW t, NEW K, NEW L, K \subseteq L, Plays(mine, t, K),
           Out(L)', RoleStep(mine, t), TableStep(mine, L),
           made' \in [Keys -> Nat], checkList' \subseteq Pairs,
           QueuePlays(mine, L, controlling', trigQ'), ValidPlays(L, valid'),
           HandlersPlay(mine, L, controlling', handlers')
    PROVE  PlaysOn(mine, t, L)

<1>CarriedPlays.
      ASSUME NEW ctl, NEW dtl, NEW k, NEW n, ctl = mine => dtl = mine,
             Carried(k, n), CheckPlays(mine, t, K, ctl, k),
             OnTheWay(n) /\ n.use /\ n.role => KeyOf(n.pair) \in L
      PROVE  CheckPlays(mine, t, L, dtl, n)
  BY Zenon, <1>CarriedPlays DEF Carried, CheckPlays
<1>1. controlling = mine => controlling' = mine
  BY Zenon DEF RoleStep
<1>2. controlling' # mine => tie' = t
  BY Zenon DEF RoleStep, Plays
<1>3. ASSUME NEW c \in CheckIds, checks'[c] # Idle
      PROVE  CheckPlays(mine, t, L, controlling', checks'[c])
  <2>1. OnTheWay(checks'[c]) /\ checks'[c].use /\ checks'[c].role
        => KeyOf(checks'[c].pair) \in L
    BY Zenon, <1>3 DEF Out
  <2>2. CASE checks[c] # Idle /\ Carried(checks[c], checks'[c])
    BY Zenon, <1>1, <2>1, <2>2, <1>CarriedPlays DEF Plays, ChecksPlay
  <2>3. CASE /\ Started(checks'[c], controlling', tie')
             /\ checks'[c].use => (mine /\ checks'[c].role) \/ KeyOf(checks'[c].pair) \in L
    BY Zenon, <1>2, <2>1, <2>3 DEF Started, CheckPlays
  <2>4. QED BY Zenon, <1>3, <2>2, <2>3 DEF TableStep
<1>4. ChecksPlay(mine, t, L, controlling', checks')
  BY Zenon, <1>3 DEF ChecksPlay, TableStep
<1>5. Plays(mine, t, L)'
  BY Zenon, <1>2, <1>4 DEF Plays, RoleStep
<1>6. ASSUME Holds(mine, t) PROVE Holds(mine, t)'
  <2>1. controlling' = mine /\ tie' = t
    BY Zenon, <1>1, <1>6 DEF RoleStep, Holds
  <2>2. ASSUME NEW c \in CheckIds, checks'[c] # Idle
        PROVE  checks'[c].role = mine /\ checks'[c].tie = t
    BY Zenon, <1>6, <2>1, <2>2 DEF TableStep, Started, Carried, Holds
  <2>3. QED BY Zenon, <2>1, <2>2 DEF Holds
<1>7. ASSUME NEW c \in CheckIds, checks[c] # Idle, OnTheWay(checks[c]),
             checks'[c] # Idle, OnTheWay(checks'[c])
      PROVE  checks'[c].role = checks[c].role
  BY Zenon, <1>7 DEF TableStep, Started, Carried
<1>8. QED BY Zenon, <1>1, <1>5, <1>6, <1>7 DEF PlaysOn

LEMMA TableKeptStep ==
    ASSUME NEW mine, NEW L, TableKept(checks, checks')
    PROVE  TableStep(mine, L)
BY Zenon DEF TableKept, TableStep

LEMMA QueueMono ==
    ASSUME NEW mine \in BOOLEAN, NEW K, NEW L, K \subseteq L, NEW ctl \in BOOLEAN, NEW dtl,
           ctl = mine => dtl = mine, NEW q, NEW r, r \subseteq q, QueuePlays(mine, K, ctl, q)
    PROVE  QueuePlays(mine, L, dtl, r)
<1>1. mine /\ ctl => dtl
  BY Zenon
<1>2. QED BY Zenon, <1>1 DEF QueuePlays

LEMMA ValidMono ==
    ASSUME NEW K, NEW L, K \subseteq L, NEW v, NEW w, w \subseteq v, ValidPlays(K, v)
    PROVE  ValidPlays(L, w)
BY Zenon DEF ValidPlays

LEMMA HandlersMono ==
    ASSUME NEW mine \in BOOLEAN, NEW K, NEW L, K \subseteq L, NEW ctl \in BOOLEAN, NEW dtl,
           ctl = mine => dtl = mine, NEW hs, HandlersPlay(mine, K, ctl, hs)
    PROVE  HandlersPlay(mine, L, dtl, hs)
<1>1. mine /\ ctl => dtl
  BY Zenon
<1>2. QED BY Zenon, <1>1 DEF HandlersPlay

\* A step that changes neither the roles nor what they bear on.
LEMMA QuietPlaysOn ==
    ASSUME NEW mine \in BOOLEAN, NEW t, NEW K, NEW L, K \subseteq L, Plays(mine, t, K),
           Out(L)', UNCHANGED <<controlling, tie, handlers>>, TableKept(checks, checks'),
           made' \in [Keys -> Nat], checkList' \subseteq Pairs, valid' \subseteq valid,
           trigQ' \subseteq trigQ
    PROVE  PlaysOn(mine, t, L)
<1>1. RoleStep(mine, t) /\ TableStep(mine, L)
  BY Zenon, TableKeptStep DEF RoleStep, Plays
<1>2. /\ controlling \in BOOLEAN /\ controlling' = controlling
      /\ QueuePlays(mine, K, controlling, trigQ) /\ ValidPlays(K, valid)
      /\ HandlersPlay(mine, K, controlling, handlers)
  BY Zenon DEF Plays
<1>a. controlling = mine => controlling' = mine
  BY Zenon, <1>2
<1>3. QueuePlays(mine, L, controlling', trigQ')
  BY SMT, <1>2, <1>a, QueueMono
<1>4. ValidPlays(L, valid')
  BY Zenon, <1>2, ValidMono
<1>5. HandlersPlay(mine, L, controlling', handlers)
  BY SMT, <1>2, <1>a, HandlersMono
<1>6. QED BY Zenon, <1>1, <1>3, <1>4, <1>5, StepPlaysOn

-----------------------------------------------------------------------------
(* The steps of an agent in a session *)

\* Everything the agent does by itself, except that answers reach its checks.
OwnStep ==
    \/ \E comp \in Components : GatherHosts(comp)
    \/ \E h \in Hosts : GatherRelay(h)
    \/ \E r \in Remotes : AddRemoteCandidate(r)
    \/ GatherEnd \/ EndOfRemotes \/ Connect \/ Tick \/ Woken \/ Drained
    \/ \E c \in CheckIds : \/ PermissionGranted(c) \/ TransactionRun(c)
                           \/ GiveUp(c) \/ Resumes(c)
    \/ \E h \in HandlerIds : RequestWaits(h) \/ RequestLate(h) \/ RequestProceeds(h)

LEMMA OwnStepPlaysOn ==
    ASSUME NEW mine \in BOOLEAN, NEW t, NEW K, NEW L, K \subseteq L, Plays(mine, t, K), Out(L)',
           NoNat, ~RemoteLite, OwnStep
    PROVE  PlaysOn(mine, t, L)

<1>TableKeptTrans.
      ASSUME NEW as, NEW bs, NEW cs, TableKept(as, bs), TableKept(bs, cs)
      PROVE  TableKept(as, cs)
  BY Zenon, <1>TableKeptTrans DEF TableKept, Carried

<1>StopRetryingKept.
      ASSUME NEW cs \in CheckTable, NEW P
      PROVE  TableKept(cs, StopRetrying(cs, P))
  <2> USE <1>StopRetryingKept
  <2> DEFINE ds == StopRetrying(cs, P)
  <2> SUFFICES ASSUME NEW c \in CheckIds
               PROVE  /\ ds[c] \in Check \cup {Idle}
                      /\ ds[c] # Idle => cs[c] # Idle /\ Carried(cs[c], ds[c])
    BY Zenon DEF TableKept, CheckTable, StopRetrying
  <2>1. CASE cs[c].phase = "retry" /\ cs[c].pair \in P
    <3>1. cs[c] \in Check /\ cs[c] # Idle
      BY <2>1, IdleIsNoCheck DEF CheckTable
    <3>2. ds[c] = [cs[c] EXCEPT !.phase = "quiet"]
      BY Zenon, <2>1 DEF StopRetrying
    <3>3. Carried(cs[c], ds[c])
      BY Zenon, <3>1, <3>2 DEF Check, Carried
    <3>4. QED BY Zenon, <3>1, <3>3 DEF Carried
  <2>2. CASE ~(cs[c].phase = "retry" /\ cs[c].pair \in P)
    BY Zenon, <2>2 DEF StopRetrying, CheckTable, Carried
  <2>3. QED BY Zenon, <2>1, <2>2

<1>StoppedCarried.
      ASSUME NEW k \in Check
      PROVE  Carried(k, Stopped(k)) /\ ~OnTheWay(Stopped(k))
  <2> USE <1>StoppedCarried
  <2>1. CASE k.phase = "perm"
    BY Zenon, <2>1 DEF Stopped, Check, Results, Carried, OnTheWay
  <2>2. CASE k.phase \in {"sched", "retry", "quiet"}
    BY Zenon, <2>2 DEF Stopped, Check, Results, Carried, OnTheWay
  <2>3. CASE k.phase = "ending"
    BY Zenon, <2>3 DEF Stopped, Check, Carried, OnTheWay
  <2>4. QED BY Zenon, <2>1, <2>2, <2>3 DEF Check

<1>StoppedKept.
      ASSUME NEW cs \in CheckTable
      PROVE  TableKept(cs, [c \in CheckIds |-> Stopped(cs[c])])
  <2> USE <1>StoppedKept
  <2>1. Stopped(Idle) = Idle
    BY Zenon DEF Stopped, Idle
  <2>2. QED
    BY Zenon, <2>1, <1>StoppedCarried, IdleIsNoCheck DEF TableKept, CheckTable, Carried

<1>WithoutKept.
      ASSUME checks \in CheckTable, NEW c \in CheckIds
      PROVE  TableKept(checks, Without(c)) /\ Without(c) \in CheckTable
  BY Zenon, <1>WithoutKept DEF TableKept, CheckTable, Carried, Without

\* A new table with one check moved on.
<1>MoveKept.
      ASSUME checks \in CheckTable, NEW c \in CheckIds, checks[c] # Idle,
             NEW f \in {"perm", "sched", "retry", "quiet", "ending"},
             NEW r \in Results, r \in {"ok", "conflict"} => r = checks[c].result,
             Move(c, f, r)
      PROVE  TableKept(checks, checks')
  <2> USE <1>MoveKept
  <2> DEFINE k == [checks[c] EXCEPT !.phase = f, !.result = r]
  <2>1. checks' = [checks EXCEPT ![c] = k]
    BY Zenon DEF CheckTable, Move
  <2>2. Carried(checks[c], k)
    BY Zenon DEF CheckTable, Check, Carried
  <2> HIDE DEF k
  <2>3. QED BY Zenon, <2>1, <2>2, TableKeptSelf, IdleIsNoCheck DEF TableKept, CheckTable, Carried

<1>MovePlaysOn.
      ASSUME NEW c \in CheckIds, checks[c] # Idle,
             NEW f \in {"perm", "sched", "retry", "quiet", "ending"},
             NEW r \in Results, r \notin {"ok", "conflict"}, Move(c, f, r)
      PROVE  PlaysOn(mine, t, L)
  <2> USE <1>MovePlaysOn
  <2>1. TableKept(checks, checks')
    BY Zenon, <1>MoveKept DEF Plays, ChecksPlay
  <2>2. /\ UNCHANGED <<controlling, tie, handlers, made, checkList, valid, trigQ>>
        /\ made' \in [Keys -> Nat] /\ checkList' \subseteq Pairs
    BY Zenon DEF Move, roleVars, listVars, Plays
  <2>3. QED BY Zenon, <2>1, <2>2, QuietPlaysOn

<1>MakePairsShape.
      ASSUME made \in [Keys -> Nat], checkList \subseteq Pairs,
             NEW J \in SUBSET Keys, MakePairs(J)
      PROVE  made' \in [Keys -> Nat] /\ checkList' \subseteq Pairs
  <2> USE <1>MakePairsShape
  <2> DEFINE New == {k \in J : ~Redundant(k)}
  <2>1. /\ \A k \in New : made[k] < MaxInst
        /\ made' = [k \in Keys |-> IF k \in New THEN made[k] + 1 ELSE made[k]]
        /\ checkList' = checkList \cup {NewPair(k) : k \in New}
    BY Zenon DEF MakePairs
  <2>2. made' \in [Keys -> Nat]
    BY <2>1
  <2>3. checkList' \subseteq Pairs
    BY <2>1, LimitAssumption DEF NewPair, Pairs
  <2>4. QED BY Zenon, <2>2, <2>3

\* Gathering and signalled candidates, and the timer that ends connect().
<1>CandidatesPlayOn.
      ASSUME \/ \E comp \in Components : GatherHosts(comp)
             \/ \E h \in Hosts : GatherRelay(h)
             \/ \E r \in Remotes : AddRemoteCandidate(r)
             \/ GatherEnd \/ EndOfRemotes \/ Drained
      PROVE  PlaysOn(mine, t, L)
  <2> USE <1>CandidatesPlayOn
  <2>1. made \in [Keys -> Nat] /\ checkList \subseteq Pairs /\ checks \in CheckTable
    BY Zenon DEF Plays, ChecksPlay
  <2>2. /\ UNCHANGED <<controlling, tie, handlers, checks, valid, trigQ>>
        /\ made' \in [Keys -> Nat] /\ checkList' \subseteq Pairs
    <3>1. ASSUME NEW comp \in Components, GatherHosts(comp)
          PROVE  /\ UNCHANGED <<controlling, tie, handlers, checks, valid, trigQ>>
                 /\ made' \in [Keys -> Nat] /\ checkList' \subseteq Pairs
      <4>1. \E J \in SUBSET Keys : MakePairs(J)
        BY Zenon, <3>1 DEF GatherHosts
      <4>2. QED BY Zenon, <2>1, <3>1, <4>1, <1>MakePairsShape DEF GatherHosts, roleVars
    <3>2. ASSUME NEW r \in Remotes, AddRemoteCandidate(r)
          PROVE  /\ UNCHANGED <<controlling, tie, handlers, checks, valid, trigQ>>
                 /\ made' \in [Keys -> Nat] /\ checkList' \subseteq Pairs
      <4>1. UNCHANGED listVars \/ \E J \in SUBSET Keys : MakePairs(J)
        BY Zenon, <3>2 DEF AddRemoteCandidate, AddResolved
      <4>2. QED
        BY Zenon, <2>1, <3>2, <4>1, <1>MakePairsShape
           DEF AddRemoteCandidate, AddResolved, roleVars, listVars
    <3>3. ASSUME (\E h \in Hosts : GatherRelay(h)) \/ GatherEnd \/ EndOfRemotes \/ Drained
          PROVE  /\ UNCHANGED <<controlling, tie, handlers, checks, valid, trigQ>>
                 /\ made' \in [Keys -> Nat] /\ checkList' \subseteq Pairs
      BY Zenon, <2>1, <3>3 DEF GatherRelay, GatherEnd, EndOfRemotes, Drained,
                                roleVars, listVars
    <3>4. QED BY Zenon, <3>1, <3>2, <3>3
  <2>3. TableKept(checks, checks')
    BY Zenon, <2>1, <2>2, TableKeptSelf
  <2>4. QED BY Zenon, <2>2, <2>3, QuietPlaysOn

\* A check begins, for a task that has a reason for USE-CANDIDATE.
<1>PerformStep.
      ASSUME UNCHANGED <<controlling, tie>>, NEW p \in Pairs, NEW use \in BOOLEAN,
             NEW ps, Perform(p, use, ps),
             use => (mine /\ controlling) \/ KeyOf(p) \in K
      PROVE  TableStep(mine, L)
  <2> USE <1>PerformStep
  <2>1. checks \in CheckTable /\ controlling \in BOOLEAN /\ tie \in Ties
    BY Zenon DEF Plays, ChecksPlay
  <2>2. CASE MayPerform
    <3>1. PICK c \in CheckIds \ Active, f \in FirstPhases(p) :
             checks' = [checks EXCEPT ![c] =
                       [phase |-> f, pair |-> p, use |-> use \/ RemoteLite,
                        role |-> controlling, tie |-> tie, round |-> 1,
                        result |-> "none"]]
      BY Zenon, <2>2 DEF Perform
    <3> DEFINE n == [phase |-> f, pair |-> p, use |-> use \/ RemoteLite,
                     role |-> controlling, tie |-> tie, round |-> 1,
                     result |-> "none"]
    <3>2. f \in {"perm", "sched"}
      BY Zenon DEF FirstPhases
    <3>3. (use \/ RemoteLite) \in BOOLEAN /\ 1 \in 1 .. MaxRounds
      BY LimitAssumption
    <3>4. n \in Check
      BY Zenon, <2>1, <3>2, <3>3 DEF Check, Results
    <3>5. Started(n, controlling', tie')
      BY Zenon, <3>2, <3>4 DEF Started, OnTheWay
    <3>6. n.use => (mine /\ n.role) \/ KeyOf(n.pair) \in L
      BY Zenon
    <3> HIDE DEF n
    <3>7. checks' = [checks EXCEPT ![c] = n]
      BY Zenon, <3>1 DEF n
    <3>8. QED
      BY Zenon, <2>1, <3>4, <3>5, <3>6, <3>7, TableKeptSelf DEF TableStep, TableKept, CheckTable
  <2>3. CASE ~MayPerform
    BY Zenon, <2>1, <2>3, TableKeptSelf, TableKeptStep DEF Perform
  <2>4. QED BY Zenon, <2>2, <2>3

\* One turn of the loop of connect().
<1>TurnStep.
      ASSUME UNCHANGED <<controlling, tie>>, NEW ps, Turn(ps)
      PROVE  TableStep(mine, L) /\ QueuePlays(mine, K, controlling, trigQ')
  <2> USE <1>TurnStep
  <2>1. /\ checks \in CheckTable /\ controlling \in BOOLEAN /\ checkList \subseteq Pairs
        /\ QueuePlays(mine, K, controlling, trigQ)
    BY Zenon DEF Plays, ChecksPlay
  <2>2. CASE TriggeredTurn(ps)
    <3>1. PICK x \in trigQ : trigQ' = Pop(x) /\ Perform(x.pair, x.use, ps)
      BY Zenon, <2>2 DEF TriggeredTurn
    <3>2. /\ x \in RoleTasks /\ x.pair \in Pairs /\ x.use \in BOOLEAN
          /\ x.use => (mine /\ controlling) \/ KeyOf(x.pair) \in K
      BY Zenon, <2>1 DEF QueuePlays, RoleTasks
    <3>3. TableStep(mine, L)
      BY Zenon, <3>1, <3>2, <1>PerformStep
    <3>4. ASSUME NEW y \in Pop(x)
          PROVE  y \in RoleTasks /\ (y.use => (mine /\ controlling) \/ KeyOf(y.pair) \in K)
      <4>1. PICK u \in trigQ : y = [u EXCEPT !.at = u.at - x.at - 1]
        BY Zenon DEF Pop
      <4>2. u \in RoleTasks /\ (u.use => (mine /\ controlling) \/ KeyOf(u.pair) \in K)
        BY Zenon, <2>1 DEF QueuePlays
      <4>3. u.at - x.at - 1 \in Int
        BY <3>2, <4>2 DEF RoleTasks
      <4>4. y \in RoleTasks /\ y.use = u.use /\ y.pair = u.pair
        BY Zenon, <4>1, <4>2, <4>3 DEF RoleTasks
      <4>5. QED BY Zenon, <4>2, <4>4
    <3>5. QED BY Zenon, <3>1, <3>3, <3>4 DEF QueuePlays
  <2>3. CASE OrdinaryTurn(ps)
    <3>1. PICK p \in checkList : \E ts : Perform(p, FALSE, ts)
      BY Zenon, <2>3 DEF OrdinaryTurn, Waiting
    <3>2. TableStep(mine, L)
      BY Zenon, <2>1, <3>1, <1>PerformStep
    <3>3. QED BY Zenon, <2>1, <2>3, <3>2 DEF OrdinaryTurn
  <2>4. CASE IdleTurn(ps)
    <3>1. checks' = checks \/ checks' = [c \in CheckIds |-> Stopped(checks[c])]
      BY Zenon, <2>4 DEF IdleTurn, LeaveLoop
    <3>2. TableKept(checks, checks')
      BY Zenon, <2>1, <3>1, TableKeptSelf, <1>StoppedKept
    <3>3. QED BY Zenon, <2>1, <2>4, <3>2, TableKeptStep DEF IdleTurn
  <2>5. QED BY Zenon, <2>2, <2>3, <2>4 DEF Turn

<1>LoopPlaysOn.
      ASSUME Connect \/ Tick \/ Woken
      PROVE  PlaysOn(mine, t, L)
  <2> USE <1>LoopPlaysOn
  <2>1. /\ UNCHANGED <<controlling, tie, handlers, made, checkList, valid>>
        /\ made' \in [Keys -> Nat] /\ checkList' \subseteq Pairs /\ checks \in CheckTable
    BY Zenon DEF Connect, Tick, Woken, roleVars, listVars, Plays, ChecksPlay
  <2>2. CASE Woken
    <3>1. TableKept(checks, checks') /\ trigQ' \subseteq trigQ
      BY Zenon, <2>1, <2>2, <1>StoppedKept DEF Woken, LeaveLoop
    <3>2. QED BY Zenon, <2>1, <3>1, QuietPlaysOn
  <2>3. CASE \E ps : Turn(ps)
    <3>1. TableStep(mine, L) /\ QueuePlays(mine, K, controlling, trigQ')
      BY Zenon, <2>1, <2>3, <1>TurnStep
    <3>2. RoleStep(mine, t)
      BY Zenon, <2>1 DEF RoleStep, Plays
    <3>3. /\ controlling \in BOOLEAN /\ controlling' = controlling
          /\ ValidPlays(K, valid) /\ HandlersPlay(mine, K, controlling, handlers)
      BY Zenon, <2>1 DEF Plays
    <3>a. controlling = mine => controlling' = mine
      BY Zenon, <3>3
    <3>4. QueuePlays(mine, L, controlling', trigQ')
      BY SMT, <3>1, <3>3, <3>a, QueueMono
    <3>5. ValidPlays(L, valid')
      BY Zenon, <2>1, <3>3, ValidMono
    <3>6. HandlersPlay(mine, L, controlling', handlers)
      BY SMT, <2>1, <3>3, <3>a, HandlersMono
    <3>7. QED BY Zenon, <2>1, <3>1, <3>2, <3>4, <3>5, <3>6, StepPlaysOn
  <2>4. QED BY Zenon, <2>2, <2>3 DEF Connect, Tick

\* check_complete in the lasting role: what default_nominate queues, the agent
\* asks for as the controlling one.
<1>CheckCompleteStep.
      ASSUME controlling' = mine, NEW p, NEW ps, NEW v, ValidPlays(K, v), NEW cl,
             NEW q, QueuePlays(mine, K, controlling', q), NEW cs \in CheckTable,
             NEW st, CheckComplete(p, ps, v, cl, q, cs, st)
      PROVE  QueuePlays(mine, K, controlling', trigQ') /\ TableKept(cs, checks')
  <2> USE <1>CheckCompleteStep
  <2>0. PICK T : Renew(T, p, ps, cl, q, cs) /\ \A e \in T : e \in v /\ controlling'
    BY Zenon DEF CheckComplete, ToNominate
  <2> DEFINE S == {e.source : e \in T}
             ticket(e, n) == [at |-> n + KeyComp(e.key) - 1, pair |-> e.source,
                              use |-> TRUE]
  <2>1. TableKept(cs, checks')
    <3>1. checks' = StopRetrying(cs, S)
      BY Zenon, <2>0 DEF Renew
    <3>2. QED BY Zenon, <3>1, <1>StopRetryingKept
  <2>2. PICK n \in 0 .. QueueBound : trigQ' = q \cup {ticket(e, n) : e \in T}
    BY Zenon, <2>0 DEF Renew
  <2>3. ASSUME NEW e \in T
        PROVE  ticket(e, n) \in RoleTasks /\ mine /\ controlling'
    <3>1. e \in v /\ controlling'
      BY Zenon, <2>0
    <3>2. e.source \in Pairs /\ KeyComp(e.key) \in Components
      BY Zenon, <3>1, CandidateAssumption DEF ValidPlays, ValidEntry, KeyComp, Keys
    <3>3. n + KeyComp(e.key) - 1 \in Int
      BY <3>2, LimitAssumption DEF Components
    <3>4. ticket(e, n) \in RoleTasks
      BY Zenon, <3>2, <3>3 DEF RoleTasks
    <3>5. QED BY Zenon, <3>1, <3>4
  <2> HIDE DEF ticket
  <2>4. QueuePlays(mine, K, controlling', trigQ')
    BY Zenon, <2>2, <2>3 DEF QueuePlays
  <2>5. QED BY Zenon, <2>1, <2>4

\* A check that ends without success: nothing is nominated.
<1>EndPlaysOn.
      ASSUME NEW c \in CheckIds, FailCheck(c) \/ CancelCheck(c),
             UNCHANGED handlers, RoleStep(mine, t)
      PROVE  PlaysOn(mine, t, L)
  <2> USE <1>EndPlaysOn
  <2>1. /\ checks' = Without(c) /\ UNCHANGED <<made, checkList, trigQ, handlers>>
        /\ valid' \subseteq valid /\ checks \in CheckTable
        /\ made' \in [Keys -> Nat] /\ checkList' \subseteq Pairs
    BY Zenon DEF FailCheck, CancelCheck, EraseValid, Plays, ChecksPlay
  <2>2. TableStep(mine, L)
    BY Zenon, <2>1, <1>WithoutKept, TableKeptStep
  <2>3. /\ controlling \in BOOLEAN /\ QueuePlays(mine, K, controlling, trigQ)
        /\ ValidPlays(K, valid) /\ HandlersPlay(mine, K, controlling, handlers)
    BY Zenon DEF Plays
  <2>4. controlling = mine => controlling' = mine
    BY Zenon DEF RoleStep
  <2>5. QueuePlays(mine, L, controlling', trigQ)
    BY SMT, <2>3, <2>4, QueueMono
  <2>6. HandlersPlay(mine, L, controlling', handlers)
    BY SMT, <2>3, <2>4, HandlersMono
  <2>7. ValidPlays(L, valid')
    BY Zenon, <2>1, <2>3, ValidMono
  <2>8. QED BY Zenon, <2>1, <2>2, <2>5, <2>6, <2>7, StepPlaysOn

\* A success response came for a request in the lasting role, and what it
\* nominates has been asked for.
<1>CheckOkPlaysOn.
      ASSUME NEW c \in CheckIds, CheckOk(c)
      PROVE  PlaysOn(mine, t, L)
  <2> USE <1>CheckOkPlaysOn
  <2> DEFINE k == checks[c]
             p == k.pair
             key == KeyOf(p)
             Known == {e \in valid : e.key = key}
             Fresh == [key |-> key, obj |-> p, source |-> p, nominated |-> FALSE]
             v == IF Known = {} THEN valid \cup {Fresh} ELSE valid
  <2>1. /\ k \in Check /\ p \in Pairs /\ k.result = "ok" /\ CheckPlays(mine, t, K, controlling, k)
        /\ checks \in CheckTable /\ controlling \in BOOLEAN
        /\ UNCHANGED <<controlling, tie, handlers, made>>
    BY Zenon DEF CheckOk, Resumed, SucceedCheck, roleVars, Plays, ChecksPlay, CheckTable, Check
  <2>2. controlling' = mine /\ (k.use => key \in K)
    BY Zenon, <2>1 DEF CheckPlays
  <2>3. key \in Keys /\ key = <<Seen[KeyOf(p)], KeyOf(p)[2]>> /\ p # NoPair
    BY Zenon, <2>1, PairKey DEF NoNat
  <2>a. PICK e \in IF Known = {} THEN {Fresh} ELSE Known : \E ps :
          IF k.use /\ MayNominate(v, e)
          THEN /\ CompleteNomination(v, e)
               /\ CheckComplete(p, ps, valid', checkList', QueueWithout(KeyComp(key)),
                                StopRetrying(Without(c), {e.obj}), state')
          ELSE /\ valid' = v
               /\ CheckComplete(p, ps, v, checkList, trigQ, Without(c), state)
               /\ UNCHANGED checkList
    BY Zenon, <2>3 DEF CheckOk, SucceedCheck
  <2>4. PICK ps :
          IF k.use /\ MayNominate(v, e)
          THEN /\ CompleteNomination(v, e)
               /\ CheckComplete(p, ps, valid', checkList', QueueWithout(KeyComp(key)),
                                StopRetrying(Without(c), {e.obj}), state')
          ELSE /\ valid' = v
               /\ CheckComplete(p, ps, v, checkList, trigQ, Without(c), state)
               /\ UNCHANGED checkList
    BY Zenon, <2>a
  <2>5. Fresh \in ValidEntry /\ Fresh.key = key /\ Fresh.source = p /\ ~Fresh.nominated
    BY Zenon, <2>1, <2>3 DEF ValidEntry
  <2> HIDE DEF Fresh
  <2>6. ValidPlays(K, v) /\ e \in v /\ e.key = key
    BY Zenon, <2>1, <2>5 DEF ValidPlays, Plays
  <2>7. /\ ValidPlays(K, valid') /\ QueuePlays(mine, K, controlling', trigQ')
        /\ TableKept(checks, checks') /\ checkList' \subseteq checkList
    <3>1. TableKept(checks, Without(c)) /\ Without(c) \in CheckTable
      BY Zenon, <2>1, <1>WithoutKept
    <3>2. CASE k.use /\ MayNominate(v, e)
      <4> DEFINE n == [e EXCEPT !.nominated = TRUE]
      <4>1. n \in ValidEntry /\ n.key = key /\ n.source = e.source
        BY Zenon, <2>6 DEF ValidEntry, ValidPlays
      <4>2. valid' = (v \ {e}) \cup {n} /\ checkList' \subseteq checkList
        BY Zenon, <2>4, <3>2 DEF CompleteNomination, Nominated
      <4> HIDE DEF n, v
      <4>3. ValidPlays(K, valid')
        BY Zenon, <2>2, <2>6, <3>2, <4>1, <4>2 DEF ValidPlays
      <4>4. QueuePlays(mine, K, controlling', QueueWithout(KeyComp(key)))
        BY Zenon, <2>1 DEF Plays, QueuePlays, QueueWithout
      <4>5. TableKept(Without(c), StopRetrying(Without(c), {e.obj}))
        BY Zenon, <3>1, <1>StopRetryingKept
      <4>6. StopRetrying(Without(c), {e.obj}) \in CheckTable
        BY Zenon, <4>5 DEF TableKept
      <4>7. /\ QueuePlays(mine, K, controlling', trigQ')
            /\ TableKept(StopRetrying(Without(c), {e.obj}), checks')
        BY Zenon, <2>2, <2>4, <3>2, <4>3, <4>4, <4>6, <1>CheckCompleteStep
      <4>8. QED BY Zenon, <3>1, <4>2, <4>3, <4>5, <4>7, <1>TableKeptTrans
    <3>3. CASE ~(k.use /\ MayNominate(v, e))
      <4>1. QueuePlays(mine, K, controlling', trigQ)
        BY Zenon, <2>1 DEF Plays
      <4>2. /\ valid' = v /\ checkList' = checkList
            /\ CheckComplete(p, ps, v, checkList, trigQ, Without(c), state)
        BY Zenon, <2>4, <3>3
      <4> HIDE DEF v, p
      <4>3. QueuePlays(mine, K, controlling', trigQ') /\ TableKept(Without(c), checks')
        BY Zenon, <2>2, <2>6, <3>1, <4>1, <4>2, <1>CheckCompleteStep
      <4>4. QED BY Zenon, <2>6, <3>1, <4>2, <4>3, <1>TableKeptTrans
    <3>4. QED BY Zenon, <3>2, <3>3
  <2> HIDE DEF v, p, key, Known, k
  <2>8. RoleStep(mine, t) /\ TableStep(mine, L)
    BY Zenon, <2>1, <2>7, TableKeptStep DEF RoleStep, Plays
  <2>9. HandlersPlay(mine, K, controlling, handlers) /\ controlling = mine /\ checkList \subseteq Pairs
        /\ made' \in [Keys -> Nat]
    BY Zenon, <2>1, <2>2 DEF Plays
  <2>10. QueuePlays(mine, L, controlling', trigQ') /\ ValidPlays(L, valid')
    BY Zenon, <2>7 DEF QueuePlays, ValidPlays
  <2>11. HandlersPlay(mine, L, controlling', handlers)
    BY SMT, <2>1, <2>2, <2>9, HandlersMono
  <2>12. QED BY Zenon, <2>1, <2>7, <2>8, <2>9, <2>10, <2>11, StepPlaysOn

\* A 487 came for a request in the role the agent has to leave.
<1>CheckConflictPlaysOn.
      ASSUME NEW c \in CheckIds, CheckConflict(c)
      PROVE  PlaysOn(mine, t, L)
  <2> USE <1>CheckConflictPlaysOn
  <2> DEFINE k == checks[c]
  <2>1. /\ k # Idle /\ k \in Check /\ k.pair \in Pairs /\ k.role \in BOOLEAN
        /\ CheckPlays(mine, t, K, controlling, k)
        /\ checks \in CheckTable /\ controlling \in BOOLEAN
        /\ k.result = "conflict" /\ controlling' = ~k.role /\ tie' \in Ties
        /\ UNCHANGED handlers /\ (NextRound(c) \/ ExhaustCheck(c))
    BY Zenon DEF CheckConflict, Yielded, Resumed, Plays, ChecksPlay, CheckTable, Check
  <2>2. controlling' = mine /\ ~Holds(mine, t)
    BY Zenon, <2>1 DEF CheckPlays, Holds
  <2>3. RoleStep(mine, t)
    BY Zenon, <2>1, <2>2 DEF RoleStep
  <2>4. /\ made \in [Keys -> Nat] /\ checkList \subseteq Pairs
        /\ QueuePlays(mine, K, controlling, trigQ) /\ ValidPlays(K, valid)
        /\ HandlersPlay(mine, K, controlling, handlers)
    BY Zenon DEF Plays
  <2>5. controlling = mine => controlling' = mine
    BY Zenon, <2>2
  <2>6. QueuePlays(mine, K, controlling', trigQ) /\ QueuePlays(mine, L, controlling', trigQ)
    BY SMT, <2>1, <2>4, <2>5, QueueMono
  <2>7. HandlersPlay(mine, L, controlling', handlers)
    BY SMT, <2>1, <2>4, <2>5, HandlersMono
  <2>8. ValidPlays(L, valid)
    BY Zenon, <2>4, ValidMono
  <2>9. CASE NextRound(c)
    <3> DEFINE round(f) == [k EXCEPT !.phase = f, !.result = "none", !.round = @ + 1,
                                     !.role = controlling', !.tie = tie']
    <3>1. PICK f \in FirstPhases(k.pair) :
            \/ checks' = [checks EXCEPT ![c] = Stopped(round(f))]
            \/ checks' = [checks EXCEPT ![c] = round(f)]
      BY Zenon, <2>9 DEF NextRound
    <3>2. f \in {"perm", "sched"} /\ k.round < MaxRounds
      BY Zenon, <2>9 DEF FirstPhases, NextRound, MayRetry
    <3>3. k.round + 1 \in 1 .. MaxRounds /\ controlling' \in BOOLEAN
      BY <2>1, <3>2, LimitAssumption DEF Check
    <3>4. /\ round(f) \in Check /\ round(f).pair = k.pair /\ round(f).use = k.use
          /\ Started(round(f), controlling', tie')
      BY Zenon, <2>1, <3>2, <3>3 DEF Check, Results, Started, OnTheWay
    <3>5. PICK n \in Check : /\ checks' = [checks EXCEPT ![c] = n]
                             /\ n.pair = k.pair /\ n.use = k.use
                             /\ Started(n, controlling', tie')
      <4> HIDE DEF round
      <4>1. /\ Stopped(round(f)) \in Check /\ Stopped(round(f)).pair = k.pair
            /\ Stopped(round(f)).use = k.use
            /\ Started(Stopped(round(f)), controlling', tie')
        BY Zenon, <3>4, <1>StoppedCarried DEF Carried, Started
      <4>2. QED BY Zenon, <3>1, <3>4, <4>1
    <3>6. n.use => (mine /\ n.role) \/ KeyOf(n.pair) \in L
      BY Zenon, <2>1, <2>2, <3>5 DEF Started, CheckPlays
    <3>7. TableStep(mine, L)
      BY Zenon, <2>1, <3>5, <3>6, TableKeptSelf DEF TableStep, TableKept, CheckTable
    <3>8. UNCHANGED <<made, checkList, valid, trigQ>>
      BY Zenon, <2>9 DEF NextRound, listVars
    <3>9. QED
      BY Zenon, <2>1, <2>3, <2>4, <2>6, <2>7, <2>8, <3>7, <3>8, StepPlaysOn
  <2>10. CASE ExhaustCheck(c)
    <3>1. CASE FailCheck(c)
      BY Zenon, <2>1, <2>3, <3>1, <1>EndPlaysOn
    <3>2. CASE /\ CheckComplete(k.pair, pairState, valid, checkList, trigQ, Without(c), state)
               /\ UNCHANGED <<made, checkList, valid>>
      <4>1. TableKept(checks, Without(c)) /\ Without(c) \in CheckTable
        BY Zenon, <2>1, <1>WithoutKept
      <4>2. QueuePlays(mine, K, controlling', trigQ') /\ TableKept(Without(c), checks')
        BY Zenon, <2>2, <2>4, <2>6, <3>2, <4>1, <1>CheckCompleteStep
      <4>3. TableStep(mine, L)
        BY Zenon, <4>1, <4>2, <1>TableKeptTrans, TableKeptStep
      <4>4. QueuePlays(mine, L, controlling', trigQ')
        BY Zenon, <4>2 DEF QueuePlays
      <4>5. QED
        BY Zenon, <2>1, <2>3, <2>4, <2>7, <2>8, <3>2, <4>3, <4>4, StepPlaysOn
    <3>3. QED BY Zenon, <2>10, <3>1, <3>2 DEF ExhaustCheck
  <2>11. QED BY Zenon, <2>1, <2>9, <2>10

\* What a check does once its result is known, and while it waits.
<1>ChecksPlayOn.
      ASSUME NEW c \in CheckIds, \/ PermissionGranted(c) \/ TransactionRun(c)
                                 \/ GiveUp(c) \/ Resumes(c)
      PROVE  PlaysOn(mine, t, L)
  <2> USE <1>ChecksPlayOn
  <2>1. CASE PermissionGranted(c) \/ TransactionRun(c)
    BY Zenon, <2>1, <1>MovePlaysOn DEF PermissionGranted, TransactionRun, Undecided, Results
  <2>2. CASE GiveUp(c)
    BY Zenon, <2>2, <1>MovePlaysOn DEF GiveUp, Undecided, Results
  <2>3. CASE CheckFailed(c) \/ CheckCancelled(c)
    <3>1. RoleStep(mine, t) /\ UNCHANGED handlers /\ (FailCheck(c) \/ CancelCheck(c))
      BY Zenon, <2>3 DEF CheckFailed, CheckCancelled, Resumed, RoleStep, roleVars, Plays
    <3>2. QED BY Zenon, <3>1, <1>EndPlaysOn
  <2>4. QED
    BY Zenon, <2>1, <2>2, <2>3, <1>CheckOkPlaysOn, <1>CheckConflictPlaysOn DEF Resumes

\* A task goes to the end of the queue with a reason for its flag.
<1>EnqueueStep.
      ASSUME NEW ctl, QueuePlays(mine, K, ctl, trigQ), NEW p \in Pairs,
             NEW use \in BOOLEAN, use => KeyOf(p) \in K, Enqueue(p, use)
      PROVE  QueuePlays(mine, K, ctl, trigQ')
  <2> USE <1>EnqueueStep
  <2>1. PICK n \in 0 .. QueueBound - 1 : trigQ' = trigQ \cup {[at |-> n, pair |-> p, use |-> use]}
    BY Zenon DEF Enqueue
  <2>2. n \in Int
    BY LimitAssumption
  <2> DEFINE x == [at |-> n, pair |-> p, use |-> use]
  <2>3. x \in RoleTasks /\ x.use = use /\ x.pair = p
    BY Zenon, <2>2 DEF RoleTasks
  <2> HIDE DEF x
  <2>4. trigQ' = trigQ \cup {x}
    BY Zenon, <2>1 DEF x
  <2>5. QED BY Zenon, <2>3, <2>4 DEF QueuePlays

\* The handler of a request goes on once the response is sent: what it nominates
\* or queues with USE-CANDIDATE has been asked for.
<1>ProceedsPlayOn.
      ASSUME NEW h \in HandlerIds, RequestProceeds(h)
      PROVE  PlaysOn(mine, t, L)
  <2> USE <1>ProceedsPlayOn
  <2> DEFINE q == handlers[h]
             key == <<q.local, q.remote>>
             use == Nominates(q)
  <2>1. /\ q \in Handler /\ q # Idle /\ key \in Keys /\ q.use \in BOOLEAN
        /\ controlling \in BOOLEAN /\ tie \in Ties /\ checks \in CheckTable
        /\ made \in [Keys -> Nat] /\ checkList \subseteq Pairs
        /\ QueuePlays(mine, K, controlling, trigQ) /\ ValidPlays(K, valid)
        /\ HandlersPlay(mine, K, controlling, handlers)
        /\ UNCHANGED <<controlling, tie>> /\ handlers' = [handlers EXCEPT ![h] = Idle]
    BY Zenon DEF RequestProceeds, Return, roleVars, Plays, ChecksPlay, HandlersPlay, Handler
  <2>2. use \in BOOLEAN /\ (use => key \in K)
    BY Zenon, <2>1 DEF Nominates, HandlersPlay
  <2>3. SUFFICES /\ made' \in [Keys -> Nat] /\ checkList' \subseteq Pairs
                 /\ QueuePlays(mine, K, controlling, trigQ') /\ ValidPlays(K, valid')
                 /\ TableKept(checks, checks')
    <3>1. RoleStep(mine, t) /\ TableStep(mine, L)
      BY Zenon, <2>1, <2>3, TableKeptStep DEF RoleStep
    <3>2. HandlersPlay(mine, L, controlling', handlers')
      BY Zenon, <2>1 DEF HandlersPlay
    <3>3. QueuePlays(mine, L, controlling', trigQ') /\ ValidPlays(L, valid')
      BY Zenon, <2>1, <2>3 DEF QueuePlays, ValidPlays
    <3>4. QED BY Zenon, <2>3, <3>1, <3>2, <3>3, StepPlaysOn
  <2>4. CASE \E p \in checkList : KeyOf(p) = key /\ TriggerSucceeded(p, use)
    <3>1. PICK p \in checkList : KeyOf(p) = key /\ TriggerSucceeded(p, use)
      BY Zenon, <2>4
    <3>2. CASE UNCHANGED <<valid, checkList, trigQ, checks>>
      BY Zenon, <2>1, <3>1, <3>2, TableKeptSelf DEF TriggerSucceeded
    <3>3. CASE use /\ \E e \in valid : /\ e.source = p /\ CompleteNomination(valid, e)
                                       /\ trigQ' = QueueWithout(KeyComp(e.key))
                                       /\ checks' = StopRetrying(checks, {e.obj})
      <4>1. PICK e \in valid : /\ e.source = p /\ CompleteNomination(valid, e)
                               /\ trigQ' = QueueWithout(KeyComp(e.key))
                               /\ checks' = StopRetrying(checks, {e.obj})
        BY Zenon, <3>3
      <4> DEFINE n == [e EXCEPT !.nominated = TRUE]
      <4>2. n \in ValidEntry /\ n.key = e.key /\ n.source = e.source /\ e.key = key
            /\ e.source \in Pairs
        BY Zenon, <2>1, <3>1, <4>1 DEF ValidEntry, ValidPlays
      <4>3. valid' = (valid \ {e}) \cup {n} /\ checkList' \subseteq checkList
        BY Zenon, <4>1 DEF CompleteNomination, Nominated
      <4> HIDE DEF n
      <4>4. ValidPlays(K, valid')
        BY Zenon, <2>1, <2>2, <3>1, <3>3, <4>2, <4>3 DEF ValidPlays
      <4>5. QueuePlays(mine, K, controlling, trigQ')
        BY Zenon, <2>1, <4>1 DEF QueuePlays, QueueWithout
      <4>6. TableKept(checks, checks')
        BY Zenon, <2>1, <4>1, <1>StopRetryingKept
      <4>7. QED BY Zenon, <2>1, <3>1, <4>3, <4>4, <4>5, <4>6 DEF TriggerSucceeded
    <3>4. QED BY Zenon, <3>1, <3>2, <3>3 DEF TriggerSucceeded
  <2>5. CASE \E p \in checkList : KeyOf(p) = key /\ (TriggerInProgress(p, use) \/ TriggerUnchecked(p, use))
    <3>1. PICK p \in checkList : KeyOf(p) = key /\ (TriggerInProgress(p, use) \/ TriggerUnchecked(p, use))
      BY Zenon, <2>5
    <3> HIDE DEF use, key
    <3>2. /\ UNCHANGED <<valid, checkList, made>>
          /\ trigQ' = trigQ \/ Enqueue(p, use)
          /\ checks' = checks \/ checks' = StopRetrying(checks, {p})
      BY Zenon, <3>1 DEF TriggerInProgress, TriggerUnchecked
    <3>3. QueuePlays(mine, K, controlling, trigQ')
      BY Zenon, <2>1, <2>2, <3>1, <3>2, <1>EnqueueStep
    <3>4. TableKept(checks, checks')
      BY Zenon, <2>1, <3>2, TableKeptSelf, <1>StopRetryingKept
    <3>5. QED BY Zenon, <2>1, <3>2, <3>3, <3>4
  <2>6. CASE TriggerNew(key, use)
    <3> HIDE DEF use, key
    <3>1. made[key] < MaxInst /\ made' = [made EXCEPT ![key] = @ + 1]
          /\ checkList' = checkList \cup {NewPair(key)} /\ UNCHANGED <<valid, checks>>
          /\ Enqueue(<<key, made[key] + 1>>, use)
      BY Zenon, <2>6 DEF TriggerNew, NewPair
    <3>2. NewPair(key) \in Pairs /\ made' \in [Keys -> Nat] /\ NewPair(key) = <<key, made[key] + 1>>
      BY <2>1, <3>1, LimitAssumption DEF NewPair, Pairs
    <3>3. QueuePlays(mine, K, controlling, trigQ')
      BY Zenon, <2>1, <2>2, <3>1, <3>2, <1>EnqueueStep DEF KeyOf
    <3>4. QED BY Zenon, <2>1, <3>1, <3>2, <3>3, TableKeptSelf
  <2>7. QED BY Zenon, <2>4, <2>5, <2>6 DEF RequestProceeds

<1>HandlersPlayOn.
      ASSUME NEW h \in HandlerIds,
             RequestWaits(h) \/ RequestLate(h) \/ RequestProceeds(h)
      PROVE  PlaysOn(mine, t, L)
  <2> USE <1>HandlersPlayOn
  <2>1. CASE RequestProceeds(h)
    BY Zenon, <2>1, <1>ProceedsPlayOn
  <2>2. CASE RequestWaits(h) \/ RequestLate(h)
    <3>1. /\ UNCHANGED <<controlling, tie, made, checkList, valid, trigQ, checks>>
          /\ made' \in [Keys -> Nat] /\ checkList' \subseteq Pairs /\ checks \in CheckTable
          /\ controlling \in BOOLEAN
          /\ QueuePlays(mine, K, controlling, trigQ) /\ ValidPlays(K, valid)
          /\ HandlersPlay(mine, K, controlling, handlers)
      BY Zenon, <2>2 DEF RequestWaits, RequestLate, roleVars, listVars, Plays, ChecksPlay
    <3>2. RoleStep(mine, t) /\ TableStep(mine, L)
      BY Zenon, <3>1, TableKeptSelf, TableKeptStep DEF RoleStep, Plays
    <3>3. QueuePlays(mine, L, controlling', trigQ') /\ ValidPlays(L, valid')
      BY Zenon, <3>1 DEF QueuePlays, ValidPlays
    <3>4. HandlersPlay(mine, L, controlling', handlers')
      <4>1. CASE RequestLate(h)
        BY Zenon, <3>1, <4>1 DEF RequestLate, Return, HandlersPlay
      <4>2. CASE RequestWaits(h)
        <5> DEFINE n == [handlers[h] EXCEPT !.phase = "early"]
        <5>1. handlers[h] \in Handler /\ handlers[h] # Idle
          <6>1. handlers[h].phase = "resp" /\ handlers[h] \in Handler \cup {Idle}
            BY Zenon, <3>1, <4>2 DEF RequestWaits, HandlersPlay
          <6>2. QED BY <6>1, IdleIsNoCheck
        <5>2. handlers' = [handlers EXCEPT ![h] = n]
          BY Zenon, <3>1, <4>2 DEF RequestWaits, HandlersPlay
        <5>3. n \in Handler /\ n.use = handlers[h].use /\ n.local = handlers[h].local
              /\ n.remote = handlers[h].remote
          BY Zenon, <5>1 DEF Handler
        <5> HIDE DEF n
        <5>4. QED BY Zenon, <3>1, <5>1, <5>2, <5>3 DEF HandlersPlay
      <4>3. QED BY Zenon, <2>2, <4>1, <4>2
    <3>5. QED BY Zenon, <3>1, <3>2, <3>3, <3>4, StepPlaysOn
  <2>3. QED BY Zenon, <2>1, <2>2
<1> QED
  BY Zenon, <1>CandidatesPlayOn, <1>LoopPlaysOn, <1>ChecksPlayOn, <1>HandlersPlayOn DEF OwnStep

\* They are steps of the agent's specification.
LEMMA StepsAreSteps ==
    /\ OwnStep => Next
    /\ \A c \in CheckIds, x \in {"ok", "conflict"} : Answer(c, x) => Next
    /\ \A h \in HandlerIds, l \in Hosts, r \in Remotes, use, role \in BOOLEAN, u \in Ties :
         <<l, r>> \in Keys /\ Request(h, l, r, use, role, u) => Next
BY Zenon DEF OwnStep, Next, Candidates, Waits, Inbound, Results

-----------------------------------------------------------------------------
(* One side of a session *)

Requests == [key : Keys, use : BOOLEAN, role : BOOLEAN, tie : Ties]
RequestOf(k) == [key |-> KeyOf(k.pair), use |-> k.use, role |-> k.role, tie |-> k.tie]
Running == {c \in CheckIds : OnTheWay(checks[c])}

\* The agent, the requests s it has sent and the answers an on their way to
\* its checks: a request claims the lasting role or bears the tie-breaker t,
\* only one in the lasting role succeeds, only one in the other is refused.
Side(mine, t, K, s, an) ==
    /\ Plays(mine, t, K)
    /\ \A q \in s : /\ q \in Requests
                    /\ q.role = mine => controlling = mine
                    /\ q.role # mine => q.tie = t
    /\ \A c \in Running : RequestOf(checks[c]) \in s
    /\ an \in [CheckIds -> SUBSET {"ok", "conflict"}]
    /\ \A c \in CheckIds : /\ an[c] # {} => c \in Running
                           /\ "ok" \in an[c] => checks[c].role = mine
                           /\ "conflict" \in an[c] => checks[c].role # mine

\* The agent has always been in its lasting role.
Fixed(mine, t, s) == Holds(mine, t) /\ \A q \in s : q.role = mine /\ q.tie = t

\* A step of its own, or an answer: the requests of the running checks are sent,
\* and answers wait only for them.
Advance(s, an, r, bn) ==
    /\ OwnStep \/ \E c \in CheckIds : \E x \in an[c] : Answer(c, x)
    /\ r = s \cup {RequestOf(checks'[c]) : c \in Running'}
    /\ bn = [c \in CheckIds |-> IF c \in Running' THEN an[c] ELSE {}]

\* A step leads to the requests r and the answers bn.
SideOn(mine, t, L, s, r, bn) ==
    /\ Side(mine, t, L, r, bn)'
    /\ controlling = mine => controlling' = mine
    /\ Fixed(mine, t, s) => Fixed(mine, t, r)'

\* The agent's own steps: the requests of its running transactions go out, and
\* a transaction that is over drops its answers.
LEMMA OwnSide ==
    ASSUME NEW mine \in BOOLEAN, NEW t, NEW K, NEW L, K \subseteq L, NEW s, NEW an, NEW r, NEW bn,
           Side(mine, t, K, s, an), NoNat, ~RemoteLite, Advance(s, an, r, bn),
           \A q \in r : q.use /\ q.role => q.key \in L
    PROVE  SideOn(mine, t, L, s, r, bn)

\* An answer that fits the role of the request.
<1>AnswerPlaysOn.
      ASSUME Plays(mine, t, K), Out(L)', NEW c \in CheckIds,
             NEW x \in {"ok", "conflict"}, Answer(c, x),
             x = "ok" => checks[c].role = mine,
             x = "conflict" => checks[c].role # mine
      PROVE  PlaysOn(mine, t, L)
  <2> USE <1>AnswerPlaysOn
  <2> DEFINE k == checks[c]
             n == [k EXCEPT !.phase = "ending", !.result = x]
  <2>1. /\ k # Idle /\ k \in Check /\ OnTheWay(k) /\ CheckPlays(mine, t, K, controlling, k)
        /\ checks \in CheckTable /\ controlling \in BOOLEAN /\ tie \in Ties
        /\ UNCHANGED <<controlling, tie, handlers, made, checkList, valid, trigQ>>
        /\ checks' = [checks EXCEPT ![c].phase = "ending", ![c].result = x]
    BY Zenon DEF Answer, Undecided, Move, roleVars, listVars, Plays, ChecksPlay, CheckTable, OnTheWay
  <2>2. checks' = [checks EXCEPT ![c] = n]
    BY Zenon, <2>1 DEF CheckTable
  <2>3. /\ n \in Check /\ n.pair = k.pair /\ n.use = k.use /\ n.role = k.role /\ n.tie = k.tie
        /\ n.result = x /\ ~OnTheWay(n)
    BY Zenon, <2>1 DEF Check, Results, OnTheWay
  <2> HIDE DEF n
  <2>4. CheckPlays(mine, t, L, controlling, n)
    BY Zenon, <2>1, <2>3 DEF CheckPlays
  <2>5. ASSUME NEW d \in CheckIds, checks[d] # Idle, d # c
        PROVE  CheckPlays(mine, t, L, controlling, checks[d])
    BY Zenon, <2>5 DEF Plays, ChecksPlay, CheckPlays
  <2>6. /\ checks' \in CheckTable /\ checks'[c] = n
        /\ \A d \in CheckIds \ {c} : checks'[d] = checks[d]
    BY Zenon, <2>1, <2>2, <2>3 DEF CheckTable
  <2>7. ChecksPlay(mine, t, L, controlling', checks')
    BY Zenon, <2>1, <2>4, <2>5, <2>6 DEF ChecksPlay
  <2>8. /\ controlling = mine => controlling' = mine
        /\ QueuePlays(mine, K, controlling, trigQ) /\ ValidPlays(K, valid)
        /\ HandlersPlay(mine, K, controlling, handlers)
    BY Zenon, <2>1 DEF Plays
  <2>9. QueuePlays(mine, L, controlling', trigQ)
    BY SMT, <2>1, <2>8, QueueMono
  <2>10. HandlersPlay(mine, L, controlling', handlers)
    BY SMT, <2>1, <2>8, HandlersMono
  <2>11. ValidPlays(L, valid)
    BY Zenon, <2>8, ValidMono
  <2>12. Plays(mine, t, L)'
    BY Zenon, <2>1, <2>7, <2>9, <2>10, <2>11 DEF Plays
  <2>13. Holds(mine, t) => Holds(mine, t)'
    BY Zenon, <2>1, <2>3, <2>6 DEF Holds
  <2>14. QED BY Zenon, <2>1, <2>3, <2>6, <2>12, <2>13 DEF PlaysOn

<1>RunningCheck.
      ASSUME Plays(mine, t, K), NEW c \in Running
      PROVE  /\ c \in CheckIds /\ checks[c] # Idle /\ checks[c] \in Check
             /\ RequestOf(checks[c]) \in Requests
             /\ RequestOf(checks[c]).key = KeyOf(checks[c].pair)
             /\ RequestOf(checks[c]).use = checks[c].use
             /\ RequestOf(checks[c]).role = checks[c].role
             /\ RequestOf(checks[c]).tie = checks[c].tie
             /\ CheckPlays(mine, t, K, controlling, checks[c])
  <2> USE <1>RunningCheck
  <2>1. c \in CheckIds /\ OnTheWay(checks[c]) /\ checks[c] \in Check \cup {Idle}
    BY Zenon DEF Running, Plays, ChecksPlay, CheckTable
  <2>2. checks[c] # Idle
    BY <2>1, IdleIsNoCheck DEF OnTheWay
  <2>3. CheckPlays(mine, t, K, controlling, checks[c])
    BY Zenon, <2>1, <2>2 DEF Plays, ChecksPlay
  <2>4. RequestOf(checks[c]) \in Requests
    BY Zenon, <2>1, <2>2, PairKey DEF Check, RequestOf, Requests
  <2>5. QED BY Zenon, <2>1, <2>2, <2>3, <2>4 DEF RequestOf
<1> USE DEF Advance
<1>1. Out(L)'
  <2>1. ASSUME NEW c \in CheckIds, OnTheWay(checks'[c]), checks'[c].use, checks'[c].role
        PROVE  KeyOf(checks'[c].pair) \in L
    <3>1. RequestOf(checks'[c]) \in r
      BY Zenon, <2>1 DEF Running
    <3>2. QED BY Zenon, <2>1, <3>1 DEF RequestOf
  <2>2. QED BY Zenon, <2>1 DEF Out
<1>2. Plays(mine, t, K)
  BY Zenon DEF Side
<1>3. PlaysOn(mine, t, L)
  <2>1. ASSUME NEW c \in CheckIds, NEW x \in an[c], Answer(c, x) PROVE PlaysOn(mine, t, L)
    <3>1. /\ x \in {"ok", "conflict"}
          /\ x = "ok" => checks[c].role = mine
          /\ x = "conflict" => checks[c].role # mine
      BY Zenon DEF Side
    <3>2. QED BY Zenon, <1>1, <1>2, <2>1, <3>1, <1>AnswerPlaysOn
  <2>2. QED BY Zenon, <1>1, <1>2, <2>1, OwnStepPlaysOn
<1>4. /\ Plays(mine, t, L)' /\ (controlling = mine => controlling' = mine)
      /\ Holds(mine, t) => Holds(mine, t)'
  BY Zenon, <1>3 DEF PlaysOn
<1>5. ASSUME NEW c \in Running'
      PROVE  /\ c \in CheckIds /\ checks'[c] # Idle
             /\ RequestOf(checks'[c]) \in Requests /\ RequestOf(checks'[c]) \in r
             /\ RequestOf(checks'[c]).role = checks'[c].role
             /\ RequestOf(checks'[c]).tie = checks'[c].tie
             /\ checks'[c].role = mine => controlling' = mine
             /\ checks'[c].role # mine => checks'[c].tie = t
             /\ c \in Running => checks'[c].role = checks[c].role
  <2>1. /\ c \in CheckIds /\ checks'[c] # Idle /\ checks'[c] \in Check
        /\ RequestOf(checks'[c]) \in Requests
        /\ CheckPlays(mine, t, L, controlling', checks'[c])
    <3>1. c \in CheckIds /\ OnTheWay(checks'[c]) /\ checks'[c] \in Check \cup {Idle}
      BY Zenon, <1>4 DEF Running, Plays, ChecksPlay, CheckTable
    <3>2. checks'[c] # Idle
      BY <3>1, IdleIsNoCheck DEF OnTheWay
    <3>3. CheckPlays(mine, t, L, controlling', checks'[c])
      BY Zenon, <1>4, <3>1, <3>2 DEF Plays, ChecksPlay
    <3>4. RequestOf(checks'[c]) \in Requests
      BY Zenon, <3>1, <3>2, PairKey DEF Check, RequestOf, Requests
    <3>5. QED BY Zenon, <3>1, <3>2, <3>3, <3>4
  <2>2. c \in Running => checks'[c].role = checks[c].role
    BY Zenon, <1>2, <1>3, <2>1, <1>RunningCheck DEF PlaysOn, Running
  <2>3. QED BY Zenon, <2>1, <2>2 DEF CheckPlays, RequestOf
<1>6. \A q \in s : /\ q \in Requests
                   /\ q.role = mine => controlling' = mine
                   /\ q.role # mine => q.tie = t
  BY Zenon, <1>4 DEF Side
<1>7. ASSUME NEW q \in r
      PROVE  /\ q \in Requests
             /\ q.role = mine => controlling' = mine
             /\ q.role # mine => q.tie = t
  <2>1. CASE q \in s
    BY Zenon, <1>6, <2>1
  <2>2. CASE \E c \in Running' : q = RequestOf(checks'[c])
    <3>1. PICK c \in Running' : q = RequestOf(checks'[c])
      BY Zenon, <2>2
    <3>2. QED BY Zenon, <1>5, <3>1
  <2>3. QED BY Zenon, <2>1, <2>2
<1>8. /\ bn \in [CheckIds -> SUBSET {"ok", "conflict"}]
      /\ \A c \in CheckIds : /\ bn[c] # {} => c \in Running'
                             /\ "ok" \in bn[c] => checks'[c].role = mine
                             /\ "conflict" \in bn[c] => checks'[c].role # mine
  BY Zenon, <1>5 DEF Side
<1>9. Side(mine, t, L, r, bn)'
  BY Zenon, <1>4, <1>5, <1>7, <1>8 DEF Side
<1>10. ASSUME Fixed(mine, t, s) PROVE Fixed(mine, t, r)'
  <2>1. Holds(mine, t)' /\ \A q \in s : q.role = mine /\ q.tie = t
    BY Zenon, <1>4, <1>10 DEF Fixed
  <2>2. ASSUME NEW q \in r PROVE q.role = mine /\ q.tie = t
    BY Zenon, <1>5, <2>1 DEF Holds
  <2>3. QED BY Zenon, <2>1, <2>2 DEF Fixed
<1>11. QED BY Zenon, <1>4, <1>9, <1>10 DEF SideOn

\* The other agent acts: more pairs may have been asked for.
LEMMA StillSide ==
    ASSUME NEW mine \in BOOLEAN, NEW t, NEW K, NEW L, K \subseteq L, NEW s, NEW an,
           Side(mine, t, K, s, an), UNCHANGED vars
    PROVE  SideOn(mine, t, L, s, s, an)

\* The state does not change while the other agent asks for more pairs.
<1>StillPlaysOn.
      ASSUME Plays(mine, t, K)
      PROVE  PlaysOn(mine, t, L)
  <2> USE <1>StillPlaysOn
  <2>1. /\ UNCHANGED <<controlling, tie, handlers, made, checkList, valid, trigQ, checks>>
        /\ made' \in [Keys -> Nat] /\ checkList' \subseteq Pairs /\ checks \in CheckTable
    BY Zenon DEF vars, roleVars, listVars, Plays, ChecksPlay
  <2>2. Out(L)'
    BY Zenon, <2>1 DEF Out, Plays, ChecksPlay, CheckPlays
  <2>3. TableKept(checks, checks')
    BY Zenon, <2>1, TableKeptSelf
  <2>4. QED BY Zenon, <2>1, <2>2, <2>3, QuietPlaysOn
<1>1. UNCHANGED <<controlling, tie, checks>>
  BY Zenon DEF vars, roleVars
<1>2. Plays(mine, t, L)'
  BY Zenon, <1>StillPlaysOn DEF Side, PlaysOn
<1>3. Running' = Running
  BY Zenon, <1>1 DEF Running
<1>4. Side(mine, t, L, s, an)'
  BY Zenon, <1>1, <1>2, <1>3 DEF Side
<1>5. Fixed(mine, t, s) => Fixed(mine, t, s)'
  BY Zenon, <1>1 DEF Fixed, Holds
<1>6. QED BY Zenon, <1>1, <1>4, <1>5 DEF SideOn

\* An answer is on its way to the check c, one that fits its role.
LEMMA AnswerSent ==
    ASSUME NEW mine \in BOOLEAN, NEW t, NEW K, NEW L, K \subseteq L, NEW s, NEW an,
           Side(mine, t, K, s, an), UNCHANGED vars, NEW c \in Running,
           NEW x \in {"ok", "conflict"}, x = "ok" <=> checks[c].role = mine
    PROVE  SideOn(mine, t, L, s, s, [an EXCEPT ![c] = @ \cup {x}])
<1> DEFINE bn == [an EXCEPT ![c] = @ \cup {x}]
<1>1. SideOn(mine, t, L, s, s, an) /\ Running' = Running /\ checks' = checks
  BY Zenon, StillSide DEF vars, Running
<1>2. /\ an \in [CheckIds -> SUBSET {"ok", "conflict"}] /\ c \in CheckIds
      /\ \A d \in CheckIds : /\ an[d] # {} => d \in Running
                             /\ "ok" \in an[d] => checks[d].role = mine
                             /\ "conflict" \in an[d] => checks[d].role # mine
  BY Zenon DEF Side, Running
<1>3. /\ bn \in [CheckIds -> SUBSET {"ok", "conflict"}] /\ bn[c] = an[c] \cup {x}
      /\ \A d \in CheckIds \ {c} : bn[d] = an[d]
  BY Zenon, <1>2
<1> HIDE DEF bn
<1>4. \A d \in CheckIds : /\ bn[d] # {} => d \in Running
                          /\ "ok" \in bn[d] => checks[d].role = mine
                          /\ "conflict" \in bn[d] => checks[d].role # mine
  <2>1. x = "conflict" => checks[c].role # mine
    BY Zenon
  <2>2. QED BY Zenon, <1>2, <1>3, <2>1
<1>5. Side(mine, t, L, s, bn)'
  BY Zenon, <1>1, <1>3, <1>4 DEF SideOn, Side
<1>6. SideOn(mine, t, L, s, s, bn)
  BY Zenon, <1>1, <1>5 DEF SideOn
<1>7. QED BY Zenon, <1>6 DEF bn

\* The agent wins a conflict over its lasting role against the tie-breaker u.
Beats(mine, t, u) == IF mine THEN u < t ELSE t < u

\* A request q of the other agent, whose lasting role is not this agent's own
\* and whose tie-breaker outside that role is u.  This agent always had its
\* lasting role, or the one that sent the request had.
Arrives(mine, t, u, K, q) ==
    /\ q.key[2] \in Hosts /\ q.key[1] \in Remotes /\ <<q.key[2], q.key[1]>> \in Keys
    /\ q.use \in BOOLEAN /\ q.role \in BOOLEAN /\ q.tie \in Nat
    /\ q.role = mine => q.tie = u
    /\ q.use /\ q.role => <<q.key[2], q.key[1]>> \in K
    /\ \/ Holds(mine, t) /\ q.role # mine
       \/ Holds(mine, t) /\ Beats(mine, t, u)
       \/ q.role # mine /\ q.tie = u /\ Beats(mine, t, u)

\* A request is taken, or refused.
Handles(q, x) ==
    \/ /\ x = "ok"
       /\ \E h \in HandlerIds : Request(h, q.key[2], q.key[1], q.use, q.role, q.tie)
    \/ x = "conflict" /\ Refuses(q.role, q.tie) /\ UNCHANGED vars

LEMMA HandlesSide ==
    ASSUME NEW mine \in BOOLEAN, NEW t \in Nat, NEW u \in Nat, NEW K, NEW s, NEW an,
           Side(mine, t, K, s, an), NEW q, Arrives(mine, t, u, K, q), NEW x, Handles(q, x)
    PROVE  SideOn(mine, t, K, s, s, an) /\ (x = "ok" <=> q.role # mine)

\* A request in the other agent's lasting role: the receiver takes its own.
<1>RequestPlaysOn.
      ASSUME NEW L, K \subseteq L, Plays(mine, t, K), NEW h \in HandlerIds,
             NEW l \in Hosts, NEW r \in Remotes, <<l, r>> \in Keys,
             NEW use \in BOOLEAN, NEW role \in BOOLEAN, NEW v,
             Request(h, l, r, use, role, v), role # mine,
             use /\ role => <<l, r>> \in K
      PROVE  PlaysOn(mine, t, L)
  <2> USE <1>RequestPlaysOn
  <2> DEFINE n == [phase |-> "resp", local |-> l, remote |-> r, use |-> use]
  <2>1. /\ controlling' = mine /\ handlers' = [handlers EXCEPT ![h] = n]
        /\ UNCHANGED <<tie, made, checkList, valid, trigQ, checks>>
        /\ made' \in [Keys -> Nat] /\ checkList' \subseteq Pairs /\ checks \in CheckTable
        /\ controlling \in BOOLEAN
        /\ QueuePlays(mine, K, controlling, trigQ) /\ ValidPlays(K, valid)
        /\ HandlersPlay(mine, K, controlling, handlers)
    BY Zenon DEF Request, listVars, Plays, ChecksPlay
  <2>2. /\ n \in Handler /\ n.use = use /\ n.local = l /\ n.remote = r
        /\ use => (mine /\ controlling') \/ <<n.local, n.remote>> \in K
    BY Zenon, <2>1 DEF Handler
  <2> HIDE DEF n
  <2>3. Out(L)'
    BY Zenon, <2>1 DEF Out, Plays, ChecksPlay, CheckPlays
  <2>4. RoleStep(mine, t) /\ TableStep(mine, L)
    BY Zenon, <2>1, TableKeptSelf, TableKeptStep DEF RoleStep, Plays
  <2>5. controlling = mine => controlling' = mine
    BY Zenon, <2>1
  <2>6. QueuePlays(mine, L, controlling', trigQ')
    BY SMT, <2>1, <2>5, QueueMono
  <2>7. HandlersPlay(mine, L, controlling', handlers)
    BY SMT, <2>1, <2>5, HandlersMono
  <2>8. HandlersPlay(mine, L, controlling', handlers')
    BY Zenon, <2>1, <2>2, <2>7 DEF HandlersPlay
  <2>9. ValidPlays(L, valid')
    BY Zenon, <2>1, ValidMono
  <2>10. QED BY Zenon, <2>1, <2>3, <2>4, <2>6, <2>8, <2>9, StepPlaysOn

\* A request of the other agent that is not refused, in its lasting role.
<1>RequestSide.
      ASSUME NEW h \in HandlerIds, NEW l \in Hosts, NEW r \in Remotes,
             <<l, r>> \in Keys, NEW use \in BOOLEAN, NEW role \in BOOLEAN, NEW v,
             Request(h, l, r, use, role, v), role # mine,
             use /\ role => <<l, r>> \in K
      PROVE  SideOn(mine, t, K, s, s, an)
  <2> USE <1>RequestSide
  <2>1. PlaysOn(mine, t, K)
    <3>1. Plays(mine, t, K) /\ K \subseteq K
      BY Zenon DEF Side
    <3>2. QED BY Zenon, <3>1, <1>RequestPlaysOn
  <2>2. /\ Plays(mine, t, K)' /\ (controlling = mine => controlling' = mine)
        /\ Holds(mine, t) => Holds(mine, t)'
    BY Zenon, <2>1 DEF PlaysOn
  <2>3. checks' = checks
    BY Zenon DEF Request
  <2>4. Running' = Running
    BY Zenon, <2>3 DEF Running
  <2>5. Side(mine, t, K, s, an)'
    BY Zenon, <2>2, <2>3, <2>4 DEF Side
  <2>6. Fixed(mine, t, s) => Fixed(mine, t, s)'
    BY Zenon, <2>2 DEF Fixed
  <2>7. QED BY Zenon, <2>2, <2>5, <2>6 DEF SideOn

\* An agent refuses exactly the requests that claim the role it is to keep: it
\* has that role, or the request comes from an agent that always had its own.
<1>Verdict.
      ASSUME Plays(mine, t, K), NEW role \in BOOLEAN, NEW w \in Nat,
             role = mine => w = u,
             \/ Holds(mine, t) /\ role # mine
             \/ Holds(mine, t) /\ Beats(mine, t, u)
             \/ role # mine /\ w = u /\ Beats(mine, t, u)
      PROVE  Refuses(role, w) <=> role = mine
  <2> USE <1>Verdict
  <2>1. /\ controlling \in BOOLEAN /\ (controlling # mine => tie = t)
        /\ Holds(mine, t) => controlling = mine /\ tie = t
    BY Zenon DEF Plays, Holds
  <2>2. CASE role = mine
    BY <2>1, <2>2 DEF Refuses, Conflicts, Beats
  <2>3. CASE role # mine
    BY <2>1, <2>3 DEF Refuses, Conflicts, Beats
  <2>4. QED BY Zenon, <2>2, <2>3
<1> DEFINE l == q.key[2]
           r == q.key[1]
           use == q.use
           role == q.role
           w == q.tie
<1>1. /\ l \in Hosts /\ r \in Remotes /\ <<l, r>> \in Keys
      /\ use \in BOOLEAN /\ role \in BOOLEAN /\ w \in Nat
      /\ role = mine => w = u
      /\ use /\ role => <<l, r>> \in K
      /\ \/ Holds(mine, t) /\ role # mine
         \/ Holds(mine, t) /\ Beats(mine, t, u)
         \/ role # mine /\ w = u /\ Beats(mine, t, u)
  BY Zenon DEF Arrives
<1>2. CASE x = "ok" /\ \E h \in HandlerIds : Request(h, l, r, use, role, w)
  <2> HIDE DEF l, r, use, role, w
  <2>1. PICK h \in HandlerIds : Request(h, l, r, use, role, w)
    BY Zenon, <1>2
  <2>2. Refuses(role, w) <=> role = mine
    <3>1. Plays(mine, t, K)
      BY Zenon DEF Side
    <3>2. QED BY Zenon, <1>1, <3>1, <1>Verdict
  <2>3. role # mine
    BY Zenon, <2>1, <2>2 DEF Request
  <2>4. SideOn(mine, t, K, s, s, an)
    BY Zenon, <1>1, <2>1, <2>3, <1>RequestSide
  <2>5. QED BY Zenon, <1>2, <2>3, <2>4 DEF role
<1>3. CASE x = "conflict" /\ Refuses(role, w) /\ UNCHANGED vars
  <2> HIDE DEF l, r, use, role, w
  <2>1. Refuses(role, w) <=> role = mine
    <3>1. Plays(mine, t, K)
      BY Zenon DEF Side
    <3>2. QED BY Zenon, <1>1, <3>1, <1>Verdict
  <2>2. K \subseteq K
    BY Zenon
  <2>3. SideOn(mine, t, K, s, s, an)
    BY Zenon, <1>3, <2>2, StillSide
  <2>4. QED BY Zenon, <1>3, <2>1, <2>3 DEF role
<1>4. QED BY Zenon, <1>2, <1>3 DEF Handles

LEMMA InitSide ==
    ASSUME Init, NEW mine \in BOOLEAN, NEW K, ~RemoteLite
    PROVE  /\ Side(mine, tie, K, {}, [c \in CheckIds |-> {}])
           /\ controlling = mine => Fixed(mine, tie, {})

<1>InitPlays. Plays(mine, tie, K) /\ (controlling = mine => Holds(mine, tie))
  <2>1. controlling \in BOOLEAN /\ tie \in Ties /\ checkList \subseteq Pairs
    BY Zenon, LimitAssumption DEF Init
  <2>2. made \in [Keys -> Nat]
    BY DEF Init
  <2>3. checks \in CheckTable /\ \A c \in CheckIds : checks[c] = Idle
    BY Zenon DEF Init, CheckTable
  <2>4. handlers \in [HandlerIds -> Handler \cup {Idle}] /\ \A h \in HandlerIds : handlers[h] = Idle
    BY Zenon DEF Init
  <2>5. QED
    BY Zenon, <2>1, <2>2, <2>3, <2>4
       DEF Init, Plays, Holds, ChecksPlay, QueuePlays, ValidPlays, HandlersPlay
<1>1. Plays(mine, tie, K) /\ (controlling = mine => Holds(mine, tie))
  BY Zenon, <1>InitPlays
<1>2. ASSUME NEW c \in Running PROVE FALSE
  <2>1. checks[c] = Idle /\ checks[c].phase \in {"retry", "quiet"}
    BY Zenon DEF Running, OnTheWay, Init
  <2>2. QED BY <2>1, IdleIsNoCheck
<1>3. QED BY Zenon, <1>1, <1>2 DEF Side, Fixed
=============================================================================
