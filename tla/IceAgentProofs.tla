--------------------------- MODULE IceAgentProofs ---------------------------
(***************************************************************************)
(* The inductive invariant of one ICE agent, what the steps that several   *)
(* actions share preserve of it, and that it holds in every behaviour; the *)
(* type invariant and the properties it contains, and those of the check-  *)
(* list and of nomination, which each step preserves given the invariant.  *)
(***************************************************************************)
EXTENDS IceAgent, FiniteSetTheorems, TLAPS

\* The tickets of the triggered-check queue have different places.
TicketsApart(q) == \A t, u \in q : t.at = u.at => t = u

\* A valid list has one entry for a pair of endpoints (do_check looks for a
\* known one first), and only nominated entries without a source.
ValidOnce(v) == \A e, f \in v : e.key = f.key => e = f
Sourced(v) == \A e \in v : e.source = NoPair => e.nominated

\* The type invariant is inductive together with what the scope guard of
\* do_check, default_nominate and pick_next_pair rely on: the count of checks,
\* the sources of the valid list, the order of the queue.
Inv == /\ TypeOK /\ PendingAccounting
       /\ TicketsApart(trigQ) /\ ValidOnce(valid) /\ Sourced(valid)

CheckTable == [CheckIds -> Check \cup {Idle}]

\* The same checks are running in both tables, each for the same pair.
SameChecks(cs, ds) ==
    /\ ds \in CheckTable
    /\ \A c \in CheckIds : /\ ds[c] = Idle <=> cs[c] = Idle
                           /\ cs[c] # Idle => ds[c].pair = cs[c].pair

-----------------------------------------------------------------------------
(* Types *)

LEMMA PairType ==
    ASSUME NEW p \in Pairs
    PROVE  /\ KeyOf(p) \in Keys /\ KeyOf(p)[1] \in Locals /\ KeyOf(p)[2] \in Remotes
           /\ CompOf(p) \in Components /\ CompOf(p) = KeyComp(KeyOf(p))
BY Zenon, CandidateAssumption DEF Pairs, Keys, KeyOf, CompOf, KeyComp

LEMMA KeyType ==
    ASSUME NEW k \in Keys
    PROVE  /\ k[1] \in Locals /\ k[2] \in Remotes
           /\ KeyComp(k) \in Components /\ Priority[k] \in Nat
           /\ Seen[k] \in Locals /\ <<Seen[k], k[2]>> \in Keys
           /\ KeyComp(<<Seen[k], k[2]>>) = KeyComp(k)
BY Zenon, CandidateAssumption, PairAssumption DEF Keys, KeyComp

LEMMA IdleIsNoCheck == Idle \notin Check
BY Zenon DEF Idle, Check

LEMMA ActiveCheck ==
    ASSUME checks \in CheckTable, NEW c \in CheckIds, checks[c] # Idle
    PROVE  /\ checks[c] \in Check /\ c \in Active
           /\ checks[c].pair \in Pairs
           /\ checks[c].use \in BOOLEAN /\ checks[c].role \in BOOLEAN
           /\ checks[c].round \in 1 .. MaxRounds
BY Zenon DEF Check, Active, CheckTable

LEMMA StopRetryingSame ==
    ASSUME NEW cs \in CheckTable, NEW P
    PROVE  SameChecks(cs, StopRetrying(cs, P))
<1> DEFINE ds == StopRetrying(cs, P)
<1> SUFFICES ASSUME NEW c \in CheckIds
             PROVE  /\ ds[c] \in Check \cup {Idle}
                    /\ ds[c] = Idle <=> cs[c] = Idle
                    /\ cs[c] # Idle => ds[c].pair = cs[c].pair
  BY Zenon DEF SameChecks, CheckTable, StopRetrying
<1>1. CASE cs[c].phase = "retry" /\ cs[c].pair \in P
  <2>1. cs[c] \in Check
    BY <1>1 DEF Idle, CheckTable
  <2>2. ds[c] = [cs[c] EXCEPT !.phase = "quiet"]
    BY Zenon, <1>1 DEF StopRetrying
  <2>3. ds[c] \in Check /\ ds[c].pair = cs[c].pair
    BY Zenon, <2>1, <2>2 DEF Check
  <2>4. QED BY Zenon, <2>1, <2>3, IdleIsNoCheck
<1>2. CASE ~(cs[c].phase = "retry" /\ cs[c].pair \in P)
  BY Zenon, <1>2 DEF StopRetrying, CheckTable
<1>3. QED BY Zenon, <1>1, <1>2

LEMMA StoppedCheck ==
    ASSUME NEW k \in Check
    PROVE  Stopped(k) \in Check /\ Stopped(k).pair = k.pair
<1>1. CASE k.phase = "perm"
  BY Zenon, <1>1 DEF Stopped, Check, Results
<1>2. CASE k.phase \in {"sched", "retry", "quiet"}
  BY Zenon, <1>2 DEF Stopped, Check, Results
<1>3. CASE k.phase = "ending"
  BY Zenon, <1>3 DEF Stopped, Check
<1>4. QED BY Zenon, <1>1, <1>2, <1>3 DEF Check

LEMMA StoppedSame ==
    ASSUME NEW cs \in CheckTable
    PROVE  SameChecks(cs, [c \in CheckIds |-> Stopped(cs[c])])
<1>1. Stopped(Idle) = Idle
  BY Zenon DEF Stopped, Idle
<1>2. QED
  BY Zenon, <1>1, StoppedCheck, IdleIsNoCheck DEF SameChecks, CheckTable

-----------------------------------------------------------------------------
(* The count of running checks *)

LEMMA PendingKept ==
    ASSUME PendingAccounting, SameChecks(checks, checks'), UNCHANGED pending
    PROVE  PendingAccounting'
BY Zenon DEF PendingAccounting, SameChecks, Active

LEMMA PendingDown ==
    ASSUME TypeOK, PendingAccounting, NEW c \in CheckIds, checks[c] # Idle,
           SameChecks(Without(c), checks'), pending' = CountDown
    PROVE  PendingAccounting' /\ pending' \in Nat
<1>1. Active' = Active \ {c} /\ c \in Active /\ IsFiniteSet(Active)
  <2>1. IsFiniteSet(Active)
    BY Zenon, LimitAssumption, FS_Subset DEF Active
  <2>2. QED
    BY Zenon, <2>1 DEF SameChecks, Active, Without, TypeOK
<1>2. Cardinality(Active') = Cardinality(Active) - 1 /\ Cardinality(Active) \in Nat
      /\ Cardinality(Active') \in Nat
  BY Zenon, <1>1, FS_RemoveElement, FS_CardinalityType
<1>3. QED
  BY <1>2, LimitAssumption DEF PendingAccounting, CountDown, TypeOK

LEMMA PendingUp ==
    ASSUME TypeOK, PendingAccounting, MayPerform, NEW c \in CheckIds \ Active,
           NEW k \in Check, checks' = [checks EXCEPT ![c] = k], pending' = pending + 1
    PROVE  PendingAccounting' /\ pending' \in Nat
<1>1. Active' = Active \cup {c} /\ c \notin Active /\ IsFiniteSet(Active)
  <2>1. IsFiniteSet(Active)
    BY Zenon, LimitAssumption, FS_Subset DEF Active
  <2>2. QED
    BY Zenon, <2>1, IdleIsNoCheck DEF Active, TypeOK
<1>2. Cardinality(Active') = Cardinality(Active) + 1 /\ Cardinality(Active) \in Nat
  BY Zenon, <1>1, FS_AddElement, FS_CardinalityType
<1>3. QED
  BY <1>2, LimitAssumption DEF PendingAccounting, MayPerform, TypeOK

-----------------------------------------------------------------------------
(* The steps that several actions share *)

\* Pairing makes pairs of the right type and puts them into the right states.
LEMMA MakePairsType ==
    ASSUME TypeOK, NEW K \in SUBSET Keys, MakePairs(K)
    PROVE  /\ made' \in [Keys -> 0 .. MaxInst]
           /\ checkList' \subseteq Pairs
           /\ pairState' \in [Pairs -> PairStates]
<1> DEFINE New == {k \in K : ~Redundant(k)}
<1>1. /\ \A k \in New : made[k] < MaxInst
      /\ made' = [k \in Keys |-> IF k \in New THEN made[k] + 1 ELSE made[k]]
      /\ checkList' = checkList \cup {NewPair(k) : k \in New}
  BY Zenon DEF MakePairs
<1>2. made' \in [Keys -> 0 .. MaxInst]
  BY <1>1, LimitAssumption DEF TypeOK
<1>3. checkList' \subseteq Pairs
  BY <1>1, LimitAssumption DEF TypeOK, NewPair, Pairs
<1>4. pairState' \in [Pairs -> PairStates]
  BY Zenon DEF MakePairs, TypeOK, PairStates
<1>5. QED BY Zenon, <1>2, <1>3, <1>4

\* The entries for which check_complete asks again: at most one of a component,
\* and of one without a nominated pair.
Picked(T, v, st) ==
    /\ T # {} => st \notin {"CLOSED", "CONNECTED"} /\ controlling'
    /\ \A e \in T : ~HasNominated(v, KeyComp(e.key))
    /\ \A e, f \in T : KeyComp(e.key) = KeyComp(f.key) => e = f

LEMMA CheckCompletePicks ==
    ASSUME NEW p, NEW ps, NEW v, NEW cl, NEW q, NEW cs, NEW st,
           CheckComplete(p, ps, v, cl, q, cs, st)
    PROVE  \E T \in SUBSET v : Renew(T, p, ps, cl, q, cs) /\ Picked(T, v, st)
<1>1. CASE st \in {"CLOSED", "CONNECTED"} \/ ~controlling'
  <2>1. Renew({}, p, ps, cl, q, cs)
    BY Zenon, <1>1 DEF CheckComplete
  <2>2. {} \in SUBSET v /\ Picked({}, v, st)
    BY DEF Picked
  <2>3. QED BY Zenon, <2>1, <2>2
<1>2. CASE ~(st \in {"CLOSED", "CONNECTED"} \/ ~controlling')
  <2>1. PICK T \in ToNominate(v) : Renew(T, p, ps, cl, q, cs)
    BY Zenon, <1>2 DEF CheckComplete
  <2>2. T \in SUBSET v /\ Picked(T, v, st)
    BY Zenon, <1>2 DEF ToNominate, SameComponent, Picked
  <2>3. QED BY Zenon, <2>1, <2>2
<1>3. QED BY Zenon, <1>1, <1>2

\* An entry that is picked has a source.
LEMMA PickedSource ==
    ASSUME NEW v \in SUBSET ValidEntry, Sourced(v), NEW st, NEW T \in SUBSET v,
           Picked(T, v, st), NEW e \in T
    PROVE  e.source \in Pairs /\ e \in v /\ KeyComp(e.key) \in Components
<1>1. e \in v /\ ~e.nominated
  BY Zenon DEF Picked, HasNominated
<1>2. QED BY Zenon, <1>1, KeyType DEF ValidEntry, Sourced

\* check_complete keeps the types and the order of the queue.
LEMMA CheckCompleteType ==
    ASSUME NEW p, NEW ps \in [Pairs -> PairStates],
           NEW v \in SUBSET ValidEntry, ValidOnce(v), Sourced(v), NEW cl,
           NEW q \in SUBSET Tasks, TicketsApart(q),
           NEW cs \in CheckTable, NEW st, CheckComplete(p, ps, v, cl, q, cs, st)
    PROVE  /\ pairState' \in [Pairs -> PairStates]
           /\ trigQ' \subseteq Tasks /\ TicketsApart(trigQ')
           /\ SameChecks(cs, checks')
<1>0. PICK T \in SUBSET v : Renew(T, p, ps, cl, q, cs) /\ Picked(T, v, st)
  BY Zenon, CheckCompletePicks
<1> DEFINE S == {e.source : e \in T}
           ticket(e, n) == [at |-> n + KeyComp(e.key) - 1, pair |-> e.source,
                            use |-> TRUE]
<1>1. pairState' \in [Pairs -> PairStates]
  BY Zenon, <1>0 DEF Renew, PairStates
<1>2. SameChecks(cs, checks')
  <2>1. checks' = StopRetrying(cs, S)
    BY Zenon, <1>0 DEF Renew
  <2>2. QED BY Zenon, <2>1, StopRetryingSame
<1>3. PICK n \in 0 .. QueueBound :
         IsEnd(q, n) /\ trigQ' = q \cup {ticket(e, n) : e \in T}
  BY Zenon, <1>0 DEF Renew
<1>4. /\ \A e \in T : e.source \in Pairs /\ KeyComp(e.key) \in Components
      /\ \A e, f \in T : KeyComp(e.key) = KeyComp(f.key) => e = f
  BY Zenon, <1>0, PickedSource DEF Picked
<1>5. \A e \in T : /\ ticket(e, n) \in Tasks /\ ticket(e, n).at >= n
                   /\ ticket(e, n).at = n + KeyComp(e.key) - 1
  BY <1>4, LimitAssumption DEF Components, Tasks
<1>6. trigQ' \subseteq Tasks
  BY Zenon, <1>3, <1>5
<1>7. \A e, f \in T : ticket(e, n).at = ticket(f, n).at => e = f
  BY <1>4, <1>5, LimitAssumption DEF Components
<1>8. \A t \in q : t.at \in Nat /\ t.at < n
  BY Zenon, <1>3 DEF IsEnd, Tasks
<1>9. ASSUME NEW t \in trigQ', NEW u \in trigQ', t.at = u.at
      PROVE  t = u
  <2>1. CASE t \in q /\ u \in q
    BY Zenon, <1>9, <2>1 DEF TicketsApart
  <2>2. CASE t \in q /\ u \notin q
    <3>1. PICK e \in T : u = ticket(e, n)
      BY Zenon, <1>3, <2>2
    <3>2. QED BY SMTT(30), <1>5, <1>8, <1>9, <2>2, <3>1, LimitAssumption DEF Components
  <2>3. CASE t \notin q /\ u \in q
    <3>1. PICK e \in T : t = ticket(e, n)
      BY Zenon, <1>3, <2>3
    <3>2. QED BY SMTT(30), <1>5, <1>8, <1>9, <2>3, <3>1
  <2>4. CASE t \notin q /\ u \notin q
    <3>1. PICK e \in T : t = ticket(e, n)
      BY Zenon, <1>3, <2>4
    <3>2. PICK f \in T : u = ticket(f, n)
      BY Zenon, <1>3, <2>4
    <3>3. QED BY Zenon, <1>7, <1>9, <3>1, <3>2
  <2>5. QED BY Zenon, <2>1, <2>2, <2>3, <2>4
<1>10. QED BY Zenon, <1>1, <1>2, <1>6, <1>9 DEF TicketsApart

\* Nomination keeps the shape of the valid list.
LEMMA NominatedType ==
    ASSUME NEW v \in SUBSET ValidEntry, ValidOnce(v), Sourced(v), NEW e \in v
    PROVE  /\ Nominated(v, e) \subseteq ValidEntry
           /\ ValidOnce(Nominated(v, e)) /\ Sourced(Nominated(v, e))
<1> DEFINE n == [e EXCEPT !.nominated = TRUE]
<1>1. /\ n \in ValidEntry /\ n.key = e.key /\ n.source = e.source /\ n.nominated
      /\ e \in ValidEntry
  BY Zenon DEF ValidEntry
<1>2. Nominated(v, e) = (v \ {e}) \cup {n}
  BY Zenon DEF Nominated
<1> HIDE DEF n
<1>3. QED BY Zenon, <1>1, <1>2 DEF ValidOnce, Sourced

\* Popping the lowest ticket leaves a queue of tickets.
LEMMA PopType ==
    ASSUME NEW t \in trigQ, \A u \in trigQ : t.at <= u.at, Inv
    PROVE  Pop(t) \subseteq Tasks /\ TicketsApart(Pop(t))
<1> DEFINE moved(u) == [u EXCEPT !.at = u.at - t.at - 1]
<1>1. ASSUME NEW u \in trigQ \ {t}
      PROVE  /\ u.at \in Nat /\ t.at \in Nat /\ u.at > t.at
             /\ moved(u) \in Tasks /\ moved(u).at = u.at - t.at - 1
  <2>1. u \in Tasks /\ t \in Tasks
    BY Zenon DEF Inv, TypeOK
  <2>2. u.at \in Nat /\ t.at \in Nat /\ u.at > t.at
    BY <2>1 DEF Inv, TicketsApart, Tasks
  <2>3. QED BY <2>1, <2>2 DEF Tasks
<1>2. Pop(t) = {moved(u) : u \in trigQ \ {t}}
  BY Zenon DEF Pop
<1>3. Pop(t) \subseteq Tasks
  BY Zenon, <1>1, <1>2
<1>4. ASSUME NEW x \in Pop(t), NEW y \in Pop(t), x.at = y.at PROVE x = y
  <2>1. PICK u \in trigQ \ {t} : x = moved(u)
    BY Zenon, <1>2
  <2>2. PICK w \in trigQ \ {t} : y = moved(w)
    BY Zenon, <1>2
  <2>3. u.at = w.at
    BY <1>1, <1>4, <2>1, <2>2
  <2>4. QED BY Zenon, <2>1, <2>2, <2>3 DEF Inv, TicketsApart
<1>5. QED BY Zenon, <1>3, <1>4 DEF TicketsApart

\* do_check up to its first suspension, from well-typed pair states.
LEMMA PerformType ==
    ASSUME Inv, NEW p \in Pairs, NEW use \in BOOLEAN, NEW ps \in [Pairs -> PairStates],
           Perform(p, use, ps)
    PROVE  /\ pairState' \in [Pairs -> PairStates]
           /\ checks' \in CheckTable /\ pending' \in Nat /\ PendingAccounting'
           /\ loop' = "waiting"
<1>1. CASE MayPerform
  <2>1. PICK c \in CheckIds \ Active, f \in FirstPhases(p) :
           checks' = [checks EXCEPT ![c] =
                     [phase |-> f, pair |-> p, use |-> use \/ RemoteLite,
                      role |-> controlling, tie |-> tie, round |-> 1,
                      result |-> "none"]]
    BY Zenon, <1>1 DEF Perform
  <2> DEFINE k == [phase |-> f, pair |-> p, use |-> use \/ RemoteLite,
                   role |-> controlling, tie |-> tie, round |-> 1,
                   result |-> "none"]
  <2>2. f \in {"perm", "sched"}
    BY Zenon DEF FirstPhases
  <2>3. (use \/ RemoteLite) \in BOOLEAN
    BY Zenon, LimitAssumption
  <2>4. k \in Check
    <3>1. controlling \in BOOLEAN /\ tie \in Ties
      BY Zenon DEF Inv, TypeOK
    <3>2. 1 \in 1 .. MaxRounds
      BY LimitAssumption
    <3>3. QED BY Zenon, <2>2, <2>3, <3>1, <3>2 DEF Check, Results
  <2> HIDE DEF k
  <2>5. checks' = [checks EXCEPT ![c] = k]
    BY Zenon, <2>1 DEF k
  <2>6. checks' \in CheckTable
    BY Zenon, <2>4, <2>5 DEF CheckTable, Inv, TypeOK
  <2>7. PendingAccounting' /\ pending' \in Nat
    BY Zenon, <1>1, <2>4, <2>5, PendingUp DEF Perform, Inv
  <2>8. pairState' \in [Pairs -> PairStates]
    BY Zenon, <1>1 DEF Perform, PairStates
  <2>9. QED BY Zenon, <2>6, <2>7, <2>8 DEF Perform
<1>2. CASE ~MayPerform
  BY Zenon, <1>2 DEF Perform, Inv, TypeOK, PendingAccounting, Active, CheckTable
<1>3. QED BY Zenon, <1>1, <1>2

\* A check that waits moves on.
LEMMA MoveSame ==
    ASSUME checks \in CheckTable, NEW c \in CheckIds, checks[c] # Idle,
           NEW f \in {"perm", "sched", "retry", "quiet", "ending"}, NEW r \in Results,
           checks' = [checks EXCEPT ![c].phase = f, ![c].result = r]
    PROVE  SameChecks(checks, checks')
<1> DEFINE k == [checks[c] EXCEPT !.phase = f, !.result = r]
<1>1. checks' = [checks EXCEPT ![c] = k]
  BY Zenon DEF CheckTable
<1>2. k \in Check /\ k.pair = checks[c].pair
  BY Zenon DEF CheckTable, Check
<1> HIDE DEF k
<1>3. QED BY Zenon, <1>1, <1>2, IdleIsNoCheck DEF SameChecks, CheckTable

\* A check that ends leaves the table.
LEMMA WithoutType ==
    ASSUME checks \in CheckTable, NEW c \in CheckIds
    PROVE  Without(c) \in CheckTable /\ SameChecks(Without(c), Without(c))
BY Zenon DEF Without, CheckTable, SameChecks

LEMMA SameChecksTrans ==
    ASSUME NEW as, NEW bs, NEW cs, SameChecks(as, bs), SameChecks(bs, cs)
    PROVE  SameChecks(as, cs)
BY Zenon DEF SameChecks

\* set_nominated keeps the types of what it changes.
LEMMA CompleteNominationType ==
    ASSUME TypeOK, NEW v \in SUBSET ValidEntry, ValidOnce(v), Sourced(v),
           NEW e \in v, CompleteNomination(v, e)
    PROVE  /\ valid' \subseteq ValidEntry /\ ValidOnce(valid') /\ Sourced(valid')
           /\ checkList' \subseteq Pairs /\ localEnd' \in {"open", "told", "over"}
           /\ clState' \in {"RUNNING", "COMPLETED", "FAILED"}
           /\ state' \in AgentStates /\ freeTimer' \in BOOLEAN
           /\ loop' \in {"idle", "waiting", "woken", "draining", "done"}
<1>1. valid' \subseteq ValidEntry /\ ValidOnce(valid') /\ Sourced(valid')
  BY Zenon, NominatedType DEF CompleteNomination
<1>2. checkList' \subseteq Pairs /\ localEnd' \in {"open", "told", "over"}
  BY Zenon DEF CompleteNomination, TypeOK
<1>3. QED
  BY Zenon, <1>1, <1>2 DEF CompleteNomination, SetState, WokenLoop, TypeOK, AgentStates

\* A ticket at the end of the queue.
LEMMA EnqueueType ==
    ASSUME Inv, NEW p \in Pairs, NEW use \in BOOLEAN, Enqueue(p, use)
    PROVE  trigQ' \subseteq Tasks /\ TicketsApart(trigQ')
<1>1. PICK n \in 0 .. QueueBound - 1 :
         IsEnd(trigQ, n) /\ trigQ' = trigQ \cup {[at |-> n, pair |-> p, use |-> use]}
  BY Zenon DEF Enqueue
<1>2. \A t \in trigQ : t \in Tasks /\ t.at \in Nat /\ t.at < n
  BY Zenon, <1>1 DEF IsEnd, Inv, TypeOK, Tasks
<1>3. [at |-> n, pair |-> p, use |-> use] \in Tasks
  BY SMTT(30), <1>1, LimitAssumption DEF Tasks
<1>4. TicketsApart(trigQ')
  BY SMTT(30), <1>1, <1>2, LimitAssumption DEF Inv, TicketsApart
<1>5. QED BY Zenon, <1>1, <1>2, <1>3, <1>4

-----------------------------------------------------------------------------
\* The end of a check, on every path of do_check, preserves the invariant.

LEMMA FailCheckInv ==
    ASSUME Inv, NEW c \in CheckIds, checks[c] # Idle, FailCheck(c),
           UNCHANGED <<remotes, remoteEnd, resolving, receivers, handlers>>,
           controlling' \in BOOLEAN, tie' \in Ties
    PROVE  Inv'
<1>1. checks \in CheckTable /\ checks[c].pair \in Pairs
  BY Zenon, ActiveCheck DEF Inv, TypeOK, CheckTable
<1>2. Without(c) \in CheckTable /\ PendingAccounting' /\ pending' \in Nat
  BY Zenon, <1>1, WithoutType, PendingDown DEF FailCheck, Inv
<1>3. pairState' \in [Pairs -> PairStates]
  BY Zenon, <1>1 DEF FailCheck, Inv, TypeOK, PairStates
<1>4. valid' \subseteq valid
  BY Zenon DEF FailCheck, EraseValid
<1>5. TypeOK'
  BY Zenon, <1>2, <1>3, <1>4 DEF FailCheck, Inv, TypeOK, CheckTable
<1>6. QED
  BY Zenon, <1>2, <1>4, <1>5 DEF FailCheck, Inv, ValidOnce, Sourced

LEMMA CancelCheckInv ==
    ASSUME Inv, NEW c \in CheckIds, CheckCancelled(c)
    PROVE  Inv'
<1> USE DEF CheckCancelled, Resumed, roleVars
<1>1. checks \in CheckTable /\ checks[c].pair \in Pairs
  BY Zenon, ActiveCheck DEF Inv, TypeOK, CheckTable
<1>2. Without(c) \in CheckTable /\ PendingAccounting' /\ pending' \in Nat
  BY Zenon, <1>1, WithoutType, PendingDown DEF CancelCheck, Inv
<1>3. pairState' \in [Pairs -> PairStates]
  BY Zenon, <1>1 DEF CancelCheck, Inv, TypeOK, PairStates
<1>4. TypeOK'
  BY Zenon, <1>2, <1>3 DEF CancelCheck, Inv, TypeOK, CheckTable
<1>5. QED
  BY Zenon, <1>2, <1>4 DEF CancelCheck, Inv

\* Another round keeps the check, with its pair.
LEMMA NextRoundSame ==
    ASSUME Inv, NEW c \in CheckIds, checks[c] # Idle, NextRound(c),
           controlling' \in BOOLEAN, tie' \in Ties
    PROVE  SameChecks(checks, checks')
<1>1. checks \in CheckTable /\ checks[c] \in Check
  BY Zenon, ActiveCheck DEF Inv, TypeOK, CheckTable
<1>2. PICK f \in {"perm", "sched"}, k \in Check :
         /\ k = [checks[c] EXCEPT !.phase = f, !.result = "none", !.round = @ + 1,
                                  !.role = controlling', !.tie = tie']
         /\ k.pair = checks[c].pair
         /\ \/ checks' = [checks EXCEPT ![c] = Stopped(k)]
            \/ checks' = [checks EXCEPT ![c] = k]
  <2>1. PICK f \in FirstPhases(checks[c].pair) :
          LET k == [checks[c] EXCEPT !.phase = f, !.result = "none", !.round = @ + 1,
                                     !.role = controlling', !.tie = tie']
          IN  \/ checks' = [checks EXCEPT ![c] = Stopped(k)]
              \/ checks' = [checks EXCEPT ![c] = k]
    BY Zenon DEF NextRound
  <2>2. f \in {"perm", "sched"}
    BY Zenon DEF FirstPhases
  <2> DEFINE k == [checks[c] EXCEPT !.phase = f, !.result = "none", !.round = @ + 1,
                                    !.role = controlling', !.tie = tie']
  <2>3. checks[c].round < MaxRounds
    BY Zenon DEF NextRound, MayRetry
  <2>4. checks[c].round + 1 \in 1 .. MaxRounds
    BY <1>1, <2>3, LimitAssumption DEF Check
  <2>5. k \in Check /\ k.pair = checks[c].pair
    BY Zenon, <1>1, <2>2, <2>4 DEF Check, Results
  <2>6. QED BY Zenon, <2>1, <2>2, <2>5
<1>3. PICK d \in Check : d.pair = checks[c].pair /\ checks' = [checks EXCEPT ![c] = d]
  BY Zenon, <1>2, StoppedCheck
<1>4. QED BY Zenon, <1>1, <1>3, IdleIsNoCheck DEF SameChecks, CheckTable

LEMMA NextRoundInv ==
    ASSUME Inv, NEW c \in CheckIds, checks[c] # Idle, NextRound(c),
           UNCHANGED <<remotes, remoteEnd, resolving, receivers, handlers>>,
           controlling' \in BOOLEAN, tie' \in Ties
    PROVE  Inv'
<1>1. SameChecks(checks, checks')
  BY Zenon, NextRoundSame
<1>2. PendingAccounting'
  BY Zenon, <1>1, PendingKept DEF NextRound, Inv
<1>3. TypeOK'
  BY Zenon, <1>1 DEF NextRound, SameChecks, Inv, TypeOK, CheckTable, listVars
<1>4. QED BY Zenon, <1>2, <1>3 DEF NextRound, Inv

LEMMA ExhaustCheckInv ==
    ASSUME Inv, NEW c \in CheckIds, checks[c] # Idle, ExhaustCheck(c),
           UNCHANGED <<remotes, remoteEnd, resolving, receivers, handlers>>,
           controlling' \in BOOLEAN, tie' \in Ties
    PROVE  Inv'
<1> DEFINE p == checks[c].pair
<1>1. checks \in CheckTable /\ Without(c) \in CheckTable
  BY Zenon, WithoutType DEF Inv, TypeOK, CheckTable
<1>2. CASE pairState[p] # "SUCCEEDED"
  BY Zenon, <1>2, FailCheckInv DEF ExhaustCheck
<1>3. CASE pairState[p] = "SUCCEEDED"
  <2>1. CheckComplete(p, pairState, valid, checkList, trigQ, Without(c), state)
    BY Zenon, <1>3 DEF ExhaustCheck
  <2>2. /\ pairState' \in [Pairs -> PairStates]
        /\ trigQ' \subseteq Tasks /\ TicketsApart(trigQ')
        /\ SameChecks(Without(c), checks')
    BY Zenon, <1>1, <2>1, CheckCompleteType DEF Inv, TypeOK
  <2>3. PendingAccounting' /\ pending' \in Nat
    BY Zenon, <1>3, <2>2, PendingDown DEF ExhaustCheck, Inv
  <2>4. TypeOK'
    BY Zenon, <1>3, <2>2, <2>3 DEF ExhaustCheck, SameChecks, Inv, TypeOK, CheckTable
  <2>5. QED
    BY Zenon, <1>3, <2>2, <2>3, <2>4 DEF ExhaustCheck, Inv
<1>4. QED BY Zenon, <1>2, <1>3

\* The success of the check c finds or makes the entry e of the valid list v and
\* leaves the pair states ps, from which check_complete goes on.
Succeeds(c, v, e, ps) ==
    /\ ValidOnce(v) /\ Sourced(v) /\ e \in v
    /\ v = valid \/ (/\ v = valid \cup {e} /\ ~e.nominated
                     /\ e.source = checks[c].pair)
    /\ \A x \in Pairs : ps[x] = "SUCCEEDED" \/ ps[x] = pairState[x]
    /\ ps[checks[c].pair] = "SUCCEEDED"
    /\ locals' \subseteq Locals /\ locals' \subseteq locals \cup {e.key[1]}
    /\ e.key = <<Seen[KeyOf(checks[c].pair)], KeyOf(checks[c].pair)[2]>>
    /\ \/ /\ MayNominate(v, e) /\ CompleteNomination(v, e) /\ checks[c].use
          /\ CheckComplete(checks[c].pair, ps, valid', checkList',
                    QueueWithout(KeyComp(e.key)),
                    StopRetrying(Without(c), {e.obj}), state')
       \/ /\ valid' = v /\ ~(checks[c].use /\ MayNominate(v, e))
          /\ CheckComplete(checks[c].pair, ps, v, checkList, trigQ,
                           Without(c), state)
          /\ UNCHANGED <<state, clState, localEnd, checkList, loop, freeTimer>>

\* A success response (CheckOk) comes to one of the two cases of Succeeds.
LEMMA SucceedCheckCases ==
    ASSUME Inv, NEW c \in CheckIds, CheckOk(c)
    PROVE  \E v \in SUBSET ValidEntry, e \in ValidEntry, ps \in [Pairs -> PairStates] :
             Succeeds(c, v, e, ps)
<1> DEFINE k == checks[c]
           p == k.pair
           key == <<Seen[KeyOf(p)], KeyOf(p)[2]>>
           Listed == {q \in checkList : KeyOf(q) = key}
           Objects == IF key = KeyOf(p) THEN {p}
                      ELSE IF Listed # {} THEN Listed ELSE {NoPair}
           Known == {e \in valid : e.key = key}
           Fresh(o) == [key |-> key, obj |-> o, source |-> p, nominated |-> FALSE]
           list(o) == IF Known = {} THEN valid \cup {Fresh(o)} ELSE valid
           states(o) == [x \in Pairs |-> IF x = p \/ (Known = {} /\ x = o)
                                         THEN "SUCCEEDED" ELSE pairState[x]]
<1>1. p \in Pairs /\ key \in Keys /\ checkList \subseteq Pairs
      /\ KeyOf(p) \in Keys /\ key[1] \in Locals
  BY Zenon, ActiveCheck, PairType, KeyType DEF CheckOk, Resumed, Inv, TypeOK, CheckTable
<1>2. PICK o \in Objects :
        /\ locals' = IF Objects = {NoPair} /\ key[1] \in Reflexive \ Srflx
                     THEN locals \cup {key[1]} ELSE locals
        /\ \E e \in IF Known = {} THEN {Fresh(o)} ELSE Known :
             IF k.use /\ MayNominate(list(o), e)
             THEN /\ CompleteNomination(list(o), e)
                  /\ CheckComplete(p, states(o), valid', checkList',
                         QueueWithout(KeyComp(key)),
                         StopRetrying(Without(c), {e.obj}), state')
             ELSE /\ valid' = list(o)
                  /\ CheckComplete(p, states(o), list(o), checkList, trigQ,
                                   Without(c), state)
                  /\ UNCHANGED <<state, clState, localEnd, checkList, loop,
                                 freeTimer>>
  BY Zenon DEF CheckOk, SucceedCheck
<1>3. PICK e \in IF Known = {} THEN {Fresh(o)} ELSE Known :
             IF k.use /\ MayNominate(list(o), e)
             THEN /\ CompleteNomination(list(o), e)
                  /\ CheckComplete(p, states(o), valid', checkList',
                         QueueWithout(KeyComp(key)),
                         StopRetrying(Without(c), {e.obj}), state')
             ELSE /\ valid' = list(o)
                  /\ CheckComplete(p, states(o), list(o), checkList, trigQ,
                                   Without(c), state)
                  /\ UNCHANGED <<state, clState, localEnd, checkList, loop,
                                 freeTimer>>
  BY Zenon, <1>2
<1>4. o \in Pairs \cup {NoPair}
  BY Zenon, <1>1
<1>5. /\ Fresh(o) \in ValidEntry /\ Fresh(o).key = key /\ Fresh(o).source = p
      /\ ~Fresh(o).nominated
  BY Zenon, <1>1, <1>4 DEF ValidEntry
<1>6. states(o) \in [Pairs -> PairStates]
      /\ states(o)[p] = "SUCCEEDED"
      /\ \A x \in Pairs : states(o)[x] = "SUCCEEDED" \/ states(o)[x] = pairState[x]
  BY Zenon, <1>1 DEF Inv, TypeOK, PairStates
<1>7. p # NoPair
  BY SMTT(30), <1>1 DEF Pairs, NoPair
<1> HIDE DEF Fresh
<1>8. /\ list(o) \in SUBSET ValidEntry /\ e \in list(o) /\ e.key = key
      /\ ValidOnce(list(o)) /\ Sourced(list(o))
      /\ list(o) = valid \/ (list(o) = valid \cup {e} /\ ~e.nominated /\ e.source = p)
  <2>1. CASE Known = {}
    <3>1. e = Fresh(o) /\ list(o) = valid \cup {e} /\ e \notin valid
      BY Zenon, <1>5, <2>1
    <3>2. ValidOnce(list(o))
      BY Zenon, <1>5, <2>1, <3>1 DEF ValidOnce, Inv
    <3>3. QED BY Zenon, <1>5, <1>7, <3>1, <3>2 DEF Sourced, Inv, TypeOK
  <2>2. CASE Known # {}
    BY Zenon, <2>2 DEF Inv, TypeOK
  <2>3. QED BY Zenon, <2>1, <2>2
<1>9. locals' \subseteq Locals /\ locals' \subseteq locals \cup {e.key[1]}
  BY Zenon, <1>1, <1>2, <1>8 DEF Inv, TypeOK
<1>a. e.key = <<Seen[KeyOf(checks[c].pair)], KeyOf(checks[c].pair)[2]>>
  BY Zenon, <1>8
<1> HIDE DEF list, states, key
<1>10. Succeeds(c, list(o), e, states(o))
  BY Zenon, <1>3, <1>6, <1>8, <1>9, <1>a DEF Succeeds
<1>11. QED BY Zenon, <1>6, <1>8, <1>10

LEMMA CheckOkInv ==
    ASSUME Inv, NEW c \in CheckIds, CheckOk(c)
    PROVE  Inv'
<1> DEFINE p == checks[c].pair
<1>0. PICK v \in SUBSET ValidEntry, e \in ValidEntry, ps \in [Pairs -> PairStates] :
         Succeeds(c, v, e, ps)
  BY Zenon, SucceedCheckCases
<1>1.    /\ e \in v /\ ValidOnce(v) /\ Sourced(v) /\ locals' \subseteq Locals
         /\ \/ /\ CompleteNomination(v, e)
               /\ CheckComplete(p, ps, valid', checkList',
                         QueueWithout(KeyComp(e.key)),
                         StopRetrying(Without(c), {e.obj}), state')
            \/ /\ valid' = v
               /\ CheckComplete(p, ps, v, checkList, trigQ, Without(c), state)
               /\ UNCHANGED <<state, clState, localEnd, checkList, loop, freeTimer>>
  BY Zenon, <1>0 DEF Succeeds
<1>2. /\ checks \in CheckTable /\ Without(c) \in CheckTable /\ checks[c] # Idle
      /\ UNCHANGED <<made, roleVars, remotes, remoteEnd, resolving, receivers, handlers>>
      /\ pending' = CountDown
  BY Zenon, WithoutType DEF CheckOk, Resumed, SucceedCheck, Inv, TypeOK, CheckTable
<1> HIDE DEF p
<1>3. SUFFICES /\ valid' \subseteq ValidEntry /\ ValidOnce(valid') /\ Sourced(valid')
               /\ checkList' \subseteq Pairs /\ localEnd' \in {"open", "told", "over"}
               /\ clState' \in {"RUNNING", "COMPLETED", "FAILED"}
               /\ state' \in AgentStates /\ freeTimer' \in BOOLEAN
               /\ loop' \in {"idle", "waiting", "woken", "draining", "done"}
               /\ pairState' \in [Pairs -> PairStates]
               /\ trigQ' \subseteq Tasks /\ TicketsApart(trigQ')
               /\ SameChecks(Without(c), checks')
  <2>1. PendingAccounting' /\ pending' \in Nat
    BY Zenon, <1>2, <1>3, PendingDown DEF Inv
  <2>2. checks' \in CheckTable
    BY Zenon, <1>3 DEF SameChecks
  <2>3. TypeOK'
    BY Zenon, <1>1, <1>2, <1>3, <2>1, <2>2 DEF Inv, TypeOK, CheckTable, roleVars
  <2>4. QED BY Zenon, <1>3, <2>1, <2>3 DEF Inv
<1>4. CASE /\ CompleteNomination(v, e)
           /\ CheckComplete(p, ps, valid', checkList', QueueWithout(KeyComp(e.key)),
                            StopRetrying(Without(c), {e.obj}), state')
  <2>1. /\ valid' \subseteq ValidEntry /\ ValidOnce(valid') /\ Sourced(valid')
        /\ checkList' \subseteq Pairs /\ localEnd' \in {"open", "told", "over"}
        /\ clState' \in {"RUNNING", "COMPLETED", "FAILED"}
        /\ state' \in AgentStates /\ freeTimer' \in BOOLEAN
        /\ loop' \in {"idle", "waiting", "woken", "draining", "done"}
    BY Zenon, <1>1, <1>4, CompleteNominationType DEF Inv
  <2>2. QueueWithout(KeyComp(e.key)) \subseteq Tasks
        /\ TicketsApart(QueueWithout(KeyComp(e.key)))
    BY Zenon DEF QueueWithout, Inv, TypeOK, TicketsApart
  <2>3. SameChecks(Without(c), StopRetrying(Without(c), {e.obj}))
    BY Zenon, <1>2, StopRetryingSame
  <2>4. StopRetrying(Without(c), {e.obj}) \in CheckTable
    BY Zenon, <2>3 DEF SameChecks
  <2>5. /\ pairState' \in [Pairs -> PairStates]
        /\ trigQ' \subseteq Tasks /\ TicketsApart(trigQ')
        /\ SameChecks(StopRetrying(Without(c), {e.obj}), checks')
    BY Zenon, <1>4, <2>1, <2>2, <2>4, CheckCompleteType
  <2>6. QED BY Zenon, <2>1, <2>3, <2>5, SameChecksTrans
<1>5. CASE /\ valid' = v
           /\ CheckComplete(p, ps, v, checkList, trigQ, Without(c), state)
           /\ UNCHANGED <<state, clState, localEnd, checkList, loop, freeTimer>>
  <2>1. /\ pairState' \in [Pairs -> PairStates]
        /\ trigQ' \subseteq Tasks /\ TicketsApart(trigQ')
        /\ SameChecks(Without(c), checks')
    BY Zenon, <1>1, <1>2, <1>5, CheckCompleteType DEF Inv, TypeOK
  <2>2. QED BY Zenon, <1>1, <1>5, <2>1 DEF Inv, TypeOK
<1>6. QED BY Zenon, <1>1, <1>4, <1>5

LEMMA ResumesInv == ASSUME Inv, NEW c \in CheckIds, Resumes(c) PROVE Inv'
<1>1. CASE CheckOk(c)
  BY Zenon, <1>1, CheckOkInv
<1>2. CASE CheckFailed(c)
  BY Zenon, <1>2, FailCheckInv DEF CheckFailed, Resumed, roleVars, Inv, TypeOK
<1>3. CASE CheckCancelled(c)
  BY <1>3, CancelCheckInv
<1>4. CASE CheckConflict(c)
  <2>1. controlling' \in BOOLEAN /\ tie' \in Ties
    BY Zenon, <1>4 DEF CheckConflict, Yielded
  <2>2. QED
    BY Zenon, <1>4, <2>1, NextRoundInv, ExhaustCheckInv DEF CheckConflict, Resumed
<1>5. QED BY Zenon, <1>1, <1>2, <1>3, <1>4 DEF Resumes

-----------------------------------------------------------------------------
\* The invariant holds in every behaviour of an ICE agent.

LEMMA InitInv == Init => Inv
<1> SUFFICES ASSUME Init PROVE Inv
  OBVIOUS
<1>1. controlling \in BOOLEAN
  BY Zenon, LimitAssumption DEF Init
<1>2. checks \in CheckTable /\ Active = {}
  BY Zenon DEF Init, CheckTable, Active
<1>3. PendingAccounting
  BY <1>2, LimitAssumption, FS_EmptySet DEF Init, PendingAccounting
<1>4. made \in [Keys -> 0 .. MaxInst] /\ pairState \in [Pairs -> PairStates]
  BY LimitAssumption DEF Init, PairStates
<1>5. handlers \in [HandlerIds -> Handler \cup {Idle}]
  BY Zenon DEF Init
<1>6. TypeOK
  BY Zenon, <1>1, <1>2, <1>4, <1>5 DEF Init, TypeOK, AgentStates, CheckTable
<1>7. QED BY Zenon, <1>3, <1>6 DEF Init, Inv, TicketsApart, ValidOnce, Sourced

\* Steps that leave the checks, the valid list and the queue alone.
LEMMA CandidatesInv == Inv /\ Candidates => Inv'
<1> SUFFICES ASSUME Inv, Candidates PROVE Inv'
  OBVIOUS
<1> USE DEF Inv, Locals, roleVars, candVars, listVars
<1>1. ASSUME TypeOK', UNCHANGED <<checks, pending, valid, trigQ>> PROVE Inv'
  BY Zenon, <1>1 DEF PendingAccounting, Active
<1>2. ASSUME NEW comp \in Components, GatherHosts(comp) PROVE Inv'
  <2> DEFINE H == {h \in Hosts \ Relays : Component[h] = comp}
  <2>1. MakePairs({k \in Keys : k[1] \in H /\ k[2] \in remotes})
    BY Zenon, <1>2 DEF GatherHosts
  <2>2. /\ made' \in [Keys -> 0 .. MaxInst] /\ checkList' \subseteq Pairs
        /\ pairState' \in [Pairs -> PairStates]
    BY Zenon, <2>1, MakePairsType
  <2>3. QED BY Zenon, <1>1, <1>2, <2>2 DEF GatherHosts, TypeOK
<1>3. ASSUME NEW h \in Hosts, SrflxAnswer(h) PROVE Inv'
  <2>1. MakePairs({k \in Keys : k[1] = h /\ k[2] \in remotes})
    BY Zenon, <1>3 DEF SrflxAnswer
  <2>2. /\ made' \in [Keys -> 0 .. MaxInst] /\ checkList' \subseteq Pairs
        /\ pairState' \in [Pairs -> PairStates]
    BY Zenon, <2>1, MakePairsType
  <2>3. QED BY Zenon, <1>1, <1>3, <2>2 DEF SrflxAnswer, TypeOK
<1>4. ASSUME NEW h \in Hosts, GatherRelay(h) PROVE Inv'
  BY Zenon, <1>1, <1>4 DEF GatherRelay, TypeOK
<1>5. ASSUME GatherEnd \/ EndOfRemotes PROVE Inv'
  BY Zenon, <1>1, <1>5 DEF GatherEnd, EndOfRemotes, TypeOK
<1>6. ASSUME NEW r \in Remotes, AddResolved(r), resolving' \subseteq Mdns PROVE Inv'
  <2>1. CASE r \in remotes
    BY Zenon, <1>1, <1>6, <2>1 DEF AddResolved, TypeOK
  <2>2. CASE r \notin remotes
    <3>1. MakePairs({k \in Keys : k[1] \in locals /\ k[2] = r})
      BY Zenon, <1>6, <2>2 DEF AddResolved
    <3>2. /\ made' \in [Keys -> 0 .. MaxInst] /\ checkList' \subseteq Pairs
          /\ pairState' \in [Pairs -> PairStates]
      BY Zenon, <3>1, MakePairsType
    <3>3. QED BY Zenon, <1>1, <1>6, <2>2, <3>2 DEF AddResolved, TypeOK
  <2>3. QED BY Zenon, <2>1, <2>2
<1>7. ASSUME NEW r \in Remotes, AddRemoteCandidate(r) \/ MdnsResolved(r) PROVE Inv'
  BY Zenon, <1>6, <1>7 DEF AddRemoteCandidate, MdnsResolved, TypeOK
<1>8. ASSUME NEW r \in Remotes, AddMdnsCandidate(r) \/ MdnsFailed(r) PROVE Inv'
  BY Zenon, <1>1, <1>8 DEF AddMdnsCandidate, MdnsFailed, TypeOK
<1>9. QED
  BY Zenon, <1>2, <1>3, <1>4, <1>5, <1>7, <1>8 DEF Candidates

LEMMA TurnType ==
    ASSUME Inv, NEW ps \in [Pairs -> PairStates], Turn(ps)
    PROVE  /\ pairState' \in [Pairs -> PairStates]
           /\ trigQ' \subseteq Tasks /\ TicketsApart(trigQ')
           /\ checks' \in CheckTable /\ pending' \in Nat /\ PendingAccounting'
           /\ loop' \in {"waiting", "draining"}
           /\ clState' \in {"RUNNING", "COMPLETED", "FAILED"}
<1> DEFINE ts == ThawIdleFoundations(ps)
<1>1. ts \in [Pairs -> PairStates]
  BY Zenon DEF ThawIdleFoundations, PairStates
<1>2. CASE TriggeredTurn(ps)
  <2>1. PICK t \in trigQ : /\ \A u \in trigQ : t.at <= u.at
                           /\ trigQ' = Pop(t) /\ Perform(t.pair, t.use, ps)
    BY Zenon, <1>2 DEF TriggeredTurn
  <2>2. t.pair \in Pairs /\ t.use \in BOOLEAN
    BY Zenon DEF Inv, TypeOK, Tasks
  <2>3. trigQ' \subseteq Tasks /\ TicketsApart(trigQ')
    BY Zenon, <2>1, PopType
  <2>4. QED
    BY Zenon, <1>2, <2>1, <2>2, <2>3, PerformType DEF TriggeredTurn, Inv, TypeOK
<1>3. CASE OrdinaryTurn(ps)
  <2>1. PICK p \in Waiting(ts) : Perform(p, FALSE, ts)
    BY Zenon, <1>3 DEF OrdinaryTurn
  <2>2. p \in Pairs
    BY Zenon DEF Waiting, Inv, TypeOK
  <2>3. QED
    BY Zenon, <1>1, <1>3, <2>1, <2>2, PerformType DEF OrdinaryTurn, Inv, TypeOK
<1>4. CASE IdleTurn(ps)
  <2>1. pairState' \in [Pairs -> PairStates]
    BY Zenon, <1>1, <1>4 DEF IdleTurn
  <2>2. checks \in CheckTable
    BY Zenon DEF Inv, TypeOK, CheckTable
  <2>3. SameChecks(checks, checks')
    <3>1. CASE UNCHANGED checks
      BY Zenon, <2>2, <3>1 DEF SameChecks
    <3>2. CASE LeaveLoop
      BY Zenon, <2>2, <3>2, StoppedSame DEF LeaveLoop
    <3>3. QED BY Zenon, <1>4, <3>1, <3>2 DEF IdleTurn
  <2>4. PendingAccounting' /\ pending' \in Nat
    BY Zenon, <1>4, <2>3, PendingKept DEF IdleTurn, Inv, TypeOK
  <2>5. QED
    BY Zenon, <1>4, <2>1, <2>3, <2>4 DEF IdleTurn, LeaveLoop, SameChecks, Inv, TypeOK
<1>5. QED BY Zenon, <1>2, <1>3, <1>4 DEF Turn

LEMMA LoopInv == Inv /\ (Connect \/ Tick \/ Woken \/ Drained) => Inv'
<1> SUFFICES ASSUME Inv, Connect \/ Tick \/ Woken \/ Drained PROVE Inv'
  OBVIOUS
<1> USE DEF roleVars, candVars, listVars
<1>0. pairState \in [Pairs -> PairStates] /\ checks \in CheckTable
  BY Zenon DEF Inv, TypeOK, CheckTable
<1>1. CASE Connect
  <2>2. PICK U \in Topmost : Turn(UnfreezeInitial(U))
    BY Zenon, <1>1 DEF Connect
  <2>1. UnfreezeInitial(U) \in [Pairs -> PairStates]
    BY Zenon, <1>0 DEF UnfreezeInitial, PairStates
  <2>3. TypeOK'
    BY Zenon, <1>1, <2>1, <2>2, TurnType
    DEF Connect, SetState, Inv, TypeOK, AgentStates, CheckTable
  <2>4. QED
    BY Zenon, <1>1, <2>1, <2>2, <2>3, TurnType DEF Connect, Inv
<1>2. CASE Tick
  <2>1. TypeOK'
    BY Zenon, <1>0, <1>2, TurnType DEF Tick, Inv, TypeOK, CheckTable
  <2>2. QED
    BY Zenon, <1>0, <1>2, <2>1, TurnType DEF Tick, Inv
<1>3. CASE Woken
  <2>1. SameChecks(checks, checks')
    BY Zenon, <1>0, <1>3, StoppedSame DEF Woken, LeaveLoop
  <2>2. PendingAccounting'
    BY Zenon, <1>3, <2>1, PendingKept DEF Woken, Inv
  <2>3. QED
    BY Zenon, <1>3, <2>1, <2>2 DEF Woken, LeaveLoop, SameChecks, Inv, TypeOK, CheckTable
<1>4. CASE Drained
  <2>1. TypeOK'
    BY Zenon, <1>4 DEF Drained, Inv, TypeOK
  <2>2. QED
    BY Zenon, <1>4, <2>1 DEF Drained, Inv, PendingAccounting, Active
<1>5. QED BY Zenon, <1>1, <1>2, <1>3, <1>4

LEMMA WaitsInv == ASSUME Inv, NEW c \in CheckIds, Waits(c) PROVE Inv'
<1>1. PICK f \in {"perm", "sched", "retry", "quiet", "ending"}, r \in Results :
         checks[c] # Idle /\ Move(c, f, r)
  BY Zenon, LimitAssumption DEF Waits, PermissionGranted, TransactionRun, GiveUp, Answer,
     Undecided, Results
<1>2. SameChecks(checks, checks')
  BY Zenon, <1>1, MoveSame DEF Move, Inv, TypeOK, CheckTable
<1>3. PendingAccounting'
  BY Zenon, <1>1, <1>2, PendingKept DEF Move, Inv
<1>4. QED
  BY Zenon, <1>1, <1>2, <1>3
  DEF Move, SameChecks, Inv, TypeOK, CheckTable, roleVars, candVars, listVars

LEMMA RequestProceedsInv ==
    ASSUME Inv, NEW h \in HandlerIds, RequestProceeds(h)
    PROVE  Inv'
<1> DEFINE q == handlers[h]
           k == <<q.local, q.remote>>
           use == Nominates(q)
           Listed == {p \in checkList : KeyOf(p) = k}
<1>1. /\ q \in Handler /\ k \in Keys /\ use \in BOOLEAN
      /\ remotes' \subseteq Remotes /\ handlers' \in [HandlerIds -> Handler \cup {Idle}]
      /\ UNCHANGED <<roleVars, locals, remoteEnd, resolving, receivers, pending>>
  BY Zenon DEF RequestProceeds, Return, Nominates, Inv, TypeOK, Handler
<1>2. /\ checks \in CheckTable /\ SameChecks(checks, checks)
      /\ pairState \in [Pairs -> PairStates] /\ checkList \subseteq Pairs
  BY Zenon DEF Inv, TypeOK, CheckTable, SameChecks
<1>3. SUFFICES /\ valid' \subseteq ValidEntry /\ ValidOnce(valid') /\ Sourced(valid')
               /\ checkList' \subseteq Pairs /\ localEnd' \in {"open", "told", "over"}
               /\ clState' \in {"RUNNING", "COMPLETED", "FAILED"}
               /\ state' \in AgentStates /\ freeTimer' \in BOOLEAN
               /\ loop' \in {"idle", "waiting", "woken", "draining", "done"}
               /\ pairState' \in [Pairs -> PairStates]
               /\ made' \in [Keys -> 0 .. MaxInst]
               /\ trigQ' \subseteq Tasks /\ TicketsApart(trigQ')
               /\ SameChecks(checks, checks')
  <2>1. PendingAccounting'
    BY Zenon, <1>1, <1>3, PendingKept DEF Inv
  <2>2. checks' \in CheckTable
    BY Zenon, <1>3 DEF SameChecks
  <2>3. TypeOK'
    BY Zenon, <1>1, <1>3, <2>2 DEF Inv, TypeOK, CheckTable, roleVars
  <2>4. QED BY Zenon, <1>3, <2>1, <2>3 DEF Inv
<1>4. ASSUME NEW p \in Listed, TriggerSucceeded(p, use) PROVE <1>3!1
  <2>1. CASE UNCHANGED <<valid, checkList, localEnd, state, clState, loop, freeTimer,
                         trigQ, checks>>
    BY Zenon, <1>2, <1>4, <2>1 DEF TriggerSucceeded, Inv, TypeOK
  <2>2. ASSUME NEW e \in valid, CompleteNomination(valid, e),
               trigQ' = QueueWithout(KeyComp(e.key)),
               checks' = StopRetrying(checks, {e.obj})
        PROVE  <1>3!1
    <3>1. trigQ' \subseteq Tasks /\ TicketsApart(trigQ')
      BY Zenon, <2>2 DEF QueueWithout, Inv, TypeOK, TicketsApart
    <3>2. SameChecks(checks, checks')
      BY Zenon, <1>2, <2>2, StopRetryingSame
    <3>3. UNCHANGED <<pairState, made>>
      BY Zenon, <1>4 DEF TriggerSucceeded
    <3>4. QED
      BY Zenon, <1>2, <2>2, <3>1, <3>2, <3>3, CompleteNominationType DEF Inv, TypeOK
  <2>3. QED BY Zenon, <1>4, <2>1, <2>2 DEF TriggerSucceeded
<1>5. ASSUME NEW p \in Listed, TriggerInProgress(p, use) PROVE <1>3!1
  <2>1. p \in Pairs
    BY Zenon, <1>2
  <2>2. trigQ' \subseteq Tasks /\ TicketsApart(trigQ')
    BY Zenon, <1>1, <1>5, <2>1, EnqueueType DEF TriggerInProgress
  <2>3. SameChecks(checks, checks')
    BY Zenon, <1>2, <1>5, StopRetryingSame DEF TriggerInProgress
  <2>4. pairState' \in [Pairs -> PairStates]
    BY Zenon, <1>2, <1>5, <2>1 DEF TriggerInProgress, PairStates
  <2>5. QED
    BY Zenon, <1>5, <2>2, <2>3, <2>4 DEF TriggerInProgress, Inv, TypeOK
<1>6. ASSUME NEW p \in Listed, TriggerUnchecked(p, use) PROVE <1>3!1
  <2>1. p \in Pairs
    BY <1>2
  <2>2. trigQ' \subseteq Tasks /\ TicketsApart(trigQ')
    BY Zenon, <1>1, <1>6, <2>1, EnqueueType DEF TriggerUnchecked, Inv, TypeOK
  <2>3. pairState' \in [Pairs -> PairStates]
    BY Zenon, <1>2, <1>6, <2>1 DEF TriggerUnchecked, PairStates
  <2>4. SameChecks(checks, checks')
    BY Zenon, <1>2, <1>6 DEF TriggerUnchecked
  <2>5. QED
    BY Zenon, <1>6, <2>2, <2>3, <2>4 DEF TriggerUnchecked, Inv, TypeOK
<1>7. ASSUME TriggerNew(k, use), k \in Keys PROVE <1>3!1
  <2>1. NewPair(k) \in Pairs
    <3>1. made \in [Keys -> 0 .. MaxInst] /\ made[k] < MaxInst
      BY Zenon, <1>7 DEF TriggerNew, Inv, TypeOK
    <3>2. made[k] + 1 \in 1 .. MaxInst
      BY <1>7, <3>1, LimitAssumption
    <3>3. QED BY Zenon, <1>7, <3>2 DEF NewPair, Pairs
  <2>2. trigQ' \subseteq Tasks /\ TicketsApart(trigQ')
    BY Zenon, <1>1, <1>7, <2>1, EnqueueType DEF TriggerNew
  <2>3. /\ pairState' \in [Pairs -> PairStates] /\ checkList' \subseteq Pairs
        /\ made' \in [Keys -> 0 .. MaxInst]
    <3>1. made \in [Keys -> 0 .. MaxInst] /\ made[k] < MaxInst
      BY Zenon, <1>7 DEF TriggerNew, Inv, TypeOK
    <3>2. made' \in [Keys -> 0 .. MaxInst]
      BY SMTT(30), <1>7, <3>1, LimitAssumption DEF TriggerNew
    <3>3. QED BY Zenon, <1>2, <1>7, <2>1, <3>2 DEF TriggerNew, PairStates
  <2>4. SameChecks(checks, checks')
    BY Zenon, <1>2, <1>7 DEF TriggerNew
  <2>5. QED
    BY Zenon, <1>7, <2>2, <2>3, <2>4 DEF TriggerNew, Inv, TypeOK
<1>8. QED
  BY Zenon, <1>1, <1>4, <1>5, <1>6, <1>7 DEF RequestProceeds

LEMMA InboundInv == ASSUME Inv, NEW h \in HandlerIds, Inbound(h) PROVE Inv'
<1> USE DEF roleVars, candVars, listVars
<1>1. ASSUME TypeOK', UNCHANGED <<checks, pending, valid, trigQ>> PROVE Inv'
  BY Zenon, <1>1 DEF Inv, PendingAccounting, Active
<1>2. ASSUME NEW l \in Hosts, NEW r \in Remotes, NEW use \in BOOLEAN,
             NEW role \in BOOLEAN, NEW t \in Ties,
             <<l, r>> \in Keys, Request(h, l, r, use, role, t)
      PROVE  Inv'
  <2> DEFINE q == [phase |-> "resp", local |-> l, remote |-> r, use |-> use]
  <2>1. q \in Handler
    BY Zenon, <1>2 DEF Handler
  <2>2. handlers' \in [HandlerIds -> Handler \cup {Idle}]
    BY Zenon, <1>2, <2>1 DEF Request, Inv, TypeOK
  <2>3. controlling' \in BOOLEAN
    BY Zenon, <1>2 DEF Request
  <2>4. QED BY Zenon, <1>1, <1>2, <2>2, <2>3 DEF Request, Inv, TypeOK
<1>3. CASE RequestWaits(h)
  <2> DEFINE q == [handlers[h] EXCEPT !.phase = "early"]
  <2>1. handlers[h] \in Handler
    BY <1>3 DEF RequestWaits, Inv, TypeOK, Idle
  <2>2. q \in Handler
    BY Zenon, <2>1 DEF Handler
  <2>3. handlers' \in [HandlerIds -> Handler \cup {Idle}]
    BY Zenon, <1>3, <2>2 DEF RequestWaits, Inv, TypeOK
  <2>4. QED BY Zenon, <1>1, <1>3, <2>3 DEF RequestWaits, Inv, TypeOK
<1>4. CASE RequestLate(h)
  BY Zenon, <1>1, <1>4 DEF RequestLate, Return, Inv, TypeOK
<1>5. CASE RequestProceeds(h)
  BY <1>5, RequestProceedsInv
<1>6. QED BY Zenon, <1>2, <1>3, <1>4, <1>5 DEF Inbound

LEMMA EndInv == Inv /\ (FreeCandidates \/ Close) => Inv'
<1> SUFFICES ASSUME Inv, FreeCandidates \/ Close PROVE Inv'
  OBVIOUS
<1> USE DEF roleVars, candVars
<1>1. CASE FreeCandidates
  <2>1. valid' \subseteq ValidEntry /\ ValidOnce(valid') /\ Sourced(valid')
    <3> DEFINE cleared(e) == [e EXCEPT !.source = NoPair]
    <3>1. valid' = {cleared(e) : e \in Kept} /\ Kept \subseteq valid
          /\ \A e \in Kept : e.nominated
      BY Zenon, <1>1 DEF FreeCandidates, Kept
    <3>2. \A e \in ValidEntry : /\ cleared(e) \in ValidEntry
                                /\ cleared(e).key = e.key
                                /\ cleared(e).nominated = e.nominated
      BY Zenon DEF ValidEntry
    <3> HIDE DEF cleared
    <3>3. QED BY <3>1, <3>2 DEF ValidOnce, Sourced, Inv, TypeOK
  <2>2. TypeOK'
    BY Zenon, <1>1, <2>1 DEF FreeCandidates, Inv, TypeOK
  <2>3. QED
    BY Zenon, <1>1, <2>1, <2>2
    DEF FreeCandidates, Inv, TicketsApart, PendingAccounting, Active
<1>2. CASE Close
  <2>1. SameChecks(checks, checks')
    BY Zenon, <1>2, StopRetryingSame DEF Close, Inv, TypeOK, CheckTable
  <2>2. PendingAccounting'
    BY Zenon, <1>2, <2>1, PendingKept DEF Close, Inv
  <2>3. TypeOK'
    BY Zenon, <1>2, <2>1
    DEF Close, SetState, WokenLoop, SameChecks, CheckTable, Inv, TypeOK, AgentStates
  <2>4. QED
    BY Zenon, <1>2, <2>2, <2>3 DEF Close, Inv, TicketsApart, ValidOnce, Sourced
<1>3. QED BY Zenon, <1>1, <1>2

\* The invariant holds of every behaviour: pairs made and checked in any order,
\* checks ended on every path of do_check, requests and close() at any time.
THEOREM Invariance == Spec => []Inv
<1>1. Inv /\ [Next]_vars => Inv'
  <2> SUFFICES ASSUME Inv, [Next]_vars PROVE Inv'
    OBVIOUS
  <2>1. CASE Candidates
    BY Zenon, <2>1, CandidatesInv
  <2>2. CASE Connect \/ Tick \/ Woken \/ Drained
    BY Zenon, <2>2, LoopInv
  <2>3. CASE \E c \in CheckIds : Waits(c) \/ Resumes(c)
    BY Zenon, <2>3, WaitsInv, ResumesInv
  <2>4. CASE \E h \in HandlerIds : Inbound(h)
    BY Zenon, <2>4, InboundInv
  <2>5. CASE FreeCandidates \/ Close
    BY Zenon, <2>5, EndInv
  <2>6. CASE UNCHANGED vars
    BY Zenon, <2>6 DEF vars, roleVars, candVars, listVars, Inv, TypeOK, PendingAccounting,
       Active
  <2>7. QED BY Zenon, <2>1, <2>2, <2>3, <2>4, <2>5, <2>6 DEF Next
<1>2. QED BY <1>1, InitInv, PTL DEF Spec

\* Every variable keeps its type: the table of running checks, the pair states
\* and the queue through every path of do_check and do_handle_request.
THEOREM TypeCorrect == Spec => []TypeOK
BY Invariance, PTL DEF Inv

\* _pending_check_count is exact and within max_pending_check_count on every
\* path out of do_check, for any number of checks.
THEOREM PendingExact == Spec => []PendingAccounting
BY Invariance, PTL DEF Inv

\* default_nominate never meets an entry without a source that it could pick.
THEOREM SourceNeverLost == Spec => []SourcePresent
<1>1. Inv => SourcePresent
  BY Zenon DEF Inv, Sourced, SourcePresent
<1>2. QED BY <1>1, Invariance, PTL

-----------------------------------------------------------------------------
(* The safety properties of the checklist and of nomination.  Given the    *)
(* invariant, each step preserves them.                                    *)

\* NominatedUnique and FailedPairNotValid of a valid list v, with pair states ps.
Unique(v) == \A e, f \in v : e.nominated /\ f.nominated
                             /\ KeyComp(e.key) = KeyComp(f.key) => e = f
Alive(v, ps) == \A e \in v : e.source # NoPair => ps[e.source] # "FAILED"

\* The properties together: each step preserves them given the invariant.
Safe == NominatedUnique /\ FailedPairNotValid /\ InProgressHasCheck

\* No pair enters In-Progress or Failed.
NoPairStarts == \A p \in Pairs : pairState'[p] = "IN_PROGRESS" => pairState[p] = "IN_PROGRESS"
NoPairFails == \A p \in Pairs : pairState'[p] = "FAILED" => pairState[p] = "FAILED"

-----------------------------------------------------------------------------
LEMMA SafeParts == Safe <=> /\ Unique(valid) /\ Alive(valid, pairState)
                            /\ InProgressHasCheck
BY Zenon DEF Safe, NominatedUnique, FailedPairNotValid, Unique, Alive

LEMMA SafePartsNext == Safe' <=> /\ Unique(valid') /\ Alive(valid', pairState')
                                 /\ InProgressHasCheck'
BY Zenon DEF Safe, NominatedUnique, FailedPairNotValid, Unique, Alive

\* The same checks are running and no pair starts.
LEMMA InProgressKept ==
    ASSUME InProgressHasCheck, SameChecks(checks, checks'), NoPairStarts
    PROVE  InProgressHasCheck'
<1> SUFFICES ASSUME NEW p \in Pairs, pairState'[p] = "IN_PROGRESS"
             PROVE  \E c \in Active' : checks'[c].pair = p
  BY Zenon DEF InProgressHasCheck
<1>1. PICK c \in Active : checks[c].pair = p
  BY Zenon DEF InProgressHasCheck, NoPairStarts
<1>2. c \in Active' /\ checks'[c].pair = p
  BY Zenon, <1>1 DEF SameChecks, Active
<1>3. QED BY Zenon, <1>2

\* A check ends: a pair that stays In-Progress has another one.
LEMMA InProgressDown ==
    ASSUME Inv, InProgressHasCheck, NEW c \in CheckIds, SameChecks(Without(c), checks'),
           NoPairStarts,
           pairState'[checks[c].pair] = "IN_PROGRESS" =>
               \E d \in Active \ {c} : checks[d].pair = checks[c].pair
    PROVE  InProgressHasCheck'
<1> SUFFICES ASSUME NEW p \in Pairs, pairState'[p] = "IN_PROGRESS"
             PROVE  \E d \in Active' : checks'[d].pair = p
  BY Zenon DEF InProgressHasCheck
<1>1. PICK d \in Active \ {c} : checks[d].pair = p
  BY Zenon DEF InProgressHasCheck, NoPairStarts
<1>2. d \in CheckIds /\ Without(c)[d] = checks[d] /\ checks[d] # Idle
  BY Zenon, <1>1 DEF Without, Active, Inv, TypeOK
<1>3. d \in Active' /\ checks'[d].pair = p
  BY Zenon, <1>1, <1>2 DEF SameChecks, Active
<1>4. QED BY Zenon, <1>3

\* set_nominated refuses a component that has a nominated pair.
LEMMA NominateUnique ==
    ASSUME NEW v \in SUBSET ValidEntry, Unique(v), NEW e \in v, MayNominate(v, e)
    PROVE  Unique(Nominated(v, e))
<1> DEFINE n == [e EXCEPT !.nominated = TRUE]
<1>1. n.key = e.key
  BY Zenon DEF ValidEntry
<1>2. Nominated(v, e) = (v \ {e}) \cup {n}
  BY Zenon DEF Nominated
<1>3. \A f \in v : f.nominated => KeyComp(f.key) # KeyComp(e.key)
  BY Zenon DEF MayNominate, HasNominated
<1> HIDE DEF n
<1>4. QED BY Zenon, <1>1, <1>2, <1>3 DEF Unique

\* Nomination changes no source.
LEMMA NominateAlive ==
    ASSUME NEW v \in SUBSET ValidEntry, NEW ps, Alive(v, ps), NEW e \in v
    PROVE  Alive(Nominated(v, e), ps)
<1> DEFINE n == [e EXCEPT !.nominated = TRUE]
<1>1. n.source = e.source
  BY Zenon DEF ValidEntry
<1>2. Nominated(v, e) = (v \ {e}) \cup {n}
  BY Zenon DEF Nominated
<1> HIDE DEF n
<1>3. QED BY Zenon, <1>1, <1>2 DEF Alive

\* check_complete only puts pairs back to Waiting, and starts and fails none.
LEMMA CheckCompleteStates ==
    ASSUME NEW p, NEW ps \in [Pairs -> PairStates], NEW v, NEW cl, NEW q, NEW cs, NEW st,
           CheckComplete(p, ps, v, cl, q, cs, st)
    PROVE  \A x \in Pairs : pairState'[x] = "WAITING" \/ pairState'[x] = ps[x]
<1>1. PICK T \in SUBSET v : Renew(T, p, ps, cl, q, cs)
  BY Zenon, CheckCompletePicks
<1>2. QED BY Zenon, <1>1 DEF Renew

LEMMA AliveKept ==
    ASSUME Inv, NEW v \in SUBSET ValidEntry, NEW ps, Alive(v, ps),
           \A x \in Pairs : pairState'[x] = "WAITING" \/ pairState'[x] = ps[x]
    PROVE  Alive(v, pairState')
BY Zenon DEF Alive, ValidEntry

\* Pairing makes pairs that are neither In-Progress nor Failed.
LEMMA MakePairsStates ==
    ASSUME TypeOK, NEW K \in SUBSET Keys, MakePairs(K)
    PROVE  NoPairStarts /\ NoPairFails
BY Zenon DEF MakePairs, NoPairStarts, NoPairFails

\* A step that neither starts nor fails a pair, ends no check and adds nothing
\* to the valid list.
LEMMA QuietStep ==
    ASSUME Inv, Safe, SameChecks(checks, checks'), NoPairStarts, NoPairFails,
           valid' \subseteq valid
    PROVE  Safe'
<1>1. Unique(valid')
  BY Zenon, SafeParts DEF Unique
<1>2. Alive(valid', pairState')
  BY Zenon, SafeParts DEF Alive, NoPairFails, Inv, TypeOK, ValidEntry
<1>3. InProgressHasCheck'
  BY Zenon, SafeParts, InProgressKept
<1>4. QED BY Zenon, <1>1, <1>2, <1>3, SafePartsNext

LEMMA CandidatesSafe == Inv /\ Safe /\ Candidates => Safe'
<1> SUFFICES ASSUME Inv, Safe, Candidates PROVE Safe'
  OBVIOUS
<1>1. valid' \subseteq valid /\ SameChecks(checks, checks')
  BY Zenon DEF Candidates, GatherHosts, SrflxAnswer, GatherRelay, GatherEnd, EndOfRemotes,
     AddRemoteCandidate, AddMdnsCandidate, MdnsResolved, MdnsFailed, AddResolved,
     SameChecks, Inv, TypeOK, CheckTable
<1>2. UNCHANGED pairState \/ \E K \in SUBSET Keys : MakePairs(K)
  <2>1. ASSUME NEW comp \in Components, GatherHosts(comp)
        PROVE  \E K \in SUBSET Keys : MakePairs(K)
    <3> DEFINE H == {h \in Hosts \ Relays : Component[h] = comp}
    <3>1. MakePairs({k \in Keys : k[1] \in H /\ k[2] \in remotes})
      BY Zenon, <2>1 DEF GatherHosts
    <3>2. QED BY Zenon, <3>1
  <2>2. ASSUME NEW h \in Hosts, SrflxAnswer(h)
        PROVE  \E K \in SUBSET Keys : MakePairs(K)
    BY Zenon, <2>2 DEF SrflxAnswer
  <2>3. ASSUME NEW r \in Remotes, AddResolved(r)
        PROVE  UNCHANGED pairState \/ \E K \in SUBSET Keys : MakePairs(K)
    BY Zenon, <2>3 DEF AddResolved, listVars
  <2>4. QED
    BY Zenon, <2>1, <2>2, <2>3
    DEF Candidates, GatherRelay, GatherEnd, EndOfRemotes, AddRemoteCandidate,
        AddMdnsCandidate, MdnsResolved, MdnsFailed, listVars
<1>3. NoPairStarts /\ NoPairFails
  BY Zenon, <1>2, MakePairsStates DEF NoPairStarts, NoPairFails, Inv
<1>4. QED BY Zenon, <1>1, <1>3, QuietStep

\* A turn of the loop starts at most one pair, with a check of its own.
LEMMA TurnSafe ==
    ASSUME Inv, Safe, NEW ps \in [Pairs -> PairStates], Turn(ps), UNCHANGED valid,
           \A x \in Pairs : ps[x] = "WAITING" \/ ps[x] = pairState[x]
    PROVE  Safe'
<1> DEFINE ts == ThawIdleFoundations(ps)
<1>0. checks \in CheckTable
  BY Zenon DEF Inv, TypeOK, CheckTable
<1>1. /\ ts \in [Pairs -> PairStates]
      /\ \A x \in Pairs : ts[x] = "WAITING" \/ ts[x] = pairState[x]
  BY Zenon DEF ThawIdleFoundations, PairStates
<1>2. ASSUME NEW p \in Pairs, NEW use, NEW us \in [Pairs -> PairStates],
             \A x \in Pairs : us[x] = "WAITING" \/ us[x] = pairState[x],
             Perform(p, use, us)
      PROVE  Safe'
  <2>1. CASE ~MayPerform
    <3>1. NoPairStarts /\ NoPairFails /\ SameChecks(checks, checks')
      BY Zenon, <1>0, <1>2, <2>1 DEF Perform, NoPairStarts, NoPairFails, SameChecks
    <3>2. QED BY Zenon, <3>1, QuietStep
  <2>2. CASE MayPerform
    <3>1. pairState' = [us EXCEPT ![p] = "IN_PROGRESS"]
      BY Zenon, <1>2, <2>2 DEF Perform
    <3>2. PICK c \in CheckIds \ Active, f \in FirstPhases(p) :
             checks' = [checks EXCEPT ![c] =
                     [phase |-> f, pair |-> p, use |-> use \/ RemoteLite,
                      role |-> controlling, tie |-> tie, round |-> 1,
                      result |-> "none"]]
      BY Zenon, <1>2, <2>2 DEF Perform
    <3> DEFINE k == [phase |-> f, pair |-> p, use |-> use \/ RemoteLite,
                     role |-> controlling, tie |-> tie, round |-> 1,
                     result |-> "none"]
    <3>3. k # Idle /\ k.pair = p /\ checks' = [checks EXCEPT ![c] = k]
      BY Zenon, <3>2 DEF Idle, FirstPhases
    <3> HIDE DEF k
    <3>4. InProgressHasCheck'
      <4> SUFFICES ASSUME NEW x \in Pairs, pairState'[x] = "IN_PROGRESS"
                   PROVE  \E d \in Active' : checks'[d].pair = x
        BY Zenon DEF InProgressHasCheck
      <4>1. CASE x = p
        BY Zenon, <1>0, <3>3, <4>1 DEF Active, CheckTable
      <4>2. CASE x # p
        <5>1. pairState[x] = "IN_PROGRESS"
          BY Zenon, <1>2, <3>1, <4>2
        <5>2. PICK d \in Active : checks[d].pair = x
          BY Zenon, <5>1 DEF Safe, InProgressHasCheck
        <5>3. QED BY Zenon, <1>0, <3>3, <5>2 DEF Active, CheckTable
      <4>3. QED BY Zenon, <4>1, <4>2
    <3>5. Alive(valid', pairState')
      <4>1. NoPairFails
        BY Zenon, <1>2, <3>1 DEF NoPairFails
      <4>2. QED BY Zenon, <4>1, SafeParts DEF Alive, NoPairFails, Inv, TypeOK, ValidEntry
    <3>6. QED BY Zenon, <3>4, <3>5, SafeParts, SafePartsNext
  <2>3. QED BY Zenon, <2>1, <2>2
<1>3. CASE TriggeredTurn(ps)
  <2>1. PICK t \in trigQ : Perform(t.pair, t.use, ps)
    BY Zenon, <1>3 DEF TriggeredTurn
  <2>2. t.pair \in Pairs
    BY Zenon DEF Inv, TypeOK, Tasks
  <2>3. QED BY Zenon, <1>2, <2>1, <2>2
<1>4. CASE OrdinaryTurn(ps)
  <2>1. PICK p \in Waiting(ts) : Perform(p, FALSE, ts)
    BY Zenon, <1>4 DEF OrdinaryTurn
  <2>2. p \in Pairs
    BY Zenon DEF Waiting, Inv, TypeOK
  <2> HIDE DEF ts
  <2>3. QED BY Zenon, <1>1, <1>2, <2>1, <2>2
<1>5. CASE IdleTurn(ps)
  <2>1. NoPairStarts /\ NoPairFails
    BY Zenon, <1>1, <1>5 DEF IdleTurn, NoPairStarts, NoPairFails
  <2>2. SameChecks(checks, checks')
    <3>1. CASE UNCHANGED checks
      BY Zenon, <1>0, <3>1 DEF SameChecks
    <3>2. CASE LeaveLoop
      BY Zenon, <1>0, <3>2, StoppedSame DEF LeaveLoop
    <3>3. QED BY Zenon, <1>5, <3>1, <3>2 DEF IdleTurn
  <2>3. QED BY Zenon, <2>1, <2>2, QuietStep
<1>6. QED BY Zenon, <1>3, <1>4, <1>5 DEF Turn

LEMMA LoopSafe == Inv /\ Safe /\ (Connect \/ Tick \/ Woken \/ Drained) => Safe'
<1> SUFFICES ASSUME Inv, Safe, Connect \/ Tick \/ Woken \/ Drained PROVE Safe'
  OBVIOUS
<1>0. pairState \in [Pairs -> PairStates] /\ checks \in CheckTable
  BY Zenon DEF Inv, TypeOK, CheckTable
<1>1. CASE Connect
  <2>2. PICK U \in Topmost : Turn(UnfreezeInitial(U)) /\ UNCHANGED valid
    BY Zenon, <1>1 DEF Connect
  <2>1. /\ UnfreezeInitial(U) \in [Pairs -> PairStates]
        /\ \A x \in Pairs : \/ UnfreezeInitial(U)[x] = "WAITING"
                            \/ UnfreezeInitial(U)[x] = pairState[x]
    BY Zenon, <1>0 DEF UnfreezeInitial, PairStates
  <2>3. QED BY Zenon, <2>1, <2>2, TurnSafe
<1>2. CASE Tick
  BY Zenon, <1>0, <1>2, TurnSafe DEF Tick
<1>3. CASE Woken
  <2>1. SameChecks(checks, checks')
    BY Zenon, <1>0, <1>3, StoppedSame DEF Woken, LeaveLoop
  <2>2. QED
    BY Zenon, <1>3, <2>1, QuietStep DEF Woken, listVars, NoPairStarts, NoPairFails
<1>4. CASE Drained
  <2>1. SameChecks(checks, checks')
    BY Zenon, <1>0, <1>4 DEF Drained, SameChecks
  <2>2. QED
    BY Zenon, <1>4, <2>1, QuietStep DEF Drained, listVars, NoPairStarts, NoPairFails
<1>5. QED BY Zenon, <1>1, <1>2, <1>3, <1>4

-----------------------------------------------------------------------------
\* The steps of the checks, of the answers and of the inbound requests.

LEMMA WaitsSafe == ASSUME Inv, Safe, NEW c \in CheckIds, Waits(c) PROVE Safe'
<1>1. PICK f \in {"perm", "sched", "retry", "quiet", "ending"}, r \in Results :
         checks[c] # Idle /\ Move(c, f, r)
  BY Zenon, LimitAssumption DEF Waits, PermissionGranted, TransactionRun, GiveUp, Answer,
     Undecided, Results
<1>2. SameChecks(checks, checks')
  BY Zenon, <1>1, MoveSame DEF Move, Inv, TypeOK, CheckTable
<1>3. QED
  BY Zenon, <1>1, <1>2, QuietStep DEF Move, listVars, NoPairStarts, NoPairFails

\* The failed pair is the only one that fails, and nothing it made valid stays.
LEMMA FailCheckSafe ==
    ASSUME Inv, Safe, NEW c \in CheckIds, checks[c] # Idle, FailCheck(c)
    PROVE  Safe'
<1> DEFINE p == checks[c].pair
<1>1. checks \in CheckTable /\ p \in Pairs /\ pairState \in [Pairs -> PairStates]
  BY Zenon, ActiveCheck DEF Inv, TypeOK, CheckTable
<1>2. /\ pairState' = [pairState EXCEPT ![p] = "FAILED"]
      /\ valid' = {e \in valid : e.source # p} /\ checks' = Without(c)
  BY Zenon DEF FailCheck, EraseValid
<1>3. InProgressHasCheck'
  BY Zenon, <1>1, <1>2, WithoutType, InProgressDown DEF NoPairStarts, Safe
<1>4. Alive(valid', pairState')
  BY Zenon, <1>1, <1>2, SafeParts DEF Alive, Inv, TypeOK, ValidEntry
<1>5. Unique(valid')
  BY Zenon, <1>2, SafeParts DEF Unique
<1>6. QED BY Zenon, <1>3, <1>4, <1>5, SafePartsNext

LEMMA CancelCheckSafe ==
    ASSUME Inv, Safe, NEW c \in CheckIds, CheckCancelled(c)
    PROVE  Safe'
<1> DEFINE p == checks[c].pair
<1>1. checks \in CheckTable /\ p \in Pairs /\ pairState \in [Pairs -> PairStates]
  BY Zenon, ActiveCheck DEF CheckCancelled, Resumed, Inv, TypeOK, CheckTable
<1>2. /\ pairState' = [pairState EXCEPT ![p] =
             IF @ = "IN_PROGRESS" /\ OthersOf(c) = {} THEN "WAITING" ELSE @]
      /\ UNCHANGED valid /\ checks' = Without(c)
  BY Zenon DEF CheckCancelled, CancelCheck
<1>3. NoPairStarts /\ NoPairFails
  BY Zenon, <1>1, <1>2 DEF NoPairStarts, NoPairFails
<1>4. pairState'[p] = "IN_PROGRESS" => \E d \in Active \ {c} : checks[d].pair = p
  BY Zenon, <1>1, <1>2 DEF OthersOf
<1>5. InProgressHasCheck'
  BY Zenon, <1>1, <1>2, <1>3, <1>4, WithoutType, InProgressDown DEF Safe
<1>6. Alive(valid', pairState')
  BY Zenon, <1>2, <1>3, SafeParts DEF Alive, NoPairFails, Inv, TypeOK, ValidEntry
<1>7. QED BY Zenon, <1>2, <1>5, <1>6, SafeParts, SafePartsNext

LEMMA NextRoundSafe ==
    ASSUME Inv, Safe, NEW c \in CheckIds, checks[c] # Idle, NextRound(c),
           controlling' \in BOOLEAN, tie' \in Ties
    PROVE  Safe'
<1>1. SameChecks(checks, checks')
  BY Zenon, NextRoundSame
<1>2. QED
  BY Zenon, <1>1, QuietStep DEF NextRound, listVars, NoPairStarts, NoPairFails

LEMMA ExhaustCheckSafe ==
    ASSUME Inv, Safe, NEW c \in CheckIds, checks[c] # Idle, ExhaustCheck(c)
    PROVE  Safe'
<1> DEFINE p == checks[c].pair
<1>1. checks \in CheckTable /\ Without(c) \in CheckTable /\ p \in Pairs
      /\ pairState \in [Pairs -> PairStates]
  BY Zenon, WithoutType, ActiveCheck DEF Inv, TypeOK, CheckTable
<1>2. CASE pairState[p] # "SUCCEEDED"
  BY Zenon, <1>2, FailCheckSafe DEF ExhaustCheck
<1>3. CASE pairState[p] = "SUCCEEDED"
  <2>1. /\ CheckComplete(p, pairState, valid, checkList, trigQ, Without(c), state)
        /\ UNCHANGED valid
    BY Zenon, <1>3 DEF ExhaustCheck
  <2>2. SameChecks(Without(c), checks')
    BY Zenon, <1>1, <2>1, CheckCompleteType DEF Inv, TypeOK
  <2>3. \A x \in Pairs : pairState'[x] = "WAITING" \/ pairState'[x] = pairState[x]
    BY Zenon, <1>1, <2>1, CheckCompleteStates
  <2>4. Alive(valid', pairState')
    BY Zenon, <2>1, <2>3, SafeParts, AliveKept DEF Inv, TypeOK
  <2>5. InProgressHasCheck'
    BY Zenon, <1>1, <1>3, <2>2, <2>3, InProgressDown DEF NoPairStarts, Safe
  <2>6. QED BY Zenon, <2>1, <2>4, <2>5, SafeParts, SafePartsNext
<1>4. QED BY Zenon, <1>2, <1>3

\* A success: the new entry's pair has just succeeded, and set_nominated is the
\* only one to nominate.
LEMMA CheckOkSafe ==
    ASSUME Inv, Safe, NEW c \in CheckIds, CheckOk(c)
    PROVE  Safe'
<1> DEFINE p == checks[c].pair
<1>0. PICK v \in SUBSET ValidEntry, e \in ValidEntry, ps \in [Pairs -> PairStates] :
         Succeeds(c, v, e, ps)
  BY Zenon, SucceedCheckCases
<1>1.    /\ e \in v /\ ValidOnce(v) /\ Sourced(v)
         /\ v = valid \/ (v = valid \cup {e} /\ ~e.nominated /\ e.source = p)
         /\ \A x \in Pairs : ps[x] = "SUCCEEDED" \/ ps[x] = pairState[x]
         /\ ps[p] = "SUCCEEDED"
         /\ \/ /\ MayNominate(v, e) /\ CompleteNomination(v, e)
               /\ CheckComplete(p, ps, valid', checkList',
                         QueueWithout(KeyComp(e.key)),
                         StopRetrying(Without(c), {e.obj}), state')
            \/ /\ valid' = v
               /\ CheckComplete(p, ps, v, checkList, trigQ, Without(c), state)
  BY Zenon, <1>0 DEF Succeeds
<1>2. /\ checks \in CheckTable /\ Without(c) \in CheckTable /\ checks[c] # Idle
      /\ p \in Pairs /\ pairState \in [Pairs -> PairStates]
  BY Zenon, WithoutType, ActiveCheck DEF CheckOk, Resumed, Inv, TypeOK, CheckTable
<1>3. Unique(v)
  BY Zenon, <1>1, SafeParts DEF Unique
<1>4. Alive(v, ps)
  <2>1. Alive(valid, pairState)
    BY Zenon, SafeParts
  <2>2. \A x \in ValidEntry : x.source \in Pairs \cup {NoPair}
    BY Zenon DEF ValidEntry
  <2>3. QED BY Zenon, <1>1, <1>2, <2>1, <2>2 DEF Alive
<1> HIDE DEF p
<1>5. \A x \in Pairs : pairState'[x] = "WAITING" \/ pairState'[x] = ps[x]
  BY Zenon, <1>1, CheckCompleteStates
<1>6. ASSUME SameChecks(Without(c), checks') PROVE InProgressHasCheck'
  <2>1. NoPairStarts /\ pairState'[p] # "IN_PROGRESS"
    BY Zenon, <1>1, <1>2, <1>5 DEF NoPairStarts
  <2>2. QED BY Zenon, <1>6, <2>1, InProgressDown DEF Safe, p
<1>7. CASE /\ MayNominate(v, e) /\ CompleteNomination(v, e)
           /\ CheckComplete(p, ps, valid', checkList', QueueWithout(KeyComp(e.key)),
                            StopRetrying(Without(c), {e.obj}), state')
  <2>1. valid' = Nominated(v, e)
    BY Zenon, <1>7 DEF CompleteNomination
  <2>2. valid' \subseteq ValidEntry /\ ValidOnce(valid') /\ Sourced(valid')
    BY Zenon, <1>1, <2>1, NominatedType
  <2>3. Unique(valid') /\ Alive(valid', ps)
    BY Zenon, <1>1, <1>3, <1>4, <1>7, <2>1, NominateUnique, NominateAlive
  <2>4. Alive(valid', pairState')
    BY Zenon, <1>5, <2>2, <2>3, AliveKept
  <2>5. SameChecks(Without(c), StopRetrying(Without(c), {e.obj}))
    BY Zenon, <1>2, StopRetryingSame
  <2>6. QueueWithout(KeyComp(e.key)) \subseteq Tasks
        /\ TicketsApart(QueueWithout(KeyComp(e.key)))
        /\ StopRetrying(Without(c), {e.obj}) \in CheckTable
    BY Zenon, <2>5 DEF QueueWithout, Inv, TypeOK, TicketsApart, SameChecks
  <2>7. SameChecks(StopRetrying(Without(c), {e.obj}), checks')
    BY Zenon, <1>7, <2>2, <2>6, CheckCompleteType
  <2>8. QED
    BY Zenon, <1>6, <2>3, <2>4, <2>5, <2>7, SameChecksTrans, SafePartsNext
<1>8. CASE valid' = v /\ CheckComplete(p, ps, v, checkList, trigQ, Without(c), state)
  <2>1. SameChecks(Without(c), checks')
    BY Zenon, <1>1, <1>2, <1>8, CheckCompleteType DEF Inv, TypeOK
  <2>2. Alive(valid', pairState')
    BY Zenon, <1>4, <1>5, <1>8, AliveKept
  <2>3. QED BY Zenon, <1>3, <1>6, <1>8, <2>1, <2>2, SafePartsNext
<1>9. QED BY Zenon, <1>1, <1>7, <1>8

LEMMA ResumesSafe == ASSUME Inv, Safe, NEW c \in CheckIds, Resumes(c) PROVE Safe'
<1>1. CASE CheckOk(c)
  BY Zenon, <1>1, CheckOkSafe
<1>2. CASE CheckFailed(c)
  BY Zenon, <1>2, FailCheckSafe DEF CheckFailed, Resumed
<1>3. CASE CheckCancelled(c)
  BY <1>3, CancelCheckSafe
<1>4. CASE CheckConflict(c)
  <2>1. controlling' \in BOOLEAN /\ tie' \in Ties /\ checks[c] # Idle
    BY Zenon, <1>4 DEF CheckConflict, Yielded, Resumed
  <2>2. QED BY Zenon, <1>4, <2>1, NextRoundSafe, ExhaustCheckSafe DEF CheckConflict
<1>5. QED BY Zenon, <1>1, <1>2, <1>3, <1>4 DEF Resumes

LEMMA RequestProceedsSafe ==
    ASSUME Inv, Safe, NEW h \in HandlerIds, RequestProceeds(h)
    PROVE  Safe'
<1> DEFINE q == handlers[h]
           k == <<q.local, q.remote>>
           use == Nominates(q)
           Listed == {p \in checkList : KeyOf(p) = k}
<1>1. /\ checks \in CheckTable /\ SameChecks(checks, checks) /\ k \in Keys
      /\ pairState \in [Pairs -> PairStates] /\ checkList \subseteq Pairs
  <2>1. /\ checks \in CheckTable /\ pairState \in [Pairs -> PairStates]
        /\ checkList \subseteq Pairs /\ q \in Handler \cup {Idle}
    BY Zenon DEF Inv, TypeOK, CheckTable
  <2>2. q # Idle
    BY Zenon DEF RequestProceeds
  <2>3. k \in Keys
    BY Zenon, <2>1, <2>2 DEF Handler
  <2>4. SameChecks(checks, checks)
    BY Zenon, <2>1 DEF SameChecks
  <2>5. QED BY Zenon, <2>1, <2>3, <2>4
<1>2. ASSUME NEW p \in Listed, TriggerSucceeded(p, use) PROVE Safe'
  <2>1. UNCHANGED pairState
    BY Zenon, <1>2 DEF TriggerSucceeded
  <2>2. CASE UNCHANGED <<valid, checks>>
    BY Zenon, <1>1, <2>1, <2>2, QuietStep DEF NoPairStarts, NoPairFails
  <2>3. ASSUME NEW e \in valid, MayNominate(valid, e), CompleteNomination(valid, e),
               checks' = StopRetrying(checks, {e.obj})
        PROVE  Safe'
    <3>1. InProgressHasCheck'
      BY Zenon, <1>1, <2>1, <2>3, StopRetryingSame, InProgressKept DEF NoPairStarts, Safe
    <3>2. Unique(valid') /\ Alive(valid', pairState')
      BY Zenon, <2>1, <2>3, SafeParts, NominateUnique, NominateAlive
      DEF CompleteNomination, Inv, TypeOK
    <3>3. QED BY Zenon, <3>1, <3>2, SafePartsNext
  <2>4. QED BY Zenon, <1>2, <2>2, <2>3 DEF TriggerSucceeded
<1>3. ASSUME NEW p \in Listed, TriggerInProgress(p, use) PROVE Safe'
  <2>1. SameChecks(checks, checks') /\ UNCHANGED valid
    BY Zenon, <1>1, <1>3, StopRetryingSame DEF TriggerInProgress
  <2>2. NoPairStarts /\ NoPairFails
    BY Zenon, <1>1, <1>3 DEF TriggerInProgress, NoPairStarts, NoPairFails
  <2>3. QED BY Zenon, <2>1, <2>2, QuietStep
<1>4. ASSUME NEW p \in Listed, TriggerUnchecked(p, use) PROVE Safe'
  <2>1. NoPairStarts /\ NoPairFails
    BY Zenon, <1>1, <1>4 DEF TriggerUnchecked, NoPairStarts, NoPairFails
  <2>2. QED BY Zenon, <1>1, <1>4, <2>1, QuietStep DEF TriggerUnchecked
<1>5. ASSUME TriggerNew(k, use) PROVE Safe'
  <2>1. NoPairStarts /\ NoPairFails
    BY Zenon, <1>1, <1>5 DEF TriggerNew, NoPairStarts, NoPairFails
  <2>2. QED BY Zenon, <1>1, <1>5, <2>1, QuietStep DEF TriggerNew
<1>6. QED BY Zenon, <1>2, <1>3, <1>4, <1>5 DEF RequestProceeds

LEMMA InboundSafe == ASSUME Inv, Safe, NEW h \in HandlerIds, Inbound(h) PROVE Safe'
<1>1. CASE RequestProceeds(h)
  BY <1>1, RequestProceedsSafe
<1>2. CASE UNCHANGED <<pairState, valid, checks>>
  <2>1. SameChecks(checks, checks')
    BY Zenon, <1>2 DEF SameChecks, Inv, TypeOK, CheckTable
  <2>2. QED BY Zenon, <1>2, <2>1, QuietStep DEF NoPairStarts, NoPairFails
<1>3. QED
  BY Zenon, <1>1, <1>2 DEF Inbound, Request, RequestWaits, RequestLate, listVars

LEMMA EndSafe == Inv /\ Safe /\ (FreeCandidates \/ Close) => Safe'
<1> SUFFICES ASSUME Inv, Safe, FreeCandidates \/ Close PROVE Safe'
  OBVIOUS
<1>0. checks \in CheckTable /\ UNCHANGED pairState
  BY Zenon DEF FreeCandidates, Close, Inv, TypeOK, CheckTable
<1>1. CASE FreeCandidates
  <2> DEFINE cleared(e) == [e EXCEPT !.source = NoPair]
  <2>1. valid' = {cleared(e) : e \in Kept} /\ Kept \subseteq valid
        /\ \A e \in Kept : e.nominated
    BY Zenon, <1>1 DEF FreeCandidates, Kept
  <2>2. \A e \in ValidEntry : /\ cleared(e).key = e.key /\ cleared(e).source = NoPair
    BY Zenon DEF ValidEntry
  <2> HIDE DEF cleared
  <2>3. Unique(valid')
    BY <2>1, <2>2, SafeParts DEF Unique, Inv, TypeOK
  <2>4. Alive(valid', pairState')
    BY Zenon, <2>1, <2>2 DEF Alive, Inv, TypeOK
  <2>5. SameChecks(checks, checks')
    BY Zenon, <1>0, <1>1 DEF FreeCandidates, SameChecks
  <2>6. InProgressHasCheck'
    BY Zenon, <1>0, <2>5, InProgressKept DEF NoPairStarts, Safe
  <2>7. QED BY Zenon, <2>3, <2>4, <2>6, SafePartsNext
<1>2. CASE Close
  <2>1. SameChecks(checks, checks') /\ valid' \subseteq valid
    BY Zenon, <1>0, <1>2, StopRetryingSame DEF Close
  <2>2. QED BY Zenon, <1>0, <2>1, QuietStep DEF NoPairStarts, NoPairFails
<1>3. QED BY Zenon, <1>1, <1>2

LEMMA InitSafe == Init => Safe
BY Zenon DEF Init, Safe, NominatedUnique, FailedPairNotValid, InProgressHasCheck

\* The three properties hold together, in every order of checks, requests and
\* calls of the application.
THEOREM Safety == Spec => []Safe
<1>1. Inv /\ Safe /\ [Next]_vars => Safe'
  <2> SUFFICES ASSUME Inv, Safe, [Next]_vars PROVE Safe'
    OBVIOUS
  <2>1. CASE Candidates
    BY Zenon, <2>1, CandidatesSafe
  <2>2. CASE Connect \/ Tick \/ Woken \/ Drained
    BY Zenon, <2>2, LoopSafe
  <2>3. CASE \E c \in CheckIds : Waits(c) \/ Resumes(c)
    BY Zenon, <2>3, WaitsSafe, ResumesSafe
  <2>4. CASE \E h \in HandlerIds : Inbound(h)
    BY Zenon, <2>4, InboundSafe
  <2>5. CASE FreeCandidates \/ Close
    BY Zenon, <2>5, EndSafe
  <2>6. CASE UNCHANGED vars
    <3>1. UNCHANGED <<pairState, valid, checks>>
      BY Zenon, <2>6 DEF vars, listVars
    <3>2. QED
      BY Zenon, <3>1 DEF Safe, NominatedUnique, FailedPairNotValid, InProgressHasCheck, Active
  <2>7. QED BY Zenon, <2>1, <2>2, <2>3, <2>4, <2>5, <2>6 DEF Next
<1>2. QED BY <1>1, InitSafe, Invariance, PTL DEF Spec

\* A component never has two nominated pairs (set_nominated), however many
\* checks with USE-CANDIDATE succeed and requests arrive.
THEOREM OneNomination == Spec => []NominatedUnique
BY Safety, PTL DEF Safe

\* Nothing in the valid list comes from a pair that has failed since
\* (check_complete).
THEOREM NoFailedPairValid == Spec => []FailedPairNotValid
BY Safety, PTL DEF Safe

\* No pair stays In-Progress without a check that will move it on (do_check).
THEOREM NoPairAbandoned == Spec => []InProgressHasCheck
BY Safety, PTL DEF Safe
=============================================================================
