--------------------------- MODULE IceAgentSafety ---------------------------
(***************************************************************************)
(* What lasts: a nominated pair keeps the transport its data arrives on,   *)
(* whatever free_candidates releases, and with a lite peer a nomination is *)
(* not undone.                                                             *)
(***************************************************************************)
EXTENDS IceAgentProofs, IceAgentPromise

-----------------------------------------------------------------------------
(* The transport of a nominated pair.  Whatever the agent holds on to, and *)
(* could nominate one day, has a transport that is still read: free_candi- *)
(* dates keeps those of the nominated pairs once nothing else is left.     *)

\* The transport h serves the candidate l: the peer sees checks of both alike.
Serves(h, l) == /\ Component[h] = Component[l]
                /\ \A r \in Remotes : <<l, r>> \in Keys => Seen[<<h, r>>] = Seen[<<l, r>>]
Served(R, l) == \E h \in R : Serves(h, l)

\* A datagram for the pair k arrives on a transport of R.
Carried(R, k) == \E l \in R : <<l, k[2]>> \in Keys /\ k[1] \in {l, Seen[<<l, k[2]>>]}

\* The pairs the agent holds on to.
Checked(cs) == {cs[c].pair : c \in {d \in CheckIds : cs[d] # Idle}}
Queued(q) == {t.pair : t \in q}
Sources(v) == {e.source : e \in v} \ {NoPair}
Held == checkList \cup Queued(trigQ) \cup Checked(checks) \cup Sources(valid)

Open == state # "CLOSED"
AllServed == Open => /\ \A l \in locals : Served(receivers, l)
                     /\ \A p \in Held : Served(receivers, KeyOf(p)[1])
                     /\ \A e \in valid : Carried(receivers, e.key)

\* close() clears the valid list and set_nominated does nothing afterwards.
ClosedPlain == ~Open => \A e \in valid : ~e.nominated

\* connect() returns after its last check; candidates are freed after that.
LoopRests == /\ loop \in {"idle", "done"} => Active = {}
             /\ freeTimer => loop = "done"

Transports == AllServed /\ ClosedPlain /\ LoopRests

LEMMA ServesItself == ASSUME NEW R, NEW h \in R PROVE Served(R, h)
BY Zenon DEF Served, Serves

LEMMA ServedMore ==
    ASSUME NEW R, NEW S, R \subseteq S
    PROVE  /\ \A l : Served(R, l) => Served(S, l)
           /\ \A k : Carried(R, k) => Carried(S, k)
BY Zenon DEF Served, Carried

\* The address the peer reports for a check has the transport of the check.
LEMMA ServedSeen ==
    ASSUME NEW R, R \subseteq Hosts, NEW k \in Keys, Served(R, k[1])
    PROVE  Served(R, Seen[k]) /\ Carried(R, <<Seen[k], k[2]>>)
<1>1. PICK h \in R : Serves(h, k[1])
  BY Zenon DEF Served
<1>2. k = <<k[1], k[2]>> /\ k[1] \in Locals /\ k[2] \in Remotes
      /\ Component[k[1]] = Component[k[2]]
  BY DEF Keys
<1>3. Seen[<<h, k[2]>>] = Seen[k] /\ Component[h] = Component[k[1]]
  BY Zenon, <1>1, <1>2 DEF Serves
<1>4. <<h, k[2]>> \in Keys
  BY Zenon, <1>2, <1>3 DEF Keys, Locals
<1>5. Carried(R, <<Seen[k], k[2]>>)
  BY Zenon, <1>3, <1>4 DEF Carried
<1>6. Component[Seen[k]] = Component[h]
  BY Zenon, <1>3, PairAssumption
<1>7. ASSUME NEW r \in Remotes, <<Seen[k], r>> \in Keys
      PROVE  Seen[<<h, r>>] = Seen[<<Seen[k], r>>]
  <2>1. Seen[<<Seen[k], r>>] = Seen[<<k[1], r>>]
    BY Zenon, <1>7, NatAssumption
  <2>2. <<k[1], r>> \in Keys
    BY Zenon, <1>2, <1>3, <1>6, <1>7 DEF Keys
  <2> QED
    BY Zenon, <1>1, <2>1, <2>2 DEF Serves
<1> QED
  BY Zenon, <1>5, <1>6, <1>7 DEF Served, Serves

\* What a step has to keep to.
LEMMA ServedStep ==
    ASSUME AllServed, receivers \subseteq receivers', Open' => Open,
           Open' => \A l \in locals' : l \in locals \/ Served(receivers', l),
           Open' => \A p \in Held' : p \in Held \/ Served(receivers', KeyOf(p)[1]),
           Open' => \A e \in valid' : \/ Carried(receivers', e.key)
                                      \/ \E f \in valid : f.key = e.key
    PROVE  AllServed'
<1> SUFFICES ASSUME Open'
             PROVE  /\ \A l \in locals' : Served(receivers', l)
                    /\ \A p \in Held' : Served(receivers', KeyOf(p)[1])
                    /\ \A e \in valid' : Carried(receivers', e.key)
  BY Zenon DEF AllServed, Served, Carried, Serves, KeyOf, Keys, Locals
<1> QED
  BY Zenon, ServedMore DEF AllServed

LEMMA CheckedSame ==
    ASSUME NEW cs, NEW ds, SameChecks(cs, ds)
    PROVE  Checked(ds) = Checked(cs)
BY Zenon DEF Checked, SameChecks

LEMMA CheckedWithout ==
    ASSUME checks \in CheckTable, NEW c \in CheckIds, SameChecks(Without(c), checks')
    PROVE  /\ Checked(checks') \subseteq Checked(checks) /\ Active' \subseteq Active \ {c}
<1>1. \A d \in CheckIds : checks'[d] # Idle => /\ d # c /\ checks[d] # Idle
                                               /\ checks'[d].pair = checks[d].pair
  BY Zenon DEF SameChecks, Without, CheckTable
<1> QED
  BY Zenon, <1>1 DEF Checked, Active

\* check_complete queues pairs that made something valid.
LEMMA CheckCompleteQueue ==
    ASSUME NEW p, NEW ps, NEW v \in SUBSET ValidEntry, ValidOnce(v), Sourced(v),
           NEW cl, NEW q, NEW cs, NEW st, CheckComplete(p, ps, v, cl, q, cs, st)
    PROVE  Queued(trigQ') \subseteq Queued(q) \cup Sources(v)
<1>0. PICK T \in SUBSET v : Renew(T, p, ps, cl, q, cs) /\ Picked(T, v, st)
  BY Zenon, CheckCompletePicks
<1> DEFINE ticket(e, n) == [at |-> n + KeyComp(e.key) - 1, pair |-> e.source,
                            use |-> TRUE]
<1>1. PICK n \in 0 .. QueueBound : trigQ' = q \cup {ticket(e, n) : e \in T}
  BY Zenon, <1>0 DEF Renew
<1>2. \A e \in T : e.source \in Pairs /\ e \in v
  BY Zenon, <1>0, PickedSource
<1>3. NoPair \notin Pairs
  BY DEF Pairs, NoPair
<1>4. \A e \in T : e.source \in Sources(v)
  BY Zenon, <1>2, <1>3 DEF Sources
<1>5. \A e \in T : ticket(e, n).pair = e.source
  OBVIOUS
<1> HIDE DEF ticket
<1> QED
  BY Zenon, <1>1, <1>4, <1>5 DEF Queued

\* Nomination changes neither the keys nor the sources of the valid list.
LEMMA NominatedKeys ==
    ASSUME NEW v \in SUBSET ValidEntry, NEW e \in v
    PROVE  /\ Sources(Nominated(v, e)) = Sources(v)
           /\ \A f \in Nominated(v, e) : \E g \in v : g.key = f.key
           /\ \A f \in v : \E g \in Nominated(v, e) :
                             g.key = f.key /\ (f.nominated => g.nominated)
<1> DEFINE n == [e EXCEPT !.nominated = TRUE]
<1>1. n.key = e.key /\ n.source = e.source /\ n.nominated
  BY Zenon DEF ValidEntry
<1>2. Nominated(v, e) = (v \ {e}) \cup {n}
  BY Zenon DEF Nominated
<1> HIDE DEF n
<1> QED
  BY Zenon, <1>1, <1>2 DEF Sources

\* A step that holds on to nothing new.
LEMMA ServedKept ==
    ASSUME AllServed, UNCHANGED <<receivers, locals>>, Open' => Open,
           Held' \subseteq Held, \A e \in valid' : \E f \in valid : f.key = e.key
    PROVE  AllServed'
BY Zenon, ServedStep

\* New pairs are those of served candidates.
LEMMA MadeServed ==
    ASSUME Inv, AllServed, NEW K \in SUBSET Keys, MakePairs(K),
           receivers \subseteq receivers', UNCHANGED <<state, valid, trigQ, checks>>,
           Open => \A l \in locals' : l \in locals \/ Served(receivers', l),
           Open => \A k \in K : Served(receivers', k[1])
    PROVE  AllServed'
<1>1. PICK New \in SUBSET K : checkList' = checkList \cup {NewPair(k) : k \in New}
  BY Zenon DEF MakePairs
<1>2. \A k \in New : KeyOf(NewPair(k)) = k
  BY Zenon DEF KeyOf, NewPair
<1>3. Open' => \A p \in Held' : p \in Held \/ Served(receivers', KeyOf(p)[1])
  BY Zenon, <1>1, <1>2 DEF Held, Open
<1> QED
  BY Zenon, <1>3, ServedStep DEF Open

LEMMA CandidatesServed == ASSUME Inv, AllServed, Candidates PROVE AllServed'
<1>1. ASSUME NEW comp \in Components, GatherHosts(comp) PROVE AllServed'
  <2> DEFINE H == {h \in Hosts \ Relays : Component[h] = comp}
             K == {k \in Keys : k[1] \in H /\ k[2] \in remotes}
  <2>1. MakePairs(K) /\ receivers' = receivers \cup H /\ locals' = locals \cup H
        /\ UNCHANGED <<state, valid, trigQ, checks>>
    BY Zenon, <1>1 DEF GatherHosts
  <2>2. \A h \in H : Served(receivers', h)
    BY Zenon, <2>1, ServesItself
  <2>3. K \in SUBSET Keys /\ \A k \in K : k[1] \in H
    OBVIOUS
  <2> HIDE DEF H, K
  <2> QED
    BY Zenon, <2>1, <2>2, <2>3, MadeServed
<1>2. ASSUME NEW h \in Hosts, SrflxAnswer(h) PROVE AllServed'
  <2> DEFINE K == {k \in Keys : k[1] = h /\ k[2] \in remotes}
  <2>1. MakePairs(K) /\ UNCHANGED <<receivers, locals, state, valid, trigQ, checks>>
        /\ h \in locals
    BY Zenon, <1>2 DEF SrflxAnswer, candVars
  <2>2. K \in SUBSET Keys /\ \A k \in K : k[1] = h
    OBVIOUS
  <2> HIDE DEF K
  <2> QED
    BY Zenon, <2>1, <2>2, MadeServed DEF AllServed
<1>3. ASSUME NEW h \in Hosts, GatherRelay(h) PROVE AllServed'
  <2>1. receivers' = receivers \cup {h} /\ locals' = locals \cup {h}
        /\ UNCHANGED <<state, valid, trigQ, checks, checkList>>
    BY Zenon, <1>3 DEF GatherRelay, listVars
  <2>2. Served(receivers', h)
    BY Zenon, <2>1, ServesItself
  <2> QED
    BY Zenon, <2>1, <2>2, ServedStep DEF Held, Open
<1>4. ASSUME NEW r \in Remotes, AddResolved(r) PROVE AllServed'
  <2>1. UNCHANGED <<receivers, locals, state, valid, trigQ, checks>>
    BY Zenon, <1>4 DEF AddResolved
  <2>2. CASE UNCHANGED listVars
    BY Zenon, <2>1, <2>2, ServedKept DEF Held, Open, listVars
  <2>3. CASE MakePairs({k \in Keys : k[1] \in locals /\ k[2] = r})
    <3> DEFINE K == {k \in Keys : k[1] \in locals /\ k[2] = r}
    <3>1. K \in SUBSET Keys /\ \A k \in K : k[1] \in locals
      OBVIOUS
    <3>2. MakePairs(K)
      BY Zenon, <2>3
    <3> HIDE DEF K
    <3> QED
      BY Zenon, <2>1, <3>1, <3>2, MadeServed DEF AllServed
  <2> QED
    BY Zenon, <1>4, <2>2, <2>3 DEF AddResolved
<1>5. CASE UNCHANGED <<receivers, locals, state, valid, trigQ, checks, checkList>>
  BY Zenon, <1>5, ServedKept DEF Held, Open
<1> QED
  BY Zenon, <1>1, <1>2, <1>3, <1>4, <1>5 DEF Candidates, GatherEnd, EndOfRemotes,
     AddRemoteCandidate, AddMdnsCandidate, MdnsResolved, MdnsFailed, listVars

\* A check is started for a pair the agent holds.
LEMMA PerformHeld ==
    ASSUME Inv, NEW p, NEW use, NEW ps, Perform(p, use, ps)
    PROVE  Checked(checks') \subseteq Checked(checks) \cup {p} /\ loop' = "waiting"
<1>1. CASE MayPerform
  <2>1. PICK c \in CheckIds \ Active, f \in FirstPhases(p) :
           checks' = [checks EXCEPT ![c] =
                     [phase |-> f, pair |-> p, use |-> use \/ RemoteLite,
                      role |-> controlling, tie |-> tie, round |-> 1,
                      result |-> "none"]]
    BY Zenon, <1>1 DEF Perform
  <2> DEFINE k == [phase |-> f, pair |-> p, use |-> use \/ RemoteLite,
                   role |-> controlling, tie |-> tie, round |-> 1,
                   result |-> "none"]
  <2>2. k.pair = p
    OBVIOUS
  <2>3. checks' = [checks EXCEPT ![c] = k]
    BY ZenonT(30), <2>1
  <2> HIDE DEF k
  <2>4. \A d \in CheckIds : (d = c /\ checks'[d] = k) \/ checks'[d] = checks[d]
    BY Zenon, <2>3 DEF Inv, TypeOK
  <2>5. Checked(checks') \subseteq Checked(checks) \cup {p}
    BY ZenonT(30), <2>2, <2>4 DEF Checked
  <2> QED
    BY Zenon, <2>5 DEF Perform
<1>2. CASE ~MayPerform
  BY Zenon, <1>2 DEF Perform
<1> QED
  BY Zenon, <1>1, <1>2

LEMMA TurnHeld ==
    ASSUME Inv, NEW ps, Turn(ps), UNCHANGED <<checkList, valid>>
    PROVE  Held' \subseteq Held
<1>1. ASSUME NEW p \in checkList \cup Queued(trigQ),
             Checked(checks') \subseteq Checked(checks) \cup {p},
             Queued(trigQ') \subseteq Queued(trigQ)
      PROVE  Held' \subseteq Held
  BY Zenon, <1>1 DEF Held
<1>2. CASE TriggeredTurn(ps)
  <2>1. PICK t \in trigQ : trigQ' = Pop(t) /\ Perform(t.pair, t.use, ps)
    BY Zenon, <1>2 DEF TriggeredTurn
  <2> DEFINE moved(u) == [u EXCEPT !.at = u.at - t.at - 1]
  <2>2. \A u \in trigQ \ {t} : moved(u).pair = u.pair
    BY Zenon DEF Inv, TypeOK, Tasks
  <2>a. trigQ' = {moved(u) : u \in trigQ \ {t}}
    BY Zenon, <2>1 DEF Pop
  <2> HIDE DEF moved
  <2>3. Queued(trigQ') \subseteq Queued(trigQ) /\ t.pair \in Queued(trigQ)
    BY Zenon, <2>a, <2>2 DEF Queued
  <2> QED
    BY Zenon, <1>1, <2>1, <2>3, PerformHeld
<1>3. CASE OrdinaryTurn(ps)
  <2>1. PICK p \in checkList : Perform(p, FALSE, ThawIdleFoundations(ps))
    BY Zenon, <1>3 DEF OrdinaryTurn, Waiting
  <2> QED
    BY Zenon, <1>1, <1>3, <2>1, PerformHeld DEF OrdinaryTurn
<1>4. CASE IdleTurn(ps)
  <2>1. Checked(checks') = Checked(checks)
    BY Zenon, <1>4, StoppedSame, CheckedSame DEF IdleTurn, LeaveLoop, Inv, TypeOK, CheckTable
  <2> QED
    BY Zenon, <1>4, <2>1 DEF IdleTurn, Held
<1> QED
  BY Zenon, <1>2, <1>3, <1>4 DEF Turn

LEMMA LoopServed ==
    ASSUME Inv, AllServed, Connect \/ Tick \/ Woken \/ Drained PROVE AllServed'
<1>1. UNCHANGED <<receivers, locals, checkList, valid>> /\ (Open' => Open)
  BY Zenon DEF Connect, Tick, Woken, Drained, candVars, listVars, Open
<1>2. Held' \subseteq Held
  <2>1. CASE Connect \/ Tick
    BY Zenon, <1>1, <2>1, TurnHeld DEF Connect, Tick
  <2>2. CASE Woken \/ Drained
    <3>1. Checked(checks') = Checked(checks)
      BY Zenon, <2>2, StoppedSame, CheckedSame
         DEF Woken, Drained, LeaveLoop, Inv, TypeOK, CheckTable
    <3> QED
      BY Zenon, <1>1, <2>2, <3>1 DEF Woken, Drained, Held
  <2> QED
    BY Zenon, <2>1, <2>2
<1> QED
  BY Zenon, <1>1, <1>2, ServedKept

LEMMA WaitsSame == ASSUME Inv, NEW c \in CheckIds, Waits(c)
                   PROVE  SameChecks(checks, checks') /\ \E f, r : Move(c, f, r)
<1>1. PICK f \in {"perm", "sched", "retry", "quiet", "ending"}, r \in Results :
         checks[c] # Idle /\ Move(c, f, r)
  BY Zenon, LimitAssumption DEF Waits, PermissionGranted, TransactionRun, GiveUp, Answer,
     Undecided, Results
<1> QED
  BY Zenon, <1>1, MoveSame DEF Move, Inv, TypeOK, CheckTable

LEMMA WaitsServed == ASSUME Inv, AllServed, NEW c \in CheckIds, Waits(c) PROVE AllServed'
<1>1. SameChecks(checks, checks')
      /\ UNCHANGED <<receivers, locals, state, valid, trigQ, checkList>>
  BY Zenon, WaitsSame DEF Move, candVars, listVars
<1> QED
  BY Zenon, <1>1, CheckedSame, ServedKept DEF Held, Open

\* A success: the new entry comes from a pair that was being checked.
LEMMA CheckOkServed ==
    ASSUME Inv, AllServed, NEW c \in CheckIds, CheckOk(c) PROVE AllServed'
<1> DEFINE p == checks[c].pair
<1>1. PICK v \in SUBSET ValidEntry, e \in ValidEntry, ps \in [Pairs -> PairStates] :
         Succeeds(c, v, e, ps)
  BY Zenon, SucceedCheckCases
<1>2. /\ ValidOnce(v) /\ Sourced(v) /\ e \in v
      /\ v = valid \/ (v = valid \cup {e} /\ e.source = p)
      /\ locals' \subseteq locals \cup {e.key[1]}
      /\ e.key = <<Seen[KeyOf(p)], KeyOf(p)[2]>>
  BY Zenon, <1>1 DEF Succeeds
<1>3. /\ checks \in CheckTable /\ checks[c] # Idle /\ Without(c) \in CheckTable
      /\ p \in Pairs /\ UNCHANGED receivers /\ receivers \subseteq Hosts
  BY Zenon, WithoutType, ActiveCheck DEF CheckOk, Resumed, Inv, TypeOK, CheckTable
<1>4. p \in Held
  BY Zenon, <1>3 DEF Held, Checked
<1>5. Open => /\ Served(receivers, e.key[1]) /\ Carried(receivers, e.key)
              /\ \A f \in v : Carried(receivers, f.key)
  <2> SUFFICES ASSUME Open PROVE /\ Served(receivers, e.key[1])
                                 /\ Carried(receivers, e.key)
                                 /\ \A f \in v : Carried(receivers, f.key)
    OBVIOUS
  <2>1. KeyOf(p) \in Keys /\ Served(receivers, KeyOf(p)[1])
    BY Zenon, <1>3, <1>4, PairType DEF AllServed
  <2>2. Served(receivers, Seen[KeyOf(p)]) /\ Carried(receivers, e.key)
    BY Zenon, <1>2, <1>3, <2>1, ServedSeen
  <2>3. e.key[1] = Seen[KeyOf(p)]
    BY <1>2
  <2> QED
    BY Zenon, <1>2, <2>2, <2>3 DEF AllServed
<1>6. Sources(v) \subseteq Held
  BY Zenon, <1>2, <1>4 DEF Held, Sources
<1>7. SUFFICES /\ Sources(valid') = Sources(v) /\ \A f \in valid' : \E g \in v : g.key = f.key
               /\ Queued(trigQ') \subseteq Queued(trigQ) \cup Sources(v)
               /\ SameChecks(Without(c), checks') /\ checkList' \subseteq checkList
               /\ Open' => Open
  <2>1. Checked(checks') \subseteq Checked(checks)
    BY Zenon, <1>3, <1>7, CheckedWithout
  <2>2. Held' \subseteq Held
    BY Zenon, <1>6, <1>7, <2>1 DEF Held
  <2>3. Open' => \A l \in locals' : l \in locals \/ Served(receivers', l)
    BY Zenon, <1>2, <1>3, <1>5, <1>7
  <2>4. Open' => \A f \in valid' : Carried(receivers', f.key)
    BY Zenon, <1>3, <1>5, <1>7
  <2> QED
    BY Zenon, <1>3, <1>7, <2>2, <2>3, <2>4, ServedStep
<1> HIDE DEF p
<1>8. CASE /\ MayNominate(v, e) /\ CompleteNomination(v, e)
           /\ CheckComplete(p, ps, valid', checkList', QueueWithout(KeyComp(e.key)),
                            StopRetrying(Without(c), {e.obj}), state')
  <2>1. valid' = Nominated(v, e) /\ checkList' \subseteq checkList
    BY Zenon, <1>8 DEF CompleteNomination
  <2>2. valid' \subseteq ValidEntry /\ ValidOnce(valid') /\ Sourced(valid')
    BY Zenon, <1>2, <2>1, NominatedType
  <2>3. Sources(valid') = Sources(v) /\ \A f \in valid' : \E g \in v : g.key = f.key
    BY Zenon, <1>2, <2>1, NominatedKeys
  <2>4. Queued(trigQ') \subseteq Queued(QueueWithout(KeyComp(e.key))) \cup Sources(valid')
    BY Zenon, <1>8, <2>2, CheckCompleteQueue
  <2>5. Queued(QueueWithout(KeyComp(e.key))) \subseteq Queued(trigQ)
    BY Zenon DEF Queued, QueueWithout
  <2>6. SameChecks(Without(c), StopRetrying(Without(c), {e.obj}))
    BY Zenon, <1>3, StopRetryingSame
  <2>7. QueueWithout(KeyComp(e.key)) \subseteq Tasks
        /\ TicketsApart(QueueWithout(KeyComp(e.key)))
        /\ StopRetrying(Without(c), {e.obj}) \in CheckTable
    BY Zenon, <2>6 DEF QueueWithout, Inv, TypeOK, TicketsApart, SameChecks
  <2>8. SameChecks(StopRetrying(Without(c), {e.obj}), checks')
    BY Zenon, <1>8, <2>2, <2>7, CheckCompleteType
  <2>9. Open
    BY Zenon, <1>8 DEF MayNominate, Over, Open
  <2> QED
    BY Zenon, <2>1, <2>3, <2>4, <2>5, <2>6, <2>8, <2>9, SameChecksTrans
<1>9. CASE /\ valid' = v /\ UNCHANGED <<state, checkList>>
           /\ CheckComplete(p, ps, v, checkList, trigQ, Without(c), state)
  <2>1. Queued(trigQ') \subseteq Queued(trigQ) \cup Sources(v)
    BY Zenon, <1>2, <1>9, CheckCompleteQueue
  <2>2. SameChecks(Without(c), checks')
    BY Zenon, <1>2, <1>3, <1>9, CheckCompleteType DEF Inv, TypeOK
  <2> QED
    BY Zenon, <1>9, <2>1, <2>2 DEF Open
<1> QED
  BY Zenon, <1>1, <1>8, <1>9 DEF Succeeds, p

LEMMA ResumesServed ==
    ASSUME Inv, AllServed, NEW c \in CheckIds, Resumes(c) PROVE AllServed'
<1>1. checks \in CheckTable /\ checks[c] # Idle /\ Without(c) \in CheckTable
      /\ SameChecks(Without(c), Without(c))
  BY Zenon, WithoutType DEF Resumes, CheckOk, CheckFailed, CheckCancelled, CheckConflict,
     Resumed, Inv, TypeOK, CheckTable
<1>2. ASSUME FailCheck(c) \/ CancelCheck(c), UNCHANGED receivers PROVE AllServed'
  <2>1. checks' = Without(c) /\ valid' \subseteq valid
        /\ UNCHANGED <<locals, checkList, trigQ, state>>
    BY Zenon, <1>2 DEF FailCheck, CancelCheck, EraseValid
  <2>2. Checked(checks') \subseteq Checked(checks)
    BY Zenon, <1>1, <2>1, CheckedWithout
  <2>3. Held' \subseteq Held
    BY Zenon, <2>1, <2>2 DEF Held, Sources
  <2> QED
    BY Zenon, <1>2, <2>1, <2>3, ServedKept DEF Open
<1>3. ASSUME NextRound(c), controlling' \in BOOLEAN, tie' \in Ties, UNCHANGED receivers
      PROVE  AllServed'
  <2>1. SameChecks(checks, checks')
    BY Zenon, <1>1, <1>3, NextRoundSame
  <2>2. UNCHANGED <<locals, checkList, trigQ, state, valid>>
    BY Zenon, <1>3 DEF NextRound, listVars
  <2> QED
    BY Zenon, <1>3, <2>1, <2>2, CheckedSame, ServedKept DEF Held, Open
<1>4. ASSUME ExhaustCheck(c), UNCHANGED receivers PROVE AllServed'
  <2>1. CASE FailCheck(c)
    BY Zenon, <1>2, <1>4, <2>1
  <2>2. CASE /\ CheckComplete(checks[c].pair, pairState, valid, checkList, trigQ,
                              Without(c), state)
             /\ UNCHANGED <<locals, checkList, state, valid>>
    <3>1. Queued(trigQ') \subseteq Queued(trigQ) \cup Sources(valid)
      BY Zenon, <2>2, CheckCompleteQueue DEF Inv, TypeOK
    <3>2. SameChecks(Without(c), checks')
      BY Zenon, <1>1, <2>2, CheckCompleteType DEF Inv, TypeOK
    <3>3. Checked(checks') \subseteq Checked(checks)
      BY Zenon, <1>1, <3>2, CheckedWithout
    <3>4. Held' \subseteq Held
      BY Zenon, <2>2, <3>1, <3>3 DEF Held
    <3> QED
      BY Zenon, <1>4, <2>2, <3>4, ServedKept DEF Open
  <2> QED
    BY Zenon, <1>4, <2>1, <2>2 DEF ExhaustCheck
<1>5. CASE CheckConflict(c)
  <2>1. controlling' \in BOOLEAN /\ tie' \in Ties /\ UNCHANGED receivers
    BY Zenon, <1>5 DEF CheckConflict, Yielded, Resumed
  <2> QED
    BY Zenon, <1>3, <1>4, <1>5, <2>1 DEF CheckConflict
<1> QED
  BY Zenon, <1>2, <1>5, CheckOkServed DEF Resumes, CheckFailed, CheckCancelled, Resumed

LEMMA EnqueueHeld ==
    ASSUME NEW p, NEW use, Enqueue(p, use) PROVE Queued(trigQ') = Queued(trigQ) \cup {p}
<1>1. PICK n : trigQ' = trigQ \cup {[at |-> n, pair |-> p, use |-> use]}
  BY Zenon DEF Enqueue
<1>2. [at |-> n, pair |-> p, use |-> use].pair = p
  OBVIOUS
<1> QED
  BY Zenon, <1>1, <1>2 DEF Queued

\* A request of the peer: the pair that is checked is listed, or made for the
\* transport the request came in on.
LEMMA InboundServed ==
    ASSUME Inv, AllServed, NEW h \in HandlerIds, Inbound(h) PROVE AllServed'
<1>1. CASE UNCHANGED <<receivers, locals, state, valid, trigQ, checkList, checks>>
  BY Zenon, <1>1, ServedKept DEF Held, Open
<1>2. CASE RequestProceeds(h)
  <2> DEFINE q == handlers[h]
             k == <<q.local, q.remote>>
             use == Nominates(q)
  <2>1. q.local \in locals /\ Open /\ UNCHANGED <<receivers, locals>>
        /\ checks \in CheckTable
    BY Zenon, <1>2 DEF RequestProceeds, Open, Inv, TypeOK, CheckTable
  <2>2. ASSUME NEW p \in checkList, TriggerSucceeded(p, use) PROVE AllServed'
    <3>1. CASE UNCHANGED <<valid, checkList, state, trigQ, checks>>
      BY Zenon, <2>1, <3>1, ServedKept DEF Held, Open
    <3>2. ASSUME NEW e \in valid, CompleteNomination(valid, e),
                 trigQ' = QueueWithout(KeyComp(e.key)),
                 checks' = StopRetrying(checks, {e.obj})
          PROVE  AllServed'
      <4>1. valid' = Nominated(valid, e) /\ checkList' \subseteq checkList
        BY Zenon, <3>2 DEF CompleteNomination
      <4>2. Sources(valid') = Sources(valid)
            /\ \A f \in valid' : \E g \in valid : g.key = f.key
        BY ZenonT(30), <3>2, <4>1, NominatedKeys DEF Inv, TypeOK
      <4>3. Checked(checks') = Checked(checks)
        BY Zenon, <2>1, <3>2, StopRetryingSame, CheckedSame
      <4>4. Queued(trigQ') \subseteq Queued(trigQ)
        BY Zenon, <3>2 DEF Queued, QueueWithout
      <4>5. Held' \subseteq Held
        BY Zenon, <4>1, <4>2, <4>3, <4>4 DEF Held
      <4> QED
        BY Zenon, <2>1, <4>2, <4>5, ServedKept
    <3> QED
      BY Zenon, <2>2, <3>1, <3>2 DEF TriggerSucceeded
  <2>3. ASSUME NEW p, Queued(trigQ') \subseteq Queued(trigQ) \cup {p},
               checkList' \subseteq checkList \cup {p}, UNCHANGED valid,
               Checked(checks') = Checked(checks),
               p \in checkList \/ Served(receivers, KeyOf(p)[1])
        PROVE  AllServed'
    <3>1. \A x \in Held' : x \in Held \/ Served(receivers', KeyOf(x)[1])
      BY Zenon, <2>1, <2>3 DEF Held
    <3> QED
      BY Zenon, <2>1, <2>3, <3>1, ServedStep
  <2>4. ASSUME NEW p \in checkList, TriggerInProgress(p, use) PROVE AllServed'
    <3>1. Checked(checks') = Checked(checks)
      BY Zenon, <2>1, <2>4, StopRetryingSame, CheckedSame DEF TriggerInProgress
    <3> QED
      BY Zenon, <2>3, <2>4, <3>1, EnqueueHeld DEF TriggerInProgress
  <2>5. ASSUME NEW p \in checkList, TriggerUnchecked(p, use) PROVE AllServed'
    BY Zenon, <2>3, <2>5, EnqueueHeld DEF TriggerUnchecked
  <2>6. ASSUME TriggerNew(k, use) PROVE AllServed'
    <3>1. KeyOf(NewPair(k))[1] = q.local
      BY Zenon DEF KeyOf, NewPair
    <3>2. Served(receivers, KeyOf(NewPair(k))[1])
      BY Zenon, <2>1, <3>1 DEF AllServed
    <3> QED
      BY Zenon, <2>3, <2>6, <3>2, EnqueueHeld DEF TriggerNew
  <2> QED
    BY Zenon, <1>2, <2>2, <2>4, <2>5, <2>6 DEF RequestProceeds
<1> QED
  BY Zenon, <1>1, <1>2 DEF Inbound, Request, RequestWaits, RequestLate, candVars, listVars

\* free_candidates keeps the transports of the nominated pairs, and nothing
\* else is held any more.
LEMMA FreeServed == ASSUME Inv, Transports, FreeCandidates PROVE AllServed'
<1> SUFFICES ASSUME Open'
             PROVE  /\ \A l \in locals' : Served(receivers', l)
                    /\ \A p \in Held' : Served(receivers', KeyOf(p)[1])
                    /\ \A e \in valid' : Carried(receivers', e.key)
  BY Zenon DEF AllServed, Served, Carried, Serves, KeyOf, Keys, Locals
<1> DEFINE cleared(e) == [e EXCEPT !.source = NoPair]
<1>1. /\ locals' = {} /\ checkList' = {} /\ trigQ' = {} /\ Open
      /\ valid' = {cleared(e) : e \in Kept} /\ receivers' = receivers \cap InUse
  BY Zenon DEF FreeCandidates, Open
<1>2. \A e \in ValidEntry : cleared(e).key = e.key /\ cleared(e).source = NoPair
  BY Zenon DEF ValidEntry
<1> HIDE DEF cleared
<1>3. Checked(checks') = {}
  <2>1. Active = {} /\ UNCHANGED checks
    BY Zenon DEF FreeCandidates, Transports, LoopRests
  <2> QED
    BY Zenon, <2>1 DEF Checked, Active
<1>a. \A f \in valid' : f.source = NoPair /\ \E e \in valid : e.nominated /\ f.key = e.key
  <2>1. \A e \in Kept : e \in valid /\ e.nominated /\ e \in ValidEntry
    BY Zenon DEF Kept, Inv, TypeOK
  <2> QED
    BY ZenonT(30), <1>1, <1>2, <2>1
<1>4. Sources(valid') = {}
  BY Zenon, <1>a DEF Sources
<1>5. Held' = {}
  BY Zenon, <1>1, <1>3, <1>4 DEF Held, Queued
<1>6. ASSUME NEW e \in valid, e.nominated PROVE Carried(receivers', e.key)
  <2>1. PICK l \in receivers : <<l, e.key[2]>> \in Keys
                               /\ e.key[1] \in {l, Seen[<<l, e.key[2]>>]}
    BY Zenon, <1>1 DEF Transports, AllServed, Carried
  <2>2. l \in InUse
    BY Zenon, <1>6, <2>1 DEF InUse, Inv, TypeOK
  <2> QED
    BY Zenon, <1>1, <2>1, <2>2 DEF Carried
<1>7. \A e \in valid' : Carried(receivers', e.key)
  BY Zenon, <1>a, <1>6
<1> QED
  BY Zenon, <1>1, <1>5, <1>7

LEMMA NextServed == ASSUME Inv, Transports, Next \/ UNCHANGED vars PROVE AllServed'
<1>1. CASE Close
  BY Zenon, <1>1 DEF Close, SetState, AllServed, Open
<1>2. CASE UNCHANGED vars
  <2>1. UNCHANGED <<receivers, locals, state, valid, trigQ, checkList, checks>>
    BY Zenon, <1>2 DEF vars, candVars, listVars
  <2> QED
    BY Zenon, <2>1, ServedKept DEF Held, Open, Transports
<1> QED
  BY Zenon, <1>1, <1>2, CandidatesServed, LoopServed, WaitsServed, ResumesServed,
     InboundServed, FreeServed DEF Next, Transports

\* The valid list gains a nomination only while the agent is not over.
LEMMA ClosedStep ==
    ASSUME ClosedPlain, Open' \/ ~Open, \A e \in valid' : e.nominated => e \in valid
    PROVE  ClosedPlain'
BY Zenon DEF ClosedPlain, Open

LEMMA NextClosed == ASSUME Inv, Transports, Next \/ UNCHANGED vars PROVE ClosedPlain'
<1> USE DEF Transports
<1>1. CASE Candidates
  <2>1. UNCHANGED <<state, valid>>
    BY Zenon, <1>1 DEF Candidates, GatherHosts, SrflxAnswer, GatherRelay, GatherEnd,
       EndOfRemotes, AddRemoteCandidate, AddMdnsCandidate, MdnsResolved, MdnsFailed,
       AddResolved
  <2> QED
    BY Zenon, <2>1, ClosedStep DEF Open
<1>2. CASE Connect \/ Tick \/ Woken \/ Drained
  <2>1. UNCHANGED valid /\ (Open' \/ ~Open)
    BY Zenon, <1>2 DEF Connect, Tick, Woken, Drained, SetState, Open
  <2> QED
    BY Zenon, <2>1, ClosedStep
<1>3. ASSUME NEW c \in CheckIds, Waits(c) PROVE ClosedPlain'
  BY Zenon, <1>3, WaitsSame, ClosedStep DEF Move, Open
<1>4. ASSUME NEW c \in CheckIds, CheckOk(c) PROVE ClosedPlain'
  <2>1. PICK v \in SUBSET ValidEntry, e \in ValidEntry, ps \in [Pairs -> PairStates] :
           Succeeds(c, v, e, ps)
    BY Zenon, <1>4, SucceedCheckCases
  <2>2. CASE MayNominate(v, e) /\ CompleteNomination(v, e)
    <3>1. Open'
      BY Zenon, <2>2 DEF MayNominate, CompleteNomination, SetState, Over, Open
    <3> QED
      BY Zenon, <3>1 DEF ClosedPlain, Open
  <2>3. CASE valid' = v /\ UNCHANGED state
    BY Zenon, <2>1, <2>3, ClosedStep DEF Succeeds, Open
  <2> QED
    BY Zenon, <2>1, <2>2, <2>3 DEF Succeeds
<1>5. ASSUME NEW c \in CheckIds, Resumes(c), ~CheckOk(c) PROVE ClosedPlain'
  <2>1. UNCHANGED state /\ valid' \subseteq valid
    BY Zenon, <1>5 DEF Resumes, CheckFailed, CheckCancelled, CheckConflict, FailCheck,
       CancelCheck, NextRound, ExhaustCheck, EraseValid
  <2> QED
    BY Zenon, <2>1, ClosedStep DEF Open
<1>6. ASSUME NEW h \in HandlerIds, Inbound(h) PROVE ClosedPlain'
  <2>1. CASE UNCHANGED <<state, valid>>
    BY Zenon, <2>1, ClosedStep DEF Open
  <2>2. CASE RequestProceeds(h)
    <3>1. state = "CONNECTING" /\ state' \in {state, "CONNECTED"}
      BY Zenon, <2>2 DEF RequestProceeds, TriggerSucceeded, TriggerInProgress,
         TriggerUnchecked, TriggerNew, CompleteNomination, SetState
    <3> QED
      BY Zenon, <3>1 DEF ClosedPlain, Open
  <2> QED
    BY Zenon, <1>6, <2>1, <2>2 DEF Inbound, Request, RequestWaits, RequestLate
<1>7. CASE FreeCandidates
  <2>1. UNCHANGED state /\ \A e \in valid : ~e.nominated => e \notin Kept
    BY Zenon, <1>7 DEF FreeCandidates, Kept
  <2>2. ~Open => valid' = {}
    BY Zenon, <1>7, <2>1 DEF FreeCandidates, ClosedPlain, Kept
  <2> QED
    BY Zenon, <2>1, <2>2 DEF ClosedPlain, Open
<1>8. CASE Close
  BY Zenon, <1>8 DEF Close, ClosedPlain
<1>9. CASE UNCHANGED vars
  BY Zenon, <1>9, ClosedStep DEF vars, Open
<1> QED
  BY Zenon, <1>1, <1>2, <1>3, <1>4, <1>5, <1>6, <1>7, <1>8, <1>9 DEF Next

\* A check runs only under the loop of connect().
LEMMA RestsStep ==
    ASSUME LoopRests, Active' \subseteq Active, loop' \in {loop, WokenLoop},
           freeTimer' => freeTimer
    PROVE  LoopRests'
BY Zenon DEF LoopRests, WokenLoop

\* A check that is resumed ends or goes on: none is started.
LEMMA ResumesActive == ASSUME Inv, NEW c \in CheckIds, Resumes(c) PROVE Active' \subseteq Active
<1>1. checks \in CheckTable /\ checks[c] # Idle /\ Without(c) \in CheckTable
      /\ SameChecks(Without(c), Without(c))
  BY Zenon, WithoutType DEF Resumes, CheckOk, CheckFailed, CheckCancelled, CheckConflict,
     Resumed, Inv, TypeOK, CheckTable
<1>2. ASSUME SameChecks(Without(c), checks') PROVE Active' \subseteq Active
  BY Zenon, <1>1, <1>2, CheckedWithout
<1>3. CASE CheckConflict(c) /\ NextRound(c)
  <2>1. controlling' \in BOOLEAN /\ tie' \in Ties
    BY Zenon, <1>3 DEF CheckConflict, Yielded
  <2>2. SameChecks(checks, checks')
    BY Zenon, <1>1, <1>3, <2>1, NextRoundSame
  <2> QED
    BY Zenon, <2>2 DEF SameChecks, Active
<1>4. ASSUME NEW P, NEW cs \in CheckTable, SameChecks(Without(c), cs),
             checks' = StopRetrying(cs, P)
      PROVE  Active' \subseteq Active
  BY Zenon, <1>2, <1>4, StopRetryingSame, SameChecksTrans
<1>5. \A P : StopRetrying(Without(c), P) \in CheckTable
            /\ SameChecks(Without(c), StopRetrying(Without(c), P))
  BY Zenon, <1>1, StopRetryingSame DEF SameChecks
<1>6. CASE CheckOk(c)
  <2>1. PICK v \in SUBSET ValidEntry, e \in ValidEntry, ps \in [Pairs -> PairStates] :
           Succeeds(c, v, e, ps)
    BY Zenon, <1>6, SucceedCheckCases
  <2>2. CASE CheckComplete(checks[c].pair, ps, valid', checkList',
                 QueueWithout(KeyComp(e.key)), StopRetrying(Without(c), {e.obj}), state')
    BY Zenon, <1>4, <1>5, <2>2 DEF CheckComplete, Renew
  <2>3. CASE CheckComplete(checks[c].pair, ps, v, checkList, trigQ, Without(c), state)
    BY Zenon, <1>1, <1>4, <2>3 DEF CheckComplete, Renew
  <2> QED
    BY Zenon, <2>1, <2>2, <2>3 DEF Succeeds
<1>7. CASE ExhaustCheck(c)
  <2>1. checks' = Without(c) \/ \E P : checks' = StopRetrying(Without(c), P)
    BY Zenon, <1>7 DEF ExhaustCheck, FailCheck, CheckComplete, Renew
  <2> QED
    BY Zenon, <1>1, <1>2, <1>4, <2>1
<1> QED
  BY Zenon, <1>1, <1>2, <1>3, <1>6, <1>7 DEF Resumes, CheckFailed, CheckCancelled,
     CheckConflict, FailCheck, CancelCheck

LEMMA NextRests == ASSUME Inv, Transports, Next \/ UNCHANGED vars PROVE LoopRests'
<1> USE DEF Transports
<1>0. checks \in CheckTable
  BY Zenon DEF Inv, TypeOK, CheckTable
<1>1. CASE UNCHANGED <<checks, loop, freeTimer>>
  BY Zenon, <1>1 DEF LoopRests, Active
<1>2. ASSUME NEW ps, Turn(ps), loop \in {"idle", "waiting"}, freeTimer' => freeTimer
      PROVE  LoopRests'
  <2>1. loop' \in {"waiting", "draining"}
    BY Zenon, <1>2, PerformHeld
       DEF Turn, TriggeredTurn, OrdinaryTurn, IdleTurn, LeaveLoop, Perform
  <2> QED
    BY Zenon, <1>2, <2>1 DEF LoopRests
<1>3. CASE Connect \/ Tick
  <2>1. loop \in {"idle", "waiting"} /\ (freeTimer' => freeTimer)
    BY <1>3 DEF Connect, Tick, SetState
  <2>2. \E ps : Turn(ps)
    BY Zenon, <1>3 DEF Connect, Tick
  <2> QED
    BY Zenon, <1>2, <2>1, <2>2
<1>4. CASE Woken
  BY Zenon, <1>4 DEF Woken, LeaveLoop, LoopRests
<1>5. CASE Drained
  BY Zenon, <1>5 DEF Drained, LoopRests, Active
<1>6. ASSUME NEW c \in CheckIds, Waits(c) PROVE LoopRests'
  <2>1. SameChecks(checks, checks') /\ UNCHANGED <<loop, freeTimer>>
    BY Zenon, <1>6, WaitsSame DEF Move
  <2> QED
    BY Zenon, <2>1, RestsStep DEF SameChecks, Active
<1>7. ASSUME NEW c \in CheckIds, Resumes(c) PROVE LoopRests'
  <2>1. Active' \subseteq Active
    BY Zenon, <1>7, ResumesActive
  <2>2. loop' \in {loop, WokenLoop} /\ (freeTimer' => freeTimer)
    BY ZenonT(30), <1>7 DEF Resumes, CheckOk, SucceedCheck, CheckFailed, CheckCancelled,
       CheckConflict, FailCheck, CancelCheck, NextRound, ExhaustCheck,
       CompleteNomination, SetState
  <2> QED
    BY Zenon, <2>1, <2>2, RestsStep
<1>8. ASSUME NEW h \in HandlerIds, RequestProceeds(h) PROVE LoopRests'
  <2>1. checks' = checks \/ \E P : checks' = StopRetrying(checks, P)
    BY Zenon, <1>8 DEF RequestProceeds, TriggerSucceeded, TriggerInProgress,
       TriggerUnchecked, TriggerNew
  <2>2. Active' \subseteq Active
    <3>1. SameChecks(checks, checks')
      <4>1. SameChecks(checks, checks)
        BY Zenon, <1>0 DEF SameChecks
      <4> QED
        BY Zenon, <1>0, <2>1, <4>1, StopRetryingSame
    <3> QED
      BY Zenon, <3>1 DEF SameChecks, Active
  <2>3. loop' \in {loop, WokenLoop} /\ (freeTimer' => freeTimer)
    <3>1. UNCHANGED <<loop, freeTimer>> \/ \E e : CompleteNomination(valid, e)
      BY Zenon, <1>8 DEF RequestProceeds, TriggerSucceeded, TriggerInProgress,
         TriggerUnchecked, TriggerNew
    <3>2. ASSUME NEW e, CompleteNomination(valid, e)
          PROVE  loop' \in {loop, WokenLoop} /\ (freeTimer' => freeTimer)
      <4>1. loop' \in {loop, WokenLoop}
        BY Zenon, <3>2 DEF CompleteNomination
      <4>2. freeTimer' => freeTimer
        BY Zenon, <3>2 DEF CompleteNomination, SetState
      <4> QED
        BY Zenon, <4>1, <4>2
    <3>3. CASE UNCHANGED <<loop, freeTimer>>
      BY Zenon, <3>3
    <3> QED
      BY Zenon, <3>1, <3>2, <3>3
  <2> QED
    BY Zenon, <2>2, <2>3, RestsStep
<1>9. CASE Close
  <2>1. Active' \subseteq Active
    BY Zenon, <1>0, <1>9, StopRetryingSame DEF Close, SameChecks, Active
  <2> QED
    BY Zenon, <1>9, <2>1, RestsStep DEF Close, SetState
<1>a. CASE FreeCandidates
  BY Zenon, <1>a DEF FreeCandidates, LoopRests, Active
<1>b. CASE Candidates
  BY Zenon, <1>1, <1>b DEF Candidates, GatherHosts, SrflxAnswer, GatherRelay, GatherEnd,
     EndOfRemotes, AddRemoteCandidate, AddMdnsCandidate, MdnsResolved, MdnsFailed,
     AddResolved
<1>c. ASSUME NEW h \in HandlerIds, Inbound(h) PROVE LoopRests'
  BY Zenon, <1>1, <1>8, <1>c DEF Inbound, Request, RequestWaits, RequestLate
<1>d. CASE UNCHANGED vars
  BY Zenon, <1>1, <1>d DEF vars
<1> QED
  BY Zenon, <1>3, <1>4, <1>5, <1>6, <1>7, <1>9, <1>a, <1>b, <1>c, <1>d DEF Next

\* What the agent holds has a transport, and the loop ends after its checks.
THEOREM TransportsAlways == Spec => []Transports
<1>1. Init => Transports
  <2> SUFFICES ASSUME Init PROVE Transports
    OBVIOUS
  <2>1. Active = {} /\ Checked(checks) = {}
    BY ZenonT(30) DEF Init, Active, Checked
  <2>2. Held = {}
    BY Zenon, <2>1 DEF Init, Held, Queued, Sources
  <2> QED
    BY Zenon, <2>1, <2>2 DEF Init, Transports, AllServed, ClosedPlain, LoopRests, Open
<1>2. Inv /\ Transports /\ [Next]_vars => Transports'
  BY Zenon, NextServed, NextClosed, NextRests DEF Transports
<1> QED
  BY <1>1, <1>2, Invariance, PTL DEF Spec

\* A nominated pair keeps the transport its data arrives on (free_candidates),
\* whichever address a NAT gave it.
THEOREM TransportKept == Spec => []NominatedKeepsTransport
<1>1. Transports => NominatedKeepsTransport
  BY Zenon DEF Transports, AllServed, ClosedPlain, Carried, NominatedKeepsTransport
<1> QED
  BY <1>1, TransportsAlways, PTL

-----------------------------------------------------------------------------
(* A lite peer sends no checks and asks for nothing: every check of the    *)
(* agent carries USE-CANDIDATE, the first success nominates, and no pair   *)
(* is ever under two checks, so that none can undo what another achieved.  *)

\* The object p of a pair has been made.
Made(p) == p[2] <= made[KeyOf(p)]

AllUse(cs) == \A c \in CheckIds : cs[c] # Idle => cs[c].use

\* Nothing is queued and nobody asks.
LiteQuiet == trigQ = {} /\ \A h \in HandlerIds : handlers[h] = Idle

\* A component that has a valid pair has a nominated one.
LiteNominated == /\ Open => \A e \in valid : HasNominated(valid, KeyComp(e.key))
                 /\ state = "CONNECTED" => AllNominated(valid)
                 /\ state = "INIT" => loop = "idle" /\ valid = {}

\* A pair under check has one check, and one that made something valid has none.
LitePairs == /\ \A p \in checkList : Made(p)
             /\ \A p \in Sources(valid) : /\ pairState[p] = "SUCCEEDED" /\ Made(p)
                                          /\ p \notin Checked(checks)
             /\ \A p \in Checked(checks) : /\ Made(p)
                                           /\ pairState[p] \in {"IN_PROGRESS", "SUCCEEDED"}
             /\ \A c, d \in Active : checks[c].pair = checks[d].pair => c = d

Lite == LiteQuiet /\ LiteNominated /\ LitePairs /\ AllUse(checks)

\* No nomination is undone by the step.
NominationsStay == \A e \in valid : e.nominated => \E f \in valid' : f.key = e.key /\ f.nominated

LEMMA StopRetryingUse ==
    ASSUME NEW cs \in CheckTable, AllUse(cs), NEW P PROVE AllUse(StopRetrying(cs, P))
<1> SUFFICES ASSUME NEW c \in CheckIds, StopRetrying(cs, P)[c] # Idle
             PROVE  StopRetrying(cs, P)[c].use
  BY Zenon DEF AllUse
<1>1. cs[c] \in Check /\ cs[c].use
  BY StopRetryingSame DEF SameChecks, AllUse, CheckTable
<1>2. [cs[c] EXCEPT !.phase = "quiet"].use = cs[c].use
  BY ZenonT(30), <1>1 DEF Check
<1> QED
  BY Zenon, <1>1, <1>2 DEF StopRetrying

LEMMA StoppedUse ==
    ASSUME NEW cs \in CheckTable, AllUse(cs)
    PROVE  AllUse([c \in CheckIds |-> Stopped(cs[c])])
<1>1. \A k \in Check : Stopped(k).use = k.use
  <2> SUFFICES ASSUME NEW k \in Check PROVE Stopped(k).use = k.use
    OBVIOUS
  <2>1. CASE k.phase = "perm"
    BY Zenon, <2>1 DEF Stopped, Check
  <2>2. CASE k.phase \in {"sched", "retry", "quiet"}
    BY Zenon, <2>2 DEF Stopped, Check
  <2>3. CASE k.phase = "ending"
    BY Zenon, <2>3 DEF Stopped
  <2> QED
    BY Zenon, <2>1, <2>2, <2>3 DEF Check
<1>2. Stopped(Idle) = Idle
  BY Zenon DEF Stopped, Idle
<1> SUFFICES ASSUME NEW c \in CheckIds, Stopped(cs[c]) # Idle
             PROVE  Stopped(cs[c]).use
  BY Zenon DEF AllUse
<1>3. cs[c] \in Check /\ cs[c].use
  BY Zenon, <1>2 DEF AllUse, CheckTable
<1> QED
  BY Zenon, <1>1, <1>3

\* The checks that go on keep their pairs.
LEMMA ChecksApart ==
    ASSUME NEW cs, NEW ds, SameChecks(cs, ds),
           \A c, d \in CheckIds : cs[c] # Idle /\ cs[d] # Idle /\ cs[c].pair = cs[d].pair
                                      => c = d
    PROVE  \A c, d \in CheckIds : ds[c] # Idle /\ ds[d] # Idle /\ ds[c].pair = ds[d].pair
                                      => c = d
BY Zenon DEF SameChecks

\* A step that starts no check and makes nothing valid.
LEMMA LitePairsKept ==
    ASSUME LitePairs, SameChecks(checks, checks'),
           \A p \in checkList' : p \in checkList \/ Made(p)',
           Sources(valid') \subseteq Sources(valid),
           \A p \in Pairs : Made(p) => Made(p)',
           \A p \in Sources(valid) \cup Checked(checks) : pairState'[p] = pairState[p],
           Sources(valid) \subseteq Pairs, Checked(checks) \subseteq Pairs,
           checkList \subseteq Pairs
    PROVE  LitePairs'
<1>1. Checked(checks') = Checked(checks)
  BY Zenon, CheckedSame
<1>2. \A c, d \in Active' : checks'[c].pair = checks'[d].pair => c = d
  <2>1. \A c, d \in CheckIds :
            checks[c] # Idle /\ checks[d] # Idle /\ checks[c].pair = checks[d].pair
                => c = d
    BY Zenon DEF LitePairs, Active
  <2>2. \A c, d \in CheckIds :
            checks'[c] # Idle /\ checks'[d] # Idle /\ checks'[c].pair = checks'[d].pair
                => c = d
    BY ONLY SameChecks(checks, checks'), <2>1, ChecksApart
  <2> QED
    BY Zenon, <2>2 DEF Active
<1>3. \A p \in checkList' : Made(p)'
  BY Zenon DEF LitePairs
<1>4. \A p \in Sources(valid') : /\ pairState'[p] = "SUCCEEDED" /\ Made(p)'
                                 /\ p \notin Checked(checks')
  BY Zenon, <1>1 DEF LitePairs
<1>5. \A p \in Checked(checks') : /\ Made(p)'
                                  /\ pairState'[p] \in {"IN_PROGRESS", "SUCCEEDED"}
  BY Zenon, <1>1 DEF LitePairs
<1> QED
  BY Zenon, <1>2, <1>3, <1>4, <1>5 DEF LitePairs

LEMMA HeldTypes == Inv => /\ Sources(valid) \subseteq Pairs /\ Checked(checks) \subseteq Pairs
                          /\ checkList \subseteq Pairs
<1> SUFFICES ASSUME Inv PROVE /\ Sources(valid) \subseteq Pairs
                              /\ Checked(checks) \subseteq Pairs /\ checkList \subseteq Pairs
  OBVIOUS
<1>1. Sources(valid) \subseteq Pairs /\ checkList \subseteq Pairs
  BY Zenon DEF Inv, TypeOK, ValidEntry, Sources
<1>2. checks \in CheckTable
  BY Zenon DEF Inv, TypeOK, CheckTable
<1> QED
  BY Zenon, <1>1, <1>2, ActiveCheck DEF Checked

\* The candidates, the clocks and the calls that end nothing leave a lite peer's
\* agent as it was.
LEMMA LiteStep ==
    ASSUME Lite, trigQ' = {}, UNCHANGED <<handlers, valid>>, LitePairs', AllUse(checks'),
           Open' => Open, state' = "CONNECTED" => state = "CONNECTED",
           state' = "INIT" => state = "INIT" /\ loop' = loop
    PROVE  Lite' /\ NominationsStay
<1>1. LiteQuiet' /\ AllUse(checks)' /\ NominationsStay
  BY Zenon DEF Lite, LiteQuiet, AllUse, NominationsStay
<1>2. LiteNominated'
  BY Zenon DEF Lite, LiteNominated, AllNominated, HasNominated
<1> QED
  BY Zenon, <1>1, <1>2 DEF Lite

\* New pairs are new objects.
LEMMA MadeKept ==
    ASSUME Inv, NEW K \in SUBSET Keys, MakePairs(K)
    PROVE  /\ \A p \in Pairs : Made(p) => Made(p)' /\ pairState'[p] = pairState[p]
           /\ \A p \in checkList' : p \in checkList \/ Made(p)'
<1> DEFINE New == {k \in K : ~Redundant(k)}
<1>1. /\ made' = [k \in Keys |-> IF k \in New THEN made[k] + 1 ELSE made[k]]
      /\ checkList' = checkList \cup {NewPair(k) : k \in New}
      /\ \A p \in Pairs : p # NewPair(KeyOf(p)) => pairState'[p] = pairState[p]
  BY Zenon DEF MakePairs
<1> HIDE DEF New
<1>2. made \in [Keys -> Nat]
  BY LimitAssumption DEF Inv, TypeOK
<1>3. ASSUME NEW p \in Pairs, Made(p) PROVE Made(p)' /\ pairState'[p] = pairState[p]
  <2>1. KeyOf(p) \in Keys /\ p[2] \in Nat /\ made[KeyOf(p)] \in Nat
    BY <1>2, LimitAssumption DEF Pairs, KeyOf
  <2>2. p[2] <= made[KeyOf(p)]
    BY Zenon, <1>3 DEF Made
  <2>3. p # NewPair(KeyOf(p))
    <3>1. NewPair(KeyOf(p))[2] = made[KeyOf(p)] + 1
      BY Zenon DEF NewPair
    <3> QED
      BY <2>1, <2>2, <3>1
  <2>4. made[KeyOf(p)] <= made'[KeyOf(p)] /\ made'[KeyOf(p)] \in Nat
    BY <1>1, <2>1
  <2>5. p[2] <= made'[KeyOf(p)]
    BY <2>1, <2>2, <2>4
  <2> QED
    BY ZenonT(30), <1>1, <2>3, <2>5 DEF Made, KeyOf
<1>4. ASSUME NEW k \in New, NEW p, p = NewPair(k) PROVE Made(p)'
  <2>1. made'[k] = made[k] + 1 /\ made[k] \in Nat
    BY Zenon, <1>1, <1>2 DEF New
  <2>2. p[2] = made[k] + 1 /\ KeyOf(p) = k
    BY Zenon, <1>4 DEF NewPair, KeyOf
  <2> QED
    BY <2>1, <2>2 DEF Made, KeyOf
<1> QED
  BY Zenon, <1>1, <1>3, <1>4

LEMMA CandidatesLite ==
    ASSUME Inv, Lite, Candidates PROVE Lite' /\ NominationsStay
<1>1. UNCHANGED <<state, loop, valid, trigQ, checks, handlers>>
  BY Zenon DEF Candidates, GatherHosts, SrflxAnswer, GatherRelay, GatherEnd,
     EndOfRemotes, AddRemoteCandidate, AddMdnsCandidate, MdnsResolved, MdnsFailed,
     AddResolved
<1>2. UNCHANGED listVars \/ \E K \in SUBSET Keys : MakePairs(K)
  <2>1. ASSUME NEW comp \in Components, GatherHosts(comp)
        PROVE  \E K \in SUBSET Keys : MakePairs(K)
    BY Zenon, <2>1 DEF GatherHosts
  <2>2. ASSUME NEW h \in Hosts, SrflxAnswer(h) PROVE \E K \in SUBSET Keys : MakePairs(K)
    BY Zenon, <2>2 DEF SrflxAnswer
  <2>3. ASSUME NEW r \in Remotes, AddResolved(r)
        PROVE  UNCHANGED listVars \/ \E K \in SUBSET Keys : MakePairs(K)
    BY Zenon, <2>3 DEF AddResolved, listVars
  <2> QED
    BY Zenon, <2>1, <2>2, <2>3 DEF Candidates, GatherRelay, GatherEnd, EndOfRemotes,
       AddRemoteCandidate, AddMdnsCandidate, MdnsResolved, MdnsFailed
<1>3. /\ \A p \in Pairs : Made(p) => Made(p)' /\ pairState'[p] = pairState[p]
      /\ \A p \in checkList' : p \in checkList \/ Made(p)'
  <2>1. CASE UNCHANGED listVars
    BY Zenon, <2>1 DEF listVars, Made
  <2> QED
    BY Zenon, <1>2, <2>1, MadeKept
<1>4. SameChecks(checks, checks')
  BY Zenon, <1>1 DEF SameChecks, Inv, TypeOK, CheckTable
<1>5. \A p \in Sources(valid) \cup Checked(checks) : pairState'[p] = pairState[p]
  BY Zenon, <1>3, HeldTypes DEF Lite, LitePairs
<1>6. LitePairs'
  BY Zenon, <1>1, <1>3, <1>4, <1>5, HeldTypes, LitePairsKept DEF Lite
<1> QED
  BY Zenon, <1>1, <1>6, LiteStep DEF Lite, LiteQuiet, Open, AllUse

\* A turn of the loop starts at most one check, of a pair that had none and that
\* made nothing valid.
LEMMA PerformLite ==
    ASSUME RemoteLite, Inv, LitePairs, AllUse(checks), NEW p \in checkList, NEW use,
           NEW ps \in [Pairs -> PairStates], Perform(p, use, ps),
           UNCHANGED <<made, checkList, valid>>,
           \A x \in Sources(valid) \cup Checked(checks) : ps[x] = pairState[x],
           p \notin Sources(valid) \cup Checked(checks)
    PROVE  LitePairs' /\ AllUse(checks')
<1>1. CASE MayPerform
  <2>1. PICK c \in CheckIds \ Active, f \in FirstPhases(p) :
           checks' = [checks EXCEPT ![c] =
                     [phase |-> f, pair |-> p, use |-> use \/ RemoteLite,
                      role |-> controlling, tie |-> tie, round |-> 1,
                      result |-> "none"]]
    BY ZenonT(30), <1>1 DEF Perform
  <2> DEFINE k == [phase |-> f, pair |-> p, use |-> use \/ RemoteLite,
                   role |-> controlling, tie |-> tie, round |-> 1,
                   result |-> "none"]
  <2>2. k.pair = p /\ k.use /\ k # Idle
    BY ZenonT(30) DEF Idle
  <2>3. checks' = [checks EXCEPT ![c] = k]
    BY ZenonT(30), <2>1
  <2> HIDE DEF k
  <2>4. checks'[c] = k /\ checks[c] = Idle
        /\ \A d \in CheckIds \ {c} : checks'[d] = checks[d]
    BY Zenon, <2>3 DEF Inv, TypeOK, Active
  <2>5. Checked(checks') = Checked(checks) \cup {p}
    BY <2>2, <2>4 DEF Checked
  <2>6. p \in Pairs /\ pairState' = [ps EXCEPT ![p] = "IN_PROGRESS"]
    BY Zenon, <1>1 DEF Perform, Inv, TypeOK
  <2>7. pairState'[p] = "IN_PROGRESS"
        /\ \A x \in Sources(valid) \cup Checked(checks) : pairState'[x] = pairState[x]
    BY Zenon, <2>6, HeldTypes
  <2>8. \A c1, d1 \in Active' : checks'[c1].pair = checks'[d1].pair => c1 = d1
    <3> SUFFICES ASSUME NEW c1 \in Active', NEW d1 \in Active',
                        checks'[c1].pair = checks'[d1].pair, c1 # d1
                 PROVE  FALSE
      OBVIOUS
    <3>1. \A d \in Active' \ {c} : d \in Active /\ checks'[d] = checks[d]
                                   /\ checks[d].pair \in Checked(checks)
      BY Zenon, <2>4 DEF Active, Checked
    <3>2. ASSUME NEW d \in Active' \ {c} PROVE checks'[d].pair # checks'[c].pair
      <4>1. checks'[c].pair = p /\ checks'[d].pair \in Checked(checks)
        BY ZenonT(30), <2>2, <2>4, <3>1
      <4> QED
        BY ZenonT(30), <4>1
    <3>3. CASE c1 # c /\ d1 # c
      <4>1. \A d, e \in Active : checks[d].pair = checks[e].pair => d = e
        BY Zenon DEF LitePairs
      <4> QED
        BY ZenonT(30), <3>1, <3>3, <4>1
    <3> QED
      BY Zenon, <3>2, <3>3
  <2>9. AllUse(checks')
    BY Zenon, <2>2, <2>4 DEF AllUse
  <2>a. \A x \in Pairs : Made(x)' <=> Made(x)
    BY Zenon DEF Made
  <2>b. \A x \in Sources(valid') : /\ pairState'[x] = "SUCCEEDED" /\ Made(x)'
                                   /\ x \notin Checked(checks')
    BY ZenonT(30), <2>5, <2>7, <2>a, HeldTypes DEF LitePairs
  <2>c. \A x \in Checked(checks') : /\ Made(x)'
                                    /\ pairState'[x] \in {"IN_PROGRESS", "SUCCEEDED"}
    BY Zenon, <2>5, <2>6, <2>7, <2>a, HeldTypes DEF LitePairs
  <2>d. \A x \in checkList' : Made(x)'
    BY Zenon, <2>a, HeldTypes DEF LitePairs
  <2> QED
    BY Zenon, <2>8, <2>9, <2>b, <2>c, <2>d DEF LitePairs
<1>2. CASE ~MayPerform
  <2>1. pairState' = ps /\ UNCHANGED checks
    BY Zenon, <1>2 DEF Perform
  <2> QED
    BY Zenon, <2>1 DEF LitePairs, AllUse, Active, Made
<1> QED
  BY Zenon, <1>1, <1>2

LEMMA TurnLite ==
    ASSUME RemoteLite, Inv, LitePairs, AllUse(checks), trigQ = {},
           NEW ps \in [Pairs -> PairStates], Turn(ps),
           UNCHANGED <<made, checkList, valid>>,
           \A x \in Sources(valid) \cup Checked(checks) : ps[x] = pairState[x]
    PROVE  LitePairs' /\ AllUse(checks') /\ trigQ' = {}
<1> DEFINE ts == ThawIdleFoundations(ps)
           X == Sources(valid) \cup Checked(checks)
<1>1. ts \in [Pairs -> PairStates] /\ \A x \in Pairs : ts[x] = ps[x] \/ ps[x] = "FROZEN"
  BY ZenonT(30) DEF ThawIdleFoundations, PairStates
<1>2. \A x \in X : x \in Pairs /\ ps[x] \in {"IN_PROGRESS", "SUCCEEDED"}
  BY Zenon, HeldTypes DEF LitePairs
<1>3. \A x \in X : ts[x] = pairState[x] /\ ts[x] # "WAITING"
  BY Zenon, <1>1, <1>2
<1> HIDE DEF ts, X
<1>4. CASE OrdinaryTurn(ps)
  <2>1. PICK p \in checkList : ts[p] = "WAITING" /\ Perform(p, FALSE, ts)
    BY Zenon, <1>4 DEF OrdinaryTurn, Waiting, ts
  <2>2. p \notin X /\ trigQ' = {}
    BY Zenon, <1>3, <1>4, <2>1 DEF OrdinaryTurn
  <2> QED
    BY Zenon, <1>1, <1>3, <2>1, <2>2, PerformLite DEF X
<1>5. CASE IdleTurn(ps)
  <2>1. pairState' \in {ps, ts} /\ UNCHANGED trigQ
        /\ (UNCHANGED checks \/ LeaveLoop)
    BY Zenon, <1>5 DEF IdleTurn, ts
  <2>2. checks \in CheckTable
    BY Zenon DEF Inv, TypeOK, CheckTable
  <2>3. SameChecks(checks, checks') /\ AllUse(checks')
    <3>1. CASE UNCHANGED checks
      BY Zenon, <2>2, <3>1 DEF SameChecks, AllUse
    <3>2. CASE LeaveLoop
      BY Zenon, <2>2, <3>2, StoppedSame, StoppedUse DEF LeaveLoop
    <3> QED
      BY Zenon, <2>1, <3>1, <3>2
  <2>4. Checked(checks') = Checked(checks)
    BY Zenon, <2>3, CheckedSame
  <2>5. \A x \in X : pairState'[x] = pairState[x]
    BY Zenon, <1>3, <2>1 DEF X
  <2>6. (\A p \in Pairs : Made(p) => Made(p)') /\ Sources(valid') \subseteq Sources(valid)
        /\ \A p \in checkList' : p \in checkList \/ Made(p)'
    BY Zenon DEF Made
  <2>7. LitePairs'
    BY Zenon, <2>3, <2>5, <2>6, HeldTypes, LitePairsKept DEF X
  <2> QED
    BY Zenon, <2>1, <2>3, <2>7
<1> QED
  BY Zenon, <1>4, <1>5 DEF Turn, TriggeredTurn

LEMMA LoopLite ==
    ASSUME RemoteLite, Inv, LoopRests, Lite, Connect \/ Tick \/ Woken \/ Drained
    PROVE  Lite' /\ NominationsStay
<1>0. checks \in CheckTable /\ trigQ = {} /\ LitePairs /\ AllUse(checks)
  BY Zenon DEF Inv, TypeOK, CheckTable, Lite, LiteQuiet
<1>1. UNCHANGED <<handlers, valid, made, checkList>> /\ (Open' => Open)
      /\ (state' = "CONNECTED" => state = "CONNECTED")
  BY Zenon DEF Connect, Tick, Woken, Drained, SetState, listVars, Open
<1>2. state' # "INIT"
  BY Zenon DEF Connect, Tick, Woken, Drained, SetState, Lite, LiteNominated
<1>3. SUFFICES LitePairs' /\ AllUse(checks') /\ trigQ' = {}
  BY Zenon, <1>1, <1>2, <1>3, LiteStep
<1>4. CASE Connect
  <2>1. Sources(valid) \cup Checked(checks) = {}
    <3>1. valid = {} /\ Active = {}
      BY Zenon, <1>4 DEF Connect, Lite, LiteNominated, LoopRests
    <3> QED
      BY Zenon, <3>1 DEF Sources, Checked, Active
  <2>2. PICK U \in Topmost : Turn(UnfreezeInitial(U))
    BY Zenon, <1>4 DEF Connect
  <2>3. UnfreezeInitial(U) \in [Pairs -> PairStates]
    BY Zenon DEF UnfreezeInitial, Inv, TypeOK, PairStates
  <2> QED
    BY Zenon, <1>0, <1>1, <1>4, <2>1, <2>2, <2>3, TurnLite DEF Connect
<1>5. CASE Tick
  BY Zenon, <1>0, <1>1, <1>5, TurnLite DEF Tick, Inv, TypeOK
<1>6. CASE Woken \/ Drained
  <2>1. SameChecks(checks, checks') /\ AllUse(checks')
    <3>1. CASE UNCHANGED checks
      BY Zenon, <1>0, <3>1 DEF SameChecks, AllUse
    <3>2. CASE LeaveLoop
      BY Zenon, <1>0, <3>2, StoppedSame, StoppedUse DEF LeaveLoop
    <3> QED
      BY Zenon, <1>6, <3>1, <3>2 DEF Woken, Drained
  <2>2. UNCHANGED <<pairState, trigQ>>
    BY Zenon, <1>6 DEF Woken, Drained, listVars
  <2>3. (\A p \in Pairs : Made(p) => Made(p)')
        /\ \A p \in checkList' : p \in checkList \/ Made(p)'
    BY Zenon, <1>1 DEF Made
  <2>4. LitePairs'
    BY Zenon, <1>0, <1>1, <2>1, <2>2, <2>3, HeldTypes, LitePairsKept
  <2> QED
    BY Zenon, <1>0, <2>1, <2>2, <2>4
<1> QED
  BY Zenon, <1>4, <1>5, <1>6

LEMMA WaitsLite ==
    ASSUME Inv, Lite, NEW c \in CheckIds, Waits(c) PROVE Lite' /\ NominationsStay
<1>1. PICK f, r : Move(c, f, r)
  BY Zenon, WaitsSame
<1>2. /\ UNCHANGED <<state, listVars, valid, trigQ, loop, handlers>>
      /\ checks' = [checks EXCEPT ![c].phase = f, ![c].result = r]
  BY Zenon, <1>1 DEF Move
<1>3. checks \in CheckTable /\ checks[c] # Idle /\ SameChecks(checks, checks')
  BY Zenon, WaitsSame DEF Inv, TypeOK, CheckTable, Waits, PermissionGranted, TransactionRun,
     GiveUp, Answer, Undecided
<1>4. AllUse(checks')
  <2>1. \A d \in CheckIds \ {c} : checks'[d] = checks[d]
    BY Zenon, <1>2, <1>3 DEF CheckTable
  <2>2. checks'[c] = [checks[c] EXCEPT !.phase = f, !.result = r]
    BY Zenon, <1>2, <1>3 DEF CheckTable
  <2>3. checks'[c].use = checks[c].use
    BY Zenon, <1>3, <2>2, ActiveCheck DEF Check
  <2> QED
    BY Zenon, <1>3, <2>1, <2>3 DEF AllUse, Lite
<1>5. (\A p \in Pairs : Made(p) => Made(p)') /\ Sources(valid') \subseteq Sources(valid)
      /\ \A p \in checkList' : p \in checkList \/ Made(p)'
  BY Zenon, <1>2 DEF Made, listVars
<1>6. LitePairs'
  BY Zenon, <1>2, <1>3, <1>5, HeldTypes, LitePairsKept DEF Lite, listVars
<1> QED
  BY Zenon, <1>2, <1>4, <1>6, LiteStep DEF Lite, LiteQuiet, Open

\* A check that ends was the only one of its pair.
LEMMA LitePairsEnd ==
    ASSUME Inv, LitePairs, NEW c \in CheckIds, checks[c] # Idle,
           SameChecks(Without(c), checks'), UNCHANGED made, checkList' \subseteq checkList,
           Sources(valid') \subseteq Sources(valid) \cup {checks[c].pair},
           checks[c].pair \in Sources(valid') => pairState'[checks[c].pair] = "SUCCEEDED",
           \A x \in (Sources(valid) \cup Checked(checks)) \ {checks[c].pair} :
               pairState'[x] = "SUCCEEDED" \/ pairState'[x] = pairState[x]
    PROVE  LitePairs'
<1> DEFINE p == checks[c].pair
<1>1. checks \in CheckTable /\ p \in Checked(checks)
  BY ZenonT(30) DEF Inv, TypeOK, CheckTable, Checked
<1>2. \A d \in CheckIds : checks'[d] # Idle => /\ d # c /\ checks[d] # Idle
                                               /\ checks'[d].pair = checks[d].pair
  BY Zenon, <1>1 DEF SameChecks, Without, CheckTable
<1>3. \A d, e \in CheckIds : checks[d] # Idle /\ checks[e] # Idle
                             /\ checks[d].pair = checks[e].pair => d = e
  BY Zenon DEF LitePairs, Active
<1>4. Checked(checks') \subseteq Checked(checks) \ {p}
  BY <1>2, <1>3 DEF Checked
<1> HIDE DEF p
<1>5. \A d, e \in Active' : checks'[d].pair = checks'[e].pair => d = e
  BY Zenon, <1>2, <1>3 DEF Active
<1>6. \A x \in Pairs : Made(x)' <=> Made(x)
  BY Zenon DEF Made
<1>7. \A x \in checkList' : Made(x)'
  BY Zenon, <1>6, HeldTypes DEF LitePairs
<1>8. \A x \in Sources(valid') : /\ pairState'[x] = "SUCCEEDED" /\ Made(x)'
                                 /\ x \notin Checked(checks')
  <2> SUFFICES ASSUME NEW x \in Sources(valid')
               PROVE  pairState'[x] = "SUCCEEDED" /\ Made(x)' /\ x \notin Checked(checks')
    OBVIOUS
  <2>1. CASE x = p
    BY ZenonT(30), <1>1, <1>4, <1>6, <2>1, HeldTypes DEF LitePairs, p
  <2>2. CASE x # p
    BY ZenonT(30), <1>4, <1>6, <2>2, HeldTypes DEF LitePairs, p
  <2> QED
    BY ZenonT(30), <2>1, <2>2
<1>9. \A x \in Checked(checks') : /\ Made(x)'
                                  /\ pairState'[x] \in {"IN_PROGRESS", "SUCCEEDED"}
  BY ZenonT(30), <1>4, <1>6, HeldTypes DEF LitePairs, p
<1> QED
  BY Zenon, <1>5, <1>7, <1>8, <1>9 DEF LitePairs

\* check_complete finds nothing to nominate: what is valid has its nomination.
LEMMA CheckCompleteLite ==
    ASSUME NEW p, NEW ps, NEW v, NEW cl, NEW cs, NEW st,
           CheckComplete(p, ps, v, cl, {}, cs, st),
           \/ st \in {"CLOSED", "CONNECTED"}
           \/ \A e \in v : HasNominated(v, KeyComp(e.key))
    PROVE  /\ trigQ' = {} /\ checks' = StopRetrying(cs, {})
           /\ \A x \in Pairs : pairState'[x] = ps[x] \/ ps[x] = "FROZEN"
<1>0. PICK T \in SUBSET v : Renew(T, p, ps, cl, {}, cs) /\ Picked(T, v, st)
  BY Zenon, CheckCompletePicks
<1> DEFINE S == {e.source : e \in T}
<1>1. T = {}
  BY Zenon, <1>0 DEF Picked
<1>2. S = {}
  BY Zenon, <1>1
<1>3. checks' = StopRetrying(cs, S)
      /\ \A x \in Pairs : pairState'[x] = ps[x] \/ ps[x] = "FROZEN" \/ x \in S
  BY ZenonT(30), <1>0 DEF Renew
<1>4. \E n : trigQ' = {} \cup {[at |-> n + KeyComp(e.key) - 1, pair |-> e.source,
                               use |-> TRUE] : e \in T}
  BY ZenonT(30), <1>0 DEF Renew
<1> HIDE DEF S
<1>5. trigQ' = {}
  BY Zenon, <1>1, <1>4
<1> QED
  BY Zenon, <1>2, <1>3, <1>5

LEMMA WithoutUse ==
    ASSUME Inv, AllUse(checks), NEW c \in CheckIds
    PROVE  /\ Without(c) \in CheckTable /\ AllUse(Without(c))
           /\ SameChecks(Without(c), Without(c))
<1>1. checks \in CheckTable
  BY Zenon DEF Inv, TypeOK, CheckTable
<1>2. \A d \in CheckIds : Without(c)[d] = IF d = c THEN Idle ELSE checks[d]
  BY Zenon, <1>1 DEF Without, CheckTable
<1> QED
  BY Zenon, <1>1, <1>2, WithoutType DEF AllUse

\* A check that fails or is cancelled takes nothing along.
LEMMA LostLite ==
    ASSUME RemoteLite, Inv, Lite, NEW c \in CheckIds, CheckFailed(c) \/ CheckCancelled(c)
    PROVE  Lite' /\ NominationsStay /\ UNCHANGED <<state, valid>>
<1> DEFINE p == checks[c].pair
<1>1. /\ checks[c] # Idle /\ checks' = Without(c) /\ (valid' = valid \/ valid' = EraseValid(p))
      /\ UNCHANGED <<state, made, checkList, trigQ, loop, handlers>>
      /\ \E s : pairState' = [pairState EXCEPT ![p] = s]
  BY Zenon DEF CheckFailed, CheckCancelled, Resumed, FailCheck, CancelCheck
<1>2. p \in Checked(checks) /\ p \in Pairs /\ p \notin Sources(valid)
  <2>1. p \in Checked(checks)
    BY Zenon, <1>1 DEF Checked
  <2> QED
    BY Zenon, <2>1, HeldTypes DEF Lite, LitePairs
<1>3. UNCHANGED valid
  <2>0. NoPair \notin Pairs
    BY DEF Pairs, NoPair
  <2>1. p # NoPair
    BY Zenon, <1>2, <2>0
  <2>2. EraseValid(p) = valid
    BY Zenon, <1>2, <2>1 DEF EraseValid, Sources
  <2> QED
    BY Zenon, <1>1, <2>2
<1>4. SameChecks(Without(c), checks') /\ AllUse(checks')
  BY Zenon, <1>1, WithoutUse DEF Lite
<1>5. \A x \in Pairs \ {p} : pairState'[x] = pairState[x]
  BY Zenon, <1>1 DEF Inv, TypeOK
<1>6. LitePairs'
  BY Zenon, <1>1, <1>2, <1>3, <1>4, <1>5, HeldTypes, LitePairsEnd DEF Lite
<1> QED
  BY Zenon, <1>1, <1>3, <1>4, <1>6, LiteStep DEF Lite, LiteQuiet, Open

\* What is nominated stays so as the list grows.
LEMMA HasNominatedMore ==
    ASSUME NEW v, NEW w, \A e \in v : e.nominated => \E f \in w : f.key = e.key /\ f.nominated
    PROVE  \A comp : HasNominated(v, comp) => HasNominated(w, comp)
BY Zenon DEF HasNominated

\* A success nominates, or finds its component nominated.
LEMMA SucceedsLite ==
    ASSUME Inv, LoopRests, LiteNominated, AllUse(checks), NEW c \in CheckIds, checks[c] # Idle,
           NEW v \in SUBSET ValidEntry, NEW e \in ValidEntry,
           NEW ps, Succeeds(c, v, e, ps)
    PROVE  /\ LiteNominated' /\ NominationsStay /\ Sources(valid') = Sources(v)
           /\ \/ state' \in {"CLOSED", "CONNECTED"}
              \/ \A f \in valid' : HasNominated(valid', KeyComp(f.key))
<1>1. /\ e \in v /\ checks[c].use
      /\ v = valid \/ v = valid \cup {e}
  BY Zenon DEF Succeeds, AllUse
<1>2. state # "INIT"
  BY Zenon DEF LiteNominated, LoopRests, Active
<1>3. \A comp : HasNominated(valid, comp) => HasNominated(v, comp)
  BY Zenon, <1>1 DEF HasNominated
<1>4. \A f \in v : KeyComp(f.key) \in Components
  BY Zenon, KeyType DEF ValidEntry
<1>5. CASE MayNominate(v, e) /\ CompleteNomination(v, e)
  <2>1. valid' = Nominated(v, e) /\ ~Over
    BY Zenon, <1>5 DEF CompleteNomination, MayNominate
  <2>2. /\ Sources(valid') = Sources(v) /\ \A f \in valid' : \E g \in v : g.key = f.key
        /\ \A f \in v : \E g \in valid' : g.key = f.key /\ (f.nominated => g.nominated)
    BY Zenon, <1>1, <2>1, NominatedKeys
  <2>3. \A comp : HasNominated(v, comp) => HasNominated(valid', comp)
    BY Zenon, <2>2 DEF HasNominated
  <2>4. HasNominated(valid', KeyComp(e.key))
    <3> DEFINE n == [e EXCEPT !.nominated = TRUE]
    <3>1. n.key = e.key /\ n.nominated
      BY Zenon DEF ValidEntry
    <3>2. n \in valid'
      BY Zenon, <2>1 DEF Nominated
    <3> HIDE DEF n
    <3> QED
      BY Zenon, <3>1, <3>2 DEF HasNominated
  <2>5. \A g \in v : HasNominated(valid', KeyComp(g.key))
    <3>1. \A g \in valid : HasNominated(valid, KeyComp(g.key))
      BY Zenon, <2>1 DEF Over, LiteNominated, Open
    <3> QED
      BY Zenon, <1>1, <1>3, <2>3, <2>4, <3>1
  <2>6. \A f \in valid' : HasNominated(valid', KeyComp(f.key))
    BY Zenon, <2>2, <2>5
  <2>7. NominationsStay
    BY Zenon, <1>1, <2>2 DEF NominationsStay
  <2>8. state' # "INIT" /\ (state' = "CONNECTED" => AllNominated(valid'))
    <3>1. CASE AllNominated(Nominated(v, e))
      BY Zenon, <1>5, <2>1, <3>1 DEF CompleteNomination, SetState
    <3>2. CASE ~AllNominated(Nominated(v, e))
      BY Zenon, <1>2, <1>5, <2>1, <3>2 DEF CompleteNomination, Over
    <3> QED
      BY Zenon, <3>1, <3>2
  <2>9. LiteNominated'
    BY Zenon, <2>6, <2>8 DEF LiteNominated, AllNominated, HasNominated
  <2> QED
    BY Zenon, <2>2, <2>6, <2>7, <2>9
<1>6. CASE valid' = v /\ ~MayNominate(v, e) /\ UNCHANGED state
  <2>1. ~Over => \A f \in v : HasNominated(v, KeyComp(f.key))
    <3> SUFFICES ASSUME ~Over PROVE \A f \in v : HasNominated(v, KeyComp(f.key))
      OBVIOUS
    <3>1. \A g \in valid : HasNominated(valid, KeyComp(g.key))
      BY Zenon DEF Over, LiteNominated, Open
    <3>2. HasNominated(v, KeyComp(e.key))
      BY Zenon, <1>1, <1>6 DEF MayNominate, HasNominated
    <3> QED
      BY Zenon, <1>1, <1>3, <3>1, <3>2
  <2>2. state = "CONNECTED" => AllNominated(v)
    BY Zenon, <1>3 DEF LiteNominated, AllNominated
  <2>3. Open => \A f \in v : HasNominated(v, KeyComp(f.key))
    BY Zenon, <1>4, <2>1, <2>2 DEF Over, Open, AllNominated
  <2>4. LiteNominated'
    BY Zenon, <1>2, <1>6, <2>2, <2>3 DEF LiteNominated, AllNominated, HasNominated, Open
  <2>5. NominationsStay
    BY Zenon, <1>1, <1>6 DEF NominationsStay
  <2> QED
    BY Zenon, <1>6, <2>1, <2>4, <2>5 DEF Over
<1> QED
  BY Zenon, <1>1, <1>5, <1>6 DEF Succeeds

LEMMA CheckOkLite ==
    ASSUME RemoteLite, Inv, LoopRests, Lite, NEW c \in CheckIds, CheckOk(c)
    PROVE  Lite' /\ NominationsStay
<1> DEFINE p == checks[c].pair
<1>1. PICK v \in SUBSET ValidEntry, e \in ValidEntry, ps \in [Pairs -> PairStates] :
         Succeeds(c, v, e, ps)
  BY Zenon, SucceedCheckCases
<1>2. /\ v = valid \/ (v = valid \cup {e} /\ e.source = p)
      /\ \A x \in Pairs : ps[x] = "SUCCEEDED" \/ ps[x] = pairState[x]
      /\ ps[p] = "SUCCEEDED"
  BY Zenon, <1>1 DEF Succeeds
<1>3. checks[c] # Idle /\ trigQ = {} /\ UNCHANGED <<made, handlers>>
  BY Zenon DEF CheckOk, Resumed, SucceedCheck, Lite, LiteQuiet
<1>4. /\ LiteNominated' /\ NominationsStay /\ Sources(valid') = Sources(v)
      /\ \/ state' \in {"CLOSED", "CONNECTED"}
         \/ \A f \in valid' : HasNominated(valid', KeyComp(f.key))
  BY Zenon, <1>1, <1>3, SucceedsLite DEF Lite
<1>5. /\ Without(c) \in CheckTable /\ AllUse(Without(c))
      /\ SameChecks(Without(c), Without(c))
  BY Zenon, WithoutUse DEF Lite
<1>6. p \in Pairs /\ Sources(valid) \subseteq Pairs /\ Checked(checks) \subseteq Pairs
  BY Zenon, <1>3, HeldTypes, ActiveCheck DEF Inv, TypeOK, CheckTable
<1>7. ASSUME NEW cs \in CheckTable, AllUse(cs), SameChecks(Without(c), cs),
             checkList' \subseteq checkList, NEW cl,
             CheckComplete(p, ps, valid', cl, {}, cs, state')
      PROVE  Lite'
  <2>1. /\ trigQ' = {} /\ checks' = StopRetrying(cs, {})
        /\ \A x \in Pairs : pairState'[x] = ps[x] \/ ps[x] = "FROZEN"
    BY Zenon, <1>4, <1>7, CheckCompleteLite
  <2>2. SameChecks(cs, checks') /\ AllUse(checks')
    BY Zenon, <1>7, <2>1, StopRetryingSame, StopRetryingUse
  <2>3. SameChecks(Without(c), checks')
    BY Zenon, <1>7, <2>2, SameChecksTrans
  <2>4. Sources(valid') \subseteq Sources(valid) \cup {p}
    BY Zenon, <1>2, <1>4 DEF Sources
  <2>5. pairState'[p] = "SUCCEEDED"
    BY Zenon, <1>2, <1>6, <2>1
  <2>6. \A x \in Sources(valid) \cup Checked(checks) :
            pairState'[x] = "SUCCEEDED" \/ pairState'[x] = pairState[x]
    <3>1. \A x \in Sources(valid) \cup Checked(checks) :
              x \in Pairs /\ pairState[x] # "FROZEN"
      BY Zenon, <1>6 DEF Lite, LitePairs
    <3> QED
      BY Zenon, <1>2, <2>1, <3>1
  <2> HIDE DEF p
  <2>7. LitePairs'
    BY Zenon, <1>3, <1>7, <2>3, <2>4, <2>5, <2>6, LitePairsEnd DEF Lite, p
  <2>8. LiteQuiet'
    BY Zenon, <1>3, <2>1 DEF Lite, LiteQuiet
  <2> QED
    BY Zenon, <1>4, <2>2, <2>7, <2>8 DEF Lite, AllUse
<1> HIDE DEF p
<1>8. CASE /\ CompleteNomination(v, e)
           /\ CheckComplete(p, ps, valid', checkList', QueueWithout(KeyComp(e.key)),
                            StopRetrying(Without(c), {e.obj}), state')
  <2>1. QueueWithout(KeyComp(e.key)) = {} /\ checkList' \subseteq checkList
    BY Zenon, <1>3, <1>8 DEF QueueWithout, CompleteNomination
  <2>2. SameChecks(Without(c), StopRetrying(Without(c), {e.obj}))
        /\ AllUse(StopRetrying(Without(c), {e.obj}))
    BY Zenon, <1>5, StopRetryingSame, StopRetryingUse
  <2>3. StopRetrying(Without(c), {e.obj}) \in CheckTable
    BY Zenon, <2>2 DEF SameChecks
  <2>4. CheckComplete(p, ps, valid', checkList', {}, StopRetrying(Without(c), {e.obj}),
                      state')
    BY Zenon, <1>8, <2>1
  <2> QED
    BY Zenon, <1>4, <1>7, <2>1, <2>2, <2>3, <2>4
<1>9. CASE /\ valid' = v /\ UNCHANGED <<state, checkList>>
           /\ CheckComplete(p, ps, v, checkList, trigQ, Without(c), state)
  <2>1. CheckComplete(p, ps, valid', checkList, {}, Without(c), state')
    BY Zenon, <1>3, <1>9
  <2> QED
    BY Zenon, <1>4, <1>5, <1>7, <1>9, <2>1
<1> QED
  BY Zenon, <1>1, <1>8, <1>9 DEF Succeeds, p

\* free_candidates and close().
LEMMA EndLite ==
    ASSUME Inv, LoopRests, Lite, FreeCandidates \/ Close
    PROVE  Lite' /\ (state' # "CLOSED" => NominationsStay)
<1>1. checks \in CheckTable /\ AllUse(checks)
  BY Zenon DEF Inv, TypeOK, CheckTable, Lite
<1>2. CASE FreeCandidates
  <2> DEFINE cleared(e) == [e EXCEPT !.source = NoPair]
  <2>1. /\ checkList' = {} /\ trigQ' = {} /\ valid' = {cleared(e) : e \in Kept}
        /\ UNCHANGED <<state, loop, checks, handlers>> /\ loop = "done" /\ Active = {}
    BY Zenon, <1>2 DEF FreeCandidates, LoopRests
  <2>2. \A e \in ValidEntry : /\ cleared(e).key = e.key /\ cleared(e).source = NoPair
                              /\ cleared(e).nominated = e.nominated
    BY Zenon DEF ValidEntry
  <2> HIDE DEF cleared
  <2>3. \A e \in Kept : e \in valid /\ e.nominated /\ e \in ValidEntry
    BY Zenon DEF Kept, Inv, TypeOK
  <2>4. \A f \in valid' : f.source = NoPair /\ f.nominated
    BY Zenon, <2>1, <2>2, <2>3
  <2>5. NominationsStay
    <3> SUFFICES ASSUME NEW e \in valid, e.nominated
                 PROVE  \E f \in valid' : f.key = e.key /\ f.nominated
      BY Zenon DEF NominationsStay
    <3>1. e \in Kept
      BY Zenon DEF Kept
    <3>2. cleared(e) \in valid' /\ cleared(e).key = e.key /\ cleared(e).nominated
      BY Zenon, <2>1, <2>2, <2>3, <3>1
    <3> QED
      BY Zenon, <3>2
  <2>6. \A comp : HasNominated(valid, comp) => HasNominated(valid', comp)
    BY Zenon, <2>5, HasNominatedMore DEF NominationsStay
  <2>7. \A f \in valid' : HasNominated(valid', KeyComp(f.key))
    BY Zenon, <2>4 DEF HasNominated
  <2>8. LiteNominated'
    BY Zenon, <2>1, <2>6, <2>7 DEF Lite, LiteNominated, AllNominated, HasNominated
  <2>9. Sources(valid') = {} /\ Checked(checks') = {} /\ Active' = {}
    BY Zenon, <2>1, <2>4 DEF Sources, Checked, Active
  <2>a. LitePairs' /\ LiteQuiet' /\ AllUse(checks)'
    BY Zenon, <1>1, <2>1, <2>9 DEF LitePairs, Lite, LiteQuiet, AllUse
  <2> QED
    BY Zenon, <2>5, <2>8, <2>a DEF Lite
<1>3. CASE Close
  <2>1. /\ checkList' = {} /\ valid' = {} /\ trigQ' = {} /\ state' = "CLOSED"
        /\ checks' = StopRetrying(checks, Pairs) /\ UNCHANGED <<made, pairState>>
        /\ handlers' = [h \in HandlerIds |-> Idle]
    BY Zenon, <1>3 DEF Close, SetState
  <2>2. SameChecks(checks, checks') /\ AllUse(checks')
    BY Zenon, <1>1, <2>1, StopRetryingSame, StopRetryingUse
  <2>3. Sources(valid') = {} /\ LiteQuiet'
    BY Zenon, <2>1 DEF Sources, LiteQuiet
  <2>4. \A p \in Pairs : Made(p) => Made(p)'
    BY Zenon, <2>1 DEF Made
  <2>5. LitePairs'
    BY Zenon, <2>1, <2>2, <2>3, <2>4, HeldTypes, LitePairsKept DEF Lite
  <2>6. LiteNominated'
    BY Zenon, <2>1 DEF LiteNominated, Open
  <2> QED
    BY Zenon, <2>1, <2>2, <2>3, <2>5, <2>6 DEF Lite, AllUse
<1> QED
  BY Zenon, <1>2, <1>3

LEMMA NobodyAsks ==
    ASSUME RemoteLite, Lite, NEW h \in HandlerIds, Inbound(h) PROVE FALSE
<1>1. handlers[h] = Idle
  BY Zenon DEF Lite, LiteQuiet
<1>2. handlers[h].phase # "resp"
  BY <1>1 DEF Idle
<1> QED
  BY Zenon, <1>1, <1>2 DEF Inbound, Request, RequestWaits, RequestLate, RequestProceeds

LEMMA NextLite ==
    ASSUME RemoteLite, Inv, LoopRests, Lite, Next \/ UNCHANGED vars
    PROVE  Lite' /\ (state' # "CLOSED" => NominationsStay)
<1>1. ASSUME NEW h \in HandlerIds, Inbound(h) PROVE FALSE
  BY Zenon, <1>1, NobodyAsks
<1>2. ASSUME NEW c \in CheckIds, Resumes(c) PROVE Lite' /\ NominationsStay
  BY Zenon, <1>2, CheckOkLite, LostLite DEF Resumes, CheckConflict
<1>3. CASE UNCHANGED vars
  <2>1. UNCHANGED <<state, loop, valid, trigQ, checks, handlers, checkList, pairState, made>>
    BY Zenon, <1>3 DEF vars, listVars
  <2>2. LitePairs' /\ AllUse(checks')
    BY Zenon, <2>1 DEF Lite, LitePairs, AllUse, Active, Made
  <2> QED
    BY Zenon, <2>1, <2>2, LiteStep DEF Lite, LiteQuiet, Open
<1> QED
  BY Zenon, <1>1, <1>2, <1>3, CandidatesLite, LoopLite, WaitsLite, EndLite DEF Next

LEMMA LiteAlways == ASSUME RemoteLite PROVE Spec => []Lite
<1>1. Init => Lite
  <2> SUFFICES ASSUME Init PROVE Lite
    OBVIOUS
  <2>1. Active = {} /\ Checked(checks) = {} /\ Sources(valid) = {}
    BY ZenonT(30) DEF Init, Active, Checked, Sources
  <2>2. LitePairs /\ AllUse(checks)
    BY Zenon, <2>1 DEF Init, LitePairs, AllUse
  <2>3. LiteQuiet /\ LiteNominated
    BY Zenon DEF Init, LiteQuiet, LiteNominated
  <2> QED
    BY Zenon, <2>2, <2>3 DEF Lite
<1>2. Inv /\ Transports /\ Lite /\ [Next]_vars => Lite'
  BY Zenon, NextLite DEF Transports
<1> QED
  BY <1>1, <1>2, Invariance, TransportsAlways, PTL DEF Spec

\* A nomination lasts until the agent is closed when the peer is a lite one: no
\* check that fails, is cancelled or is answered late undoes it (set_nominated).
THEOREM NominationLasts == ASSUME RemoteLite PROVE Spec => NominationKept
<1>1. Inv /\ Transports /\ Lite /\ [Next]_vars =>
        [state' # "CLOSED" =>
           \A e \in valid : e.nominated => \E f \in valid' : f.key = e.key /\ f.nominated]_vars
  BY Zenon, NextLite DEF Transports, NominationsStay
<1> QED
  BY <1>1, LiteAlways, Invariance, TransportsAlways, PTL DEF Spec, NominationKept

-----------------------------------------------------------------------------
(* With a lite peer the agent keeps the promise of Connection. *)

ChosenIn(v) == {e.key : e \in {f \in v : f.nominated}}

\* What the application sees of a nomination.
LEMMA NominatedChosen ==
    ASSUME NEW v \in SUBSET ValidEntry, NEW e \in v, ~e.nominated
    PROVE  ChosenIn(Nominated(v, e)) = ChosenIn(v) \cup {e.key}
<1> DEFINE n == [e EXCEPT !.nominated = TRUE]
<1>1. n.key = e.key /\ n.nominated
  BY Zenon DEF ValidEntry
<1>2. Nominated(v, e) = (v \ {e}) \cup {n}
  BY Zenon DEF Nominated
<1> HIDE DEF n
<1>3. ASSUME NEW k \in ChosenIn(Nominated(v, e)) PROVE k \in ChosenIn(v) \cup {e.key}
  BY Zenon, <1>1, <1>2, <1>3 DEF ChosenIn
<1>4. ASSUME NEW k \in ChosenIn(v) \cup {e.key} PROVE k \in ChosenIn(Nominated(v, e))
  BY Zenon, <1>1, <1>2, <1>4 DEF ChosenIn
<1> QED
  BY Zenon, <1>3, <1>4

LEMMA ChosenFull ==
    ASSUME NEW v PROVE AllNominated(v) <=> Promise!Full(ChosenIn(v))
<1>1. \A comp : HasNominated(v, comp) <=> \E k \in ChosenIn(v) : KeyComp(k) = comp
  BY Zenon DEF HasNominated, ChosenIn
<1> QED
  BY Zenon, <1>1 DEF AllNominated, Promise!Full

\* A successful check chooses, or changes nothing the application sees.
LEMMA SuccessPromised ==
    ASSUME RemoteLite, Inv, LoopRests, Lite, NEW c \in CheckIds, CheckOk(c)
    PROVE  UNCHANGED <<state, Chosen>> \/ \E k \in Keys : Promise!Choose(k)
<1>1. PICK v \in SUBSET ValidEntry, e \in ValidEntry, ps \in [Pairs -> PairStates] :
         Succeeds(c, v, e, ps)
  BY Zenon, SucceedCheckCases
<1>2. e \in v /\ (v = valid \/ (v = valid \cup {e} /\ ~e.nominated))
  BY Zenon, <1>1 DEF Succeeds
<1>3. ChosenIn(v) = ChosenIn(valid)
  BY Zenon, <1>2 DEF ChosenIn
<1>4. CASE MayNominate(v, e) /\ CompleteNomination(v, e)
  <2>1. state = "CONNECTING"
    <3>1. state \notin {"INIT", "CONNECTED", "CLOSED"}
      BY Zenon, <1>4 DEF MayNominate, Over, CheckOk, Resumed, Active, LoopRests, Lite,
         LiteNominated
    <3> QED
      BY Zenon, <3>1 DEF Inv, TypeOK, AgentStates
  <2>2. /\ valid' = Nominated(v, e) /\ ~e.nominated /\ ~HasNominated(v, KeyComp(e.key))
        /\ state' = IF AllNominated(valid') THEN "CONNECTED" ELSE state
    BY Zenon, <1>4 DEF CompleteNomination, MayNominate, SetState
  <2>3. Chosen' = Chosen \cup {e.key}
    BY Zenon, <1>2, <1>3, <2>2, NominatedChosen DEF Chosen, ChosenIn
  <2>4. state' = IF Promise!Full(Chosen') THEN "CONNECTED" ELSE state
    <3>1. AllNominated(valid') <=> Promise!Full(ChosenIn(valid'))
      BY Zenon, ChosenFull
    <3>2. ChosenIn(valid') = Chosen'
      BY Zenon DEF ChosenIn, Chosen
    <3> QED
      BY Zenon, <2>2, <3>1, <3>2
  <2>5. \A j \in Chosen : KeyComp(j) # KeyComp(e.key)
    BY Zenon, <1>3, <2>2 DEF HasNominated, Chosen, ChosenIn
  <2>6. e.key \in Keys
    BY Zenon DEF ValidEntry
  <2> QED
    BY Zenon, <2>1, <2>3, <2>4, <2>5, <2>6 DEF Promise!Choose
<1>5. CASE valid' = v /\ UNCHANGED state
  BY Zenon, <1>3, <1>5 DEF Chosen, ChosenIn
<1> QED
  BY Zenon, <1>1, <1>4, <1>5 DEF Succeeds

\* free_candidates keeps the nominated pairs.
LEMMA FreedPromised ==
    ASSUME Inv, FreeCandidates PROVE UNCHANGED <<state, Chosen>>
<1> DEFINE cleared(e) == [e EXCEPT !.source = NoPair]
<1>1. valid' = {cleared(e) : e \in Kept} /\ UNCHANGED state
  BY Zenon DEF FreeCandidates
<1>2. \A e \in ValidEntry : cleared(e).key = e.key /\ cleared(e).nominated = e.nominated
  BY Zenon DEF ValidEntry
<1>3. \A e \in Kept : e \in valid /\ e.nominated /\ e \in ValidEntry
  BY Zenon DEF Kept, Inv, TypeOK
<1> HIDE DEF cleared
<1>4. ASSUME NEW k \in Chosen' PROVE k \in Chosen
  <2>1. PICK f \in valid' : f.key = k /\ f.nominated
    BY Zenon, <1>4 DEF Chosen
  <2>2. PICK e \in Kept : f = cleared(e)
    BY Zenon, <1>1, <2>1
  <2>3. e \in valid /\ e.nominated /\ e.key = k
    BY Zenon, <1>2, <1>3, <2>1, <2>2
  <2> QED
    BY Zenon, <2>3 DEF Chosen
<1>5. ASSUME NEW k \in Chosen PROVE k \in Chosen'
  <2>1. PICK e \in Kept : e.key = k
    BY Zenon, <1>5 DEF Chosen, Kept
  <2>2. cleared(e) \in valid' /\ cleared(e).key = k /\ cleared(e).nominated
    BY Zenon, <1>1, <1>2, <1>3, <2>1
  <2> QED
    BY Zenon, <2>2 DEF Chosen
<1> QED
  BY Zenon, <1>1, <1>4, <1>5

LEMMA NextPromised ==
    ASSUME RemoteLite, Inv, LoopRests, Lite, Next \/ UNCHANGED vars
    PROVE  Promise!Next \/ UNCHANGED <<state, Chosen>>
<1>1. UNCHANGED valid => UNCHANGED Chosen
  BY Zenon DEF Chosen
<1>2. ASSUME NEW h \in HandlerIds, Inbound(h) PROVE FALSE
  BY Zenon, <1>2, NobodyAsks
<1>3. CASE Candidates
  BY Zenon, <1>1, <1>3 DEF Candidates, GatherHosts, SrflxAnswer, GatherRelay, GatherEnd,
     EndOfRemotes, AddRemoteCandidate, AddMdnsCandidate, MdnsResolved, MdnsFailed,
     AddResolved
<1>4. CASE Connect
  BY Zenon, <1>1, <1>4 DEF Connect, SetState, Promise!Next, Promise!Connect
<1>5. CASE Tick \/ Woken \/ Drained
  BY Zenon, <1>1, <1>5 DEF Tick, Woken, Drained
<1>6. ASSUME NEW c \in CheckIds, Waits(c) PROVE UNCHANGED <<state, Chosen>>
  <2>1. PICK f, r : Move(c, f, r)
    BY Zenon, <1>6, WaitsSame
  <2> QED
    BY Zenon, <1>1, <2>1 DEF Move
<1>7. ASSUME NEW c \in CheckIds, Resumes(c)
      PROVE  Promise!Next \/ UNCHANGED <<state, Chosen>>
  <2>1. CASE CheckOk(c)
    BY Zenon, <2>1, SuccessPromised DEF Promise!Next
  <2>2. CASE CheckFailed(c) \/ CheckCancelled(c)
    BY Zenon, <1>1, <2>2, LostLite
  <2> QED
    BY Zenon, <1>7, <2>1, <2>2 DEF Resumes, CheckConflict
<1>8. CASE Close
  <2>1. state # "CLOSED" /\ state' = "CLOSED" /\ valid' = {}
    BY Zenon, <1>8 DEF Close, SetState
  <2>2. Chosen' = {}
    BY Zenon, <2>1 DEF Chosen
  <2> QED
    BY Zenon, <2>1, <2>2 DEF Promise!Next, Promise!Close
<1>9. CASE UNCHANGED vars
  BY Zenon, <1>1, <1>9 DEF vars
<1> QED
  BY Zenon, <1>2, <1>3, <1>4, <1>5, <1>6, <1>7, <1>8, <1>9, FreedPromised DEF Next

\* With a lite peer agent implements Connection: whatever its candidates, checks
\* and timers do, the application sees a choice of one pair per component that
\* is final, CONNECTED exactly with the last of them, and close().
THEOREM PromiseKept == ASSUME RemoteLite PROVE Spec => ConnectionPromise
<1>1. Init => Promise!Init
  BY Zenon DEF Init, Promise!Init, Chosen
<1>2. Inv /\ Transports /\ Lite /\ [Next]_vars => [Promise!Next]_<<state, Chosen>>
  BY Zenon, NextPromised DEF Transports
<1> QED
  BY <1>1, <1>2, LiteAlways, Invariance, TransportsAlways, PTL
     DEF Spec, ConnectionPromise, Promise!Spec
=============================================================================
