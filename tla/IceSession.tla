----------------------------- MODULE IceSession -----------------------------
(***************************************************************************)
(* Two agents, A and B, over a datagram network.  A local candidate of one *)
(* is a remote candidate of the other.  Candidates travel over the         *)
(* signalling channel of the application, Binding requests and responses   *)
(* over the network.  A request is delivered while its transaction runs,   *)
(* when Late as often as the network likes and also afterwards; when Lossy *)
(* a check may miss its request or its answer until its timer fires.       *)
(***************************************************************************)
EXTENDS Integers, FiniteSets

CONSTANTS AHosts, BHosts, ComponentCount, Component, Foundation, Priority,
          Ties, ATies, ARoles, BRoles, Trickle, CheckIds, MaxPending, MaxRounds,
          HandlerIds, MaxInst, QueueBound,
          ARelays,      \* the candidates of A that a TURN server relays
          Lossy,        \* datagrams may be lost: a check may run into its timer
          Late          \* requests may be duplicated and delayed

VARIABLES
    aState, aClState, aControlling, aTie, aLocals, aRemotes, aLocalEnd,
    aRemoteEnd, aResolving, aReceivers, aMade, aCheckList, aPairState, aValid,
    aTrigQ, aChecks, aPending, aLoop, aHandlers, aFreeTimer,
    bState, bClState, bControlling, bTie, bLocals, bRemotes, bLocalEnd,
    bRemoteEnd, bResolving, bReceivers, bMade, bCheckList, bPairState, bValid,
    bTrigQ, bChecks, bPending, bLoop, bHandlers, bFreeTimer,
    aSent, bSent,       \* the requests an agent has sent so far
    aAnswers, bAnswers  \* answers on their way to a check of an agent

aVars == <<aState, aClState, aControlling, aTie, aLocals, aRemotes, aLocalEnd,
           aRemoteEnd, aResolving, aReceivers, aMade, aCheckList, aPairState,
           aValid, aTrigQ, aChecks, aPending, aLoop, aHandlers, aFreeTimer>>
bVars == <<bState, bClState, bControlling, bTie, bLocals, bRemotes, bLocalEnd,
           bRemoteEnd, bResolving, bReceivers, bMade, bCheckList, bPairState,
           bValid, bTrigQ, bChecks, bPending, bLoop, bHandlers, bFreeTimer>>
vars == <<aVars, bVars, aSent, bSent, aAnswers, bAnswers>>

Mirror(k) == <<k[2], k[1]>>
KeysOf(L, R) == {k \in L \X R : Component[k[1]] = Component[k[2]]}

ASSUME CandidateAssumption ==
    /\ ComponentCount \in Nat \ {0}
    /\ Component \in [AHosts \cup BHosts -> 1 .. ComponentCount]
    /\ Priority \in [KeysOf(AHosts, BHosts) -> Nat]
    /\ ARelays \subseteq AHosts

ASSUME LimitAssumption ==
    /\ IsFiniteSet(CheckIds) /\ CheckIds # {}
    /\ MaxPending \in Nat /\ MaxPending <= Cardinality(CheckIds)
    /\ MaxRounds \in Nat \ {0} /\ MaxInst \in Nat \ {0} /\ QueueBound \in Nat
    /\ Ties \subseteq Nat /\ Ties # {}
    /\ ARoles \subseteq BOOLEAN /\ BRoles \subseteq BOOLEAN
    /\ Trickle \in BOOLEAN

A == INSTANCE IceAgentRoles WITH
       Hosts <- AHosts, Relays <- ARelays, Reflexive <- {}, Srflx <- {},
       Remotes <- BHosts, Mdns <- {}, Roles <- ARoles, RemoteLite <- FALSE,
       Answers <- {"ok", "conflict"},
       Seen <- [k \in KeysOf(AHosts, BHosts) |-> k[1]],
       state <- aState, clState <- aClState, controlling <- aControlling,
       tie <- aTie, locals <- aLocals, remotes <- aRemotes,
       localEnd <- aLocalEnd, remoteEnd <- aRemoteEnd,
       resolving <- aResolving, receivers <- aReceivers, made <- aMade,
       checkList <- aCheckList, pairState <- aPairState, valid <- aValid,
       trigQ <- aTrigQ, checks <- aChecks, pending <- aPending, loop <- aLoop,
       handlers <- aHandlers, freeTimer <- aFreeTimer

B == INSTANCE IceAgentRoles WITH
       Hosts <- BHosts, Relays <- {}, Reflexive <- {}, Srflx <- {},
       Remotes <- AHosts, Mdns <- {}, Roles <- BRoles, RemoteLite <- FALSE,
       Answers <- {"ok", "conflict"},
       Foundation <- [k \in KeysOf(BHosts, AHosts) |-> Foundation[Mirror(k)]],
       Priority <- [k \in KeysOf(BHosts, AHosts) |-> Priority[Mirror(k)]],
       Seen <- [k \in KeysOf(BHosts, AHosts) |-> k[1]],
       state <- bState, clState <- bClState, controlling <- bControlling,
       tie <- bTie, locals <- bLocals, remotes <- bRemotes,
       localEnd <- bLocalEnd, remoteEnd <- bRemoteEnd,
       resolving <- bResolving, receivers <- bReceivers, made <- bMade,
       checkList <- bCheckList, pairState <- bPairState, valid <- bValid,
       trigQ <- bTrigQ, checks <- bChecks, pending <- bPending, loop <- bLoop,
       handlers <- bHandlers, freeTimer <- bFreeTimer

-----------------------------------------------------------------------------
(* Requests and answers *)

\* What the Binding request of a check carries.
RequestOf(k) == [key |-> k.pair[1], use |-> k.use, role |-> k.role, tie |-> k.tie]

Waiting(cs) == {c \in CheckIds : cs[c].phase \in {"retry", "quiet"}}

\* After a step of its agent a check keeps waiting for its answers or drops
\* them, and the requests of the running transactions are on the network.
Kept(answers, cs) == [c \in CheckIds |-> IF c \in Waiting(cs) THEN answers[c] ELSE {}]

\* B handles the request q of A: what it answers, if anything.
BHandles(q, answer) ==
    /\ q.key[2] \in bReceivers
    /\ \/ /\ answer = "ok"
          /\ \E h \in HandlerIds : B!Request(h, q.key[2], q.key[1], q.use, q.role, q.tie)
       \/ /\ answer = "conflict" /\ bState # "CLOSED"
          /\ B!Refuses(q.role, q.tie)
          /\ UNCHANGED bVars
    /\ UNCHANGED <<aVars, aSent, bSent, bAnswers>>

\* The TURN server passes on what comes from a peer with a permission, which
\* the relayed candidate asked for when it checked that peer.
Permitted(q) == q.key[2] \in ARelays => \E s \in aSent : s.key = Mirror(q.key)

AHandles(q, answer) ==
    /\ q.key[2] \in aReceivers /\ Permitted(q)
    /\ \/ /\ answer = "ok"
          /\ \E h \in HandlerIds : A!Request(h, q.key[2], q.key[1], q.use, q.role, q.tie)
       \/ /\ answer = "conflict" /\ aState # "CLOSED"
          /\ A!Refuses(q.role, q.tie)
          /\ UNCHANGED aVars
    /\ UNCHANGED <<bVars, aSent, bSent, aAnswers>>

BReceives(c) == \E answer \in {"ok", "conflict"} :
    /\ c \in Waiting(aChecks) /\ (Late \/ aAnswers[c] = {})
    /\ BHandles(RequestOf(aChecks[c]), answer)
    /\ aAnswers' = [aAnswers EXCEPT ![c] = @ \cup {answer}]

AReceives(c) == \E answer \in {"ok", "conflict"} :
    /\ c \in Waiting(bChecks) /\ (Late \/ bAnswers[c] = {})
    /\ AHandles(RequestOf(bChecks[c]), answer)
    /\ bAnswers' = [bAnswers EXCEPT ![c] = @ \cup {answer}]

\* A request arrives after its transaction is over: nobody waits for the answer.
BReceivesLate == /\ Late
                 /\ \E q \in aSent, answer \in {"ok", "conflict"} : BHandles(q, answer)
                 /\ UNCHANGED aAnswers
AReceivesLate == /\ Late
                 /\ \E q \in bSent, answer \in {"ok", "conflict"} : AHandles(q, answer)
                 /\ UNCHANGED bAnswers

-----------------------------------------------------------------------------
(* The steps of each agent *)

AStep(step) == /\ step
               /\ aAnswers' = Kept(aAnswers, aChecks')
               /\ aSent' = aSent \cup {RequestOf(aChecks'[c]) : c \in Waiting(aChecks')}
               /\ UNCHANGED <<bVars, bSent, bAnswers>>
BStep(step) == /\ step
               /\ bAnswers' = Kept(bAnswers, bChecks')
               /\ bSent' = bSent \cup {RequestOf(bChecks'[c]) : c \in Waiting(bChecks')}
               /\ UNCHANGED <<aVars, aSent, aAnswers>>

\* What the executor of an agent has already queued.
APosted == AStep(A!Woken \/ \E c \in CheckIds : A!TransactionRun(c) \/ A!Resumes(c))
BPosted == BStep(B!Woken \/ \E c \in CheckIds : B!TransactionRun(c) \/ B!Resumes(c))

\* Gathering, and the candidates the other agent has signalled: one by one with
\* Trickle, otherwise all of A's in an offer that B answers with all of its own.
ACandidates == AStep(\/ \E comp \in A!Components : A!GatherHosts(comp)
                     \/ \E h \in AHosts : A!GatherRelay(h)
                     \/ A!GatherEnd
                     \/ /\ Trickle \/ B!EndTold
                        /\ \E r \in bLocals \ aRemotes : A!AddRemoteCandidate(r)
                     \/ B!EndTold /\ bLocals \subseteq aRemotes /\ A!EndOfRemotes)
BCandidates == /\ Trickle \/ A!EndTold
               /\ BStep(\/ (Trickle \/ bRemoteEnd) /\ \E comp \in B!Components : B!GatherHosts(comp)
                        \/ B!GatherEnd
                        \/ \E r \in aLocals \ bRemotes : B!AddRemoteCandidate(r)
                        \/ A!EndTold /\ aLocals \subseteq bRemotes /\ B!EndOfRemotes)

\* An answer arrives, for A also the TURN server's.
AAnswered(c) == \/ \E x \in aAnswers[c] : AStep(A!Answer(c, x))
                \/ AStep(A!PermissionGranted(c))
BAnswered(c) == \E x \in bAnswers[c] : BStep(B!Answer(c, x))

AHandlers == \E h \in HandlerIds :
    AStep(A!RequestWaits(h) \/ A!RequestLate(h) \/ A!RequestProceeds(h))
BHandlers == \E h \in HandlerIds :
    BStep(B!RequestWaits(h) \/ B!RequestLate(h) \/ B!RequestProceeds(h))

\* The release of candidates, three seconds later, is after the session.
ATimers == \/ AStep(A!Drained)
           \/ Lossy /\ \E c \in CheckIds : AStep(A!GiveUp(c))
BTimers == \/ BStep(B!Drained)
           \/ Lossy /\ \E c \in CheckIds : BStep(B!GiveUp(c))

AEvent == \/ ACandidates \/ AStep(A!Connect) \/ AStep(A!Tick) \/ ATimers
          \/ AHandlers \/ AReceivesLate
          \/ \E c \in CheckIds : AAnswered(c) \/ AReceives(c)
BEvent == \/ BCandidates \/ BStep(B!Connect) \/ BStep(B!Tick) \/ BTimers
          \/ BHandlers \/ BReceivesLate
          \/ \E c \in CheckIds : BAnswered(c) \/ BReceives(c)

\* The tie-breakers are random 64-bit numbers: they start different.
Init == /\ A!Init /\ B!Init /\ aTie \in ATies /\ aTie # bTie
        /\ aSent = {} /\ bSent = {}
        /\ aAnswers = [c \in CheckIds |-> {}] /\ bAnswers = [c \in CheckIds |-> {}]

\* Each agent runs what its executor has queued before the next event.
Next == APosted \/ BPosted \/ (~A!Posted /\ AEvent) \/ (~B!Posted /\ BEvent)

Spec == Init /\ [][Next]_vars

\* What the executors, the clocks, the applications and, when it is not Lossy,
\* the network guarantee.
Fairness ==
    /\ WF_vars(APosted) /\ WF_vars(BPosted)
    /\ WF_vars(~A!Posted /\ (ACandidates \/ AStep(A!Connect) \/ AStep(A!Tick) \/ AStep(A!Drained)))
    /\ WF_vars(~B!Posted /\ (BCandidates \/ BStep(B!Connect) \/ BStep(B!Tick) \/ BStep(B!Drained)))
    /\ WF_vars(~A!Posted /\ AHandlers) /\ WF_vars(~B!Posted /\ BHandlers)
    /\ \A c \in CheckIds : /\ SF_vars(~A!Posted /\ AAnswered(c))
                           /\ SF_vars(~B!Posted /\ BAnswered(c))
                           /\ SF_vars(~A!Posted /\ AReceives(c))
                           /\ SF_vars(~B!Posted /\ BReceives(c))

FairSpec == Spec /\ Fairness

-----------------------------------------------------------------------------
(* Properties *)

Nominated(v) == {e.key : e \in {f \in v : f.nominated}}

\* README: CONNECTED means that data can flow.  Then the two agents have
\* nominated the same pairs, seen from both sides (set_nominated on either
\* side, from its own check or from a request of the peer).
Agreement ==
    aState = "CONNECTED" /\ bState = "CONNECTED"
    => Nominated(aValid) = {Mirror(k) : k \in Nominated(bValid)}

Asked(k) == \/ \E q \in aSent : q.key = k /\ q.use /\ q.role
            \/ \E q \in bSent : Mirror(q.key) = k /\ q.use /\ q.role

\* No agent nominates a pair unless some agent, controlling when it sent it,
\* asked for it with USE-CANDIDATE: late requests, duplicates and a change of
\* roles in between nominate nothing by themselves (default_nominate,
\* do_handle_request, do_check).
NominationAsked ==
    /\ \A k \in Nominated(aValid) : Asked(k)
    /\ \A k \in Nominated(bValid) : Asked(Mirror(k))

\* Once the agents have different roles they keep different roles, whatever
\* requests and 487 answers are still on their way (do_handle_request,
\* do_check, switch_role).
RolesStayApart == [][aControlling # bControlling => aControlling' # bControlling']_vars

\* Two agents that start in the same role end up in different ones, for good:
\* the tie-breakers settle the conflict (do_handle_request, do_check).
RolesSplit == <>[](aControlling # bControlling)

\* README: CONNECTED means that data can flow.  While A is CONNECTED and B is
\* not, the session is not over: some step is still to come, of an agent, of its
\* timers or of the network (do_handle_request, set_nominated).
BothConnect == aState = "CONNECTED" /\ bState # "CONNECTED" => ENABLED <<Next>>_vars
=============================================================================
