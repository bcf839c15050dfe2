-------------------------- MODULE IceSessionProofs --------------------------
(***************************************************************************)
(* Two agents in a session: whose role lasts, and that nothing is nomi-    *)
(* nated that no controlling agent asked for.                              *)
(***************************************************************************)
EXTENDS IceSession, TLAPS

\* The leaves that name no prover are Zenon's.
USE Zenon

(***************************************************************************)
(* The constants of a session satisfy what an agent assumes of its own.    *)
(***************************************************************************)
LEMMA KeyParts ==
    ASSUME NEW L, NEW R, NEW k \in KeysOf(L, R)
    PROVE  /\ k = <<k[1], k[2]>> /\ k[1] \in L /\ k[2] \in R
           /\ Component[k[1]] = Component[k[2]] /\ Mirror(k) \in KeysOf(R, L)
           /\ Mirror(Mirror(k)) = k
BY SMT DEF KeysOf, Mirror

LEMMA AgentKeys ==
    /\ A!Keys = KeysOf(AHosts, BHosts) /\ A!Locals = AHosts /\ A!Components = 1 .. ComponentCount
    /\ B!Keys = KeysOf(BHosts, AHosts) /\ B!Locals = BHosts /\ B!Components = 1 .. ComponentCount
BY SMT DEF A!Keys, A!Locals, A!Components, B!Keys, B!Locals, B!Components, KeysOf

LEMMA AAssumptions ==
    A!CandidateAssumption /\ A!PairAssumption /\ A!NatAssumption /\ A!LimitAssumption
<1> DEFINE Keys == KeysOf(AHosts, BHosts)
           seen == [k \in Keys |-> k[1]]
<1>1. seen \in [Keys -> AHosts] /\ \A k \in Keys : seen[k] = k[1]
  BY KeyParts
<1>2. \A j, k \in Keys : k[1] = seen[j] => seen[k] = seen[<<j[1], k[2]>>]
  <2> SUFFICES ASSUME NEW j \in Keys, NEW k \in Keys, k[1] = seen[j]
               PROVE  k = <<j[1], k[2]>>
    OBVIOUS
  <2>1. k = <<k[1], k[2]>>
    BY KeyParts
  <2>2. k[1] = j[1]
    BY <1>1
  <2>3. QED BY <2>1, <2>2
<1> HIDE DEF Keys
<1>3. A!CandidateAssumption
  BY AgentKeys, CandidateAssumption DEF A!CandidateAssumption
<1>4. A!PairAssumption /\ A!NatAssumption
  <2>1. A!Keys = Keys /\ A!Locals = AHosts
    BY AgentKeys DEF Keys
  <2>2. /\ seen \in [A!Keys -> A!Locals]
        /\ \A k \in A!Keys : Component[seen[k]] = Component[k[1]]
        /\ \A j, k \in A!Keys : k[1] = seen[j] => seen[k] = seen[<<j[1], k[2]>>]
    BY <1>1, <1>2, <2>1
  <2>3. Priority \in [A!Keys -> Nat]
    BY <2>1, CandidateAssumption DEF Keys
  <2>4. QED
    BY <2>2, <2>3 DEF A!PairAssumption, A!NatAssumption, Keys
<1>5. A!LimitAssumption
  BY LimitAssumption
     DEF A!LimitAssumption, IsFiniteSet, A!IsFiniteSet, Cardinality, A!Cardinality
<1>6. QED BY <1>3, <1>4, <1>5

LEMMA BAssumptions ==
    B!CandidateAssumption /\ B!PairAssumption /\ B!NatAssumption /\ B!LimitAssumption
<1> DEFINE Keys == KeysOf(BHosts, AHosts)
           seen == [k \in Keys |-> k[1]]
           prio == [k \in Keys |-> Priority[Mirror(k)]]
<1>1. seen \in [Keys -> BHosts] /\ \A k \in Keys : seen[k] = k[1]
  BY KeyParts
<1>2. \A j, k \in Keys : k[1] = seen[j] => seen[k] = seen[<<j[1], k[2]>>]
  <2> SUFFICES ASSUME NEW j \in Keys, NEW k \in Keys, k[1] = seen[j]
               PROVE  k = <<j[1], k[2]>>
    OBVIOUS
  <2>1. k = <<k[1], k[2]>>
    BY KeyParts
  <2>2. k[1] = j[1]
    BY <1>1
  <2>3. QED BY <2>1, <2>2
<1>3. prio \in [Keys -> Nat]
  BY KeyParts, CandidateAssumption
<1> HIDE DEF Keys
<1>4. B!CandidateAssumption
  BY AgentKeys, CandidateAssumption DEF B!CandidateAssumption
<1>5. B!PairAssumption /\ B!NatAssumption
  <2>1. B!Keys = Keys /\ B!Locals = BHosts
    BY AgentKeys DEF Keys
  <2>2. /\ seen \in [B!Keys -> B!Locals]
        /\ \A k \in B!Keys : Component[seen[k]] = Component[k[1]]
        /\ \A j, k \in B!Keys : k[1] = seen[j] => seen[k] = seen[<<j[1], k[2]>>]
    BY <1>1, <1>2, <2>1
  <2>3. prio \in [B!Keys -> Nat]
    BY <1>3, <2>1
  <2>4. QED
    BY <2>2, <2>3 DEF B!PairAssumption, B!NatAssumption, Keys
<1>6. B!LimitAssumption
  BY LimitAssumption
     DEF B!LimitAssumption, IsFiniteSet, B!IsFiniteSet, Cardinality, B!Cardinality
<1>7. QED BY <1>4, <1>5, <1>6

-----------------------------------------------------------------------------
(* The invariant *)

\* The pairs of an agent that a controlling agent has asked for, the agent
\* itself with the requests s or the other one with the requests o.
AskedBy(s) == {q \in s : q.use /\ q.role}
Reached(s, o) == {q.key : q \in AskedBy(s)} \cup {Mirror(q.key) : q \in AskedBy(o)}

(***************************************************************************)
(* The roles are settled from the start, though perhaps not yet taken: A   *)
(* is to be controlling if m, B otherwise.  Until an agent takes its role  *)
(* for the first time it has the tie-breaker it began with.  Either both   *)
(* began in their roles, or one did and has the better tie-breaker.        *)
(***************************************************************************)
Pact(m, ta, tb, sa, sb, na, nb) ==
    /\ A!Side(m, ta, Reached(sa, sb), sa, na)
    /\ B!Side(~m, tb, Reached(sb, sa), sb, nb)
    /\ A!Fixed(m, ta, sa) \/ B!Fixed(~m, tb, sb)
    /\ (A!Fixed(m, ta, sa) /\ B!Fixed(~m, tb, sb)) \/ A!Beats(m, ta, tb)

SessionInv ==
    \E m \in BOOLEAN, ta, tb \in Ties :
      \E sa \in {aSent}, sb \in {bSent}, na \in {aAnswers}, nb \in {bAnswers} :
        Pact(m, ta, tb, sa, sb, na, nb)

\* A step keeps the pact, and nobody leaves its lasting role.
PactOn(m, ta, tb, sa, sb, ra, rb, xa, xb) ==
    /\ A!SideOn(m, ta, Reached(ra, rb), sa, ra, xa)
    /\ B!SideOn(~m, tb, Reached(rb, ra), sb, rb, xb)

LEMMA ReachedMore ==
    ASSUME NEW s, NEW o, NEW r, NEW p, s \subseteq r, o \subseteq p
    PROVE  /\ Reached(s, o) \subseteq Reached(r, p)
           /\ \A q \in r : q.use /\ q.role => q.key \in Reached(r, p)
           /\ \A q \in p : q.use /\ q.role => Mirror(q.key) \in Reached(r, p)
BY DEF Reached, AskedBy

LEMMA SessionRequests ==
    /\ A!Running = Waiting(aChecks) /\ A!Running' = Waiting(aChecks')
    /\ B!Running = Waiting(bChecks) /\ B!Running' = Waiting(bChecks')
    /\ \A k : A!RequestOf(k) = RequestOf(k) /\ B!RequestOf(k) = RequestOf(k)
BY DEF A!Running, B!Running, A!OnTheWay, B!OnTheWay, Waiting,
             A!RequestOf, B!RequestOf, A!KeyOf, B!KeyOf, RequestOf

LEMMA AgentVars ==
    /\ UNCHANGED aVars => UNCHANGED A!vars
    /\ UNCHANGED bVars => UNCHANGED B!vars
BY DEF aVars, A!vars, A!roleVars, A!candVars, A!listVars,
             bVars, B!vars, B!roleVars, B!candVars, B!listVars

LEMMA NoNats == A!NoNat /\ B!NoNat
BY AgentKeys DEF A!NoNat, B!NoNat

-----------------------------------------------------------------------------
(* The steps of a session *)

LEMMA AOwnStep ==
    ASSUME NEW m \in BOOLEAN, NEW ta \in Ties, NEW tb \in Ties, NEW sa, NEW sb, NEW na, NEW nb,
           sa = aSent, sb = bSent, na = aAnswers, nb = bAnswers,
           Pact(m, ta, tb, sa, sb, na, nb),
           AStep(A!OwnStep \/ \E c \in CheckIds : \E x \in aAnswers[c] : A!Answer(c, x)),
           NEW ra, NEW rb, NEW xa, NEW xb,
           ra = aSent', rb = bSent', xa = aAnswers', xb = bAnswers'
    PROVE  PactOn(m, ta, tb, sa, sb, ra, rb, xa, xb)
<1>1. /\ A!Side(m, ta, Reached(sa, sb), sa, na) /\ B!Side(~m, tb, Reached(sb, sa), sb, nb)
      /\ rb = sb /\ xb = nb /\ UNCHANGED bVars
      /\ sa \subseteq ra /\ sb \subseteq rb
  BY DEF Pact, AStep
<1>2. A!Advance(sa, na, ra, xa)
  BY SessionRequests DEF A!Advance, AStep, Kept
<1>3. /\ Reached(sa, sb) \subseteq Reached(ra, rb) /\ Reached(sb, sa) \subseteq Reached(rb, ra)
      /\ \A q \in ra : q.use /\ q.role => q.key \in Reached(ra, rb)
  BY <1>1, ReachedMore
<1>4. A!SideOn(m, ta, Reached(ra, rb), sa, ra, xa)
  BY <1>1, <1>2, <1>3, NoNats, AAssumptions, A!OwnSide
<1>5. UNCHANGED B!vars /\ (~m) \in BOOLEAN
  BY <1>1, AgentVars
<1>6. B!SideOn(~m, tb, Reached(rb, ra), sb, sb, nb)
  BY <1>1, <1>3, <1>5, BAssumptions, B!StillSide
<1>7. QED BY <1>1, <1>4, <1>6 DEF PactOn

\* The answer x to the request q of an agent reaches its check, or nobody.
AGets(q, x, n, y) ==
    \/ y = n
    \/ \E c \in A!Running : q = RequestOf(aChecks[c]) /\ y = [n EXCEPT ![c] = @ \cup {x}]
BGets(q, x, n, y) ==
    \/ y = n
    \/ \E c \in B!Running : q = RequestOf(bChecks[c]) /\ y = [n EXCEPT ![c] = @ \cup {x}]

\* B handles a request of A, and the answer may reach a check of A.
LEMMA BTakesRequest ==
    ASSUME NEW m \in BOOLEAN, NEW ta \in Ties, NEW tb \in Ties, NEW sa, NEW sb, NEW na, NEW nb,
           Pact(m, ta, tb, sa, sb, na, nb),
           NEW q \in sa, NEW x \in {"ok", "conflict"}, BHandles(q, x),
           NEW xa, AGets(q, x, na, xa)
    PROVE  PactOn(m, ta, tb, sa, sb, sa, sb, xa, nb)
<1>1. /\ A!Side(m, ta, Reached(sa, sb), sa, na) /\ B!Side(~m, tb, Reached(sb, sa), sb, nb)
      /\ A!Fixed(m, ta, sa) \/ B!Fixed(~m, tb, sb)
      /\ (A!Fixed(m, ta, sa) /\ B!Fixed(~m, tb, sb)) \/ A!Beats(m, ta, tb)
      /\ (~m) \in BOOLEAN /\ ta \in Nat /\ tb \in Nat
  BY LimitAssumption DEF Pact
<1>2. /\ q.key \in KeysOf(AHosts, BHosts) /\ q.use \in BOOLEAN /\ q.role \in BOOLEAN
      /\ q.tie \in Ties /\ q.tie \in Nat /\ (q.role # m => q.tie = ta)
  BY <1>1, AgentKeys, LimitAssumption DEF A!Side, A!Requests
<1>3. /\ q.key[2] \in BHosts /\ q.key[1] \in AHosts /\ <<q.key[2], q.key[1]>> \in B!Keys
      /\ q.use /\ q.role => <<q.key[2], q.key[1]>> \in Reached(sb, sa)
  BY <1>2, KeyParts, AgentKeys, ReachedMore DEF Mirror
<1>4. B!Arrives(~m, tb, ta, Reached(sb, sa), q)
  <2>1. A!Beats(m, ta, tb) => B!Beats(~m, tb, ta)
    BY DEF A!Beats, B!Beats
  <2>2. A!Fixed(m, ta, sa) => q.role # ~m /\ q.tie = ta
    BY DEF A!Fixed
  <2>3. B!Fixed(~m, tb, sb) => B!Holds(~m, tb)
    BY DEF B!Fixed
  <2>4. \/ B!Holds(~m, tb) /\ q.role # ~m
        \/ B!Holds(~m, tb) /\ B!Beats(~m, tb, ta)
        \/ q.role # ~m /\ q.tie = ta /\ B!Beats(~m, tb, ta)
    BY <1>1, <2>1, <2>2, <2>3
  <2>5. QED BY <1>2, <1>3, <2>4 DEF B!Arrives
<1>5. B!Handles(q, x) /\ UNCHANGED aVars
  BY AgentVars DEF BHandles, B!Handles
<1>6. B!SideOn(~m, tb, Reached(sb, sa), sb, sb, nb) /\ (x = "ok" <=> q.role # ~m)
  <2>1. PICK n \in BOOLEAN : n = ~m
    OBVIOUS
  <2>2. /\ B!Side(n, tb, Reached(sb, sa), sb, nb) /\ B!Arrives(n, tb, ta, Reached(sb, sa), q)
        /\ B!Handles(q, x) /\ ta \in Nat /\ tb \in Nat
    BY <1>1, <1>4, <1>5, <2>1
  <2>3. B!SideOn(n, tb, Reached(sb, sa), sb, sb, nb)
    BY <2>2, BAssumptions, B!HandlesSide
  <2>4. x = "ok" <=> q.role # n
    BY <2>2, BAssumptions, B!HandlesSide
  <2>5. QED BY <2>1, <2>3, <2>4
<1>7. UNCHANGED A!vars /\ Reached(sa, sb) \subseteq Reached(sa, sb)
  BY <1>5, AgentVars
<1>8. A!SideOn(m, ta, Reached(sa, sb), sa, sa, xa)
  <2>1. CASE xa = na
    BY <1>1, <1>7, <2>1, AAssumptions, A!StillSide
  <2>2. ASSUME NEW c \in A!Running, q = RequestOf(aChecks[c]), xa = [na EXCEPT ![c] = @ \cup {x}]
        PROVE  A!SideOn(m, ta, Reached(sa, sb), sa, sa, xa)
    <3>1. aChecks[c].role = q.role
      BY <2>2 DEF RequestOf
    <3>2. x = "ok" <=> aChecks[c].role = m
      BY <1>2, <1>6, <3>1
    <3>3. A!SideOn(m, ta, Reached(sa, sb), sa, sa, [na EXCEPT ![c] = @ \cup {x}])
      BY <1>1, <1>7, <3>2, AAssumptions, A!AnswerSent
    <3>4. QED BY <2>2, <3>3
  <2>3. QED BY <2>1, <2>2 DEF AGets
<1>9. QED BY <1>6, <1>8 DEF PactOn

LEMMA BOwnStep ==
    ASSUME NEW m \in BOOLEAN, NEW ta \in Ties, NEW tb \in Ties, NEW sa, NEW sb, NEW na, NEW nb,
           sa = aSent, sb = bSent, na = aAnswers, nb = bAnswers,
           Pact(m, ta, tb, sa, sb, na, nb),
           BStep(B!OwnStep \/ \E c \in CheckIds : \E x \in bAnswers[c] : B!Answer(c, x)),
           NEW ra, NEW rb, NEW xa, NEW xb,
           ra = aSent', rb = bSent', xa = aAnswers', xb = bAnswers'
    PROVE  PactOn(m, ta, tb, sa, sb, ra, rb, xa, xb)
<1>1. /\ A!Side(m, ta, Reached(sa, sb), sa, na) /\ B!Side(~m, tb, Reached(sb, sa), sb, nb)
      /\ ra = sa /\ xa = na /\ UNCHANGED aVars
      /\ sa \subseteq ra /\ sb \subseteq rb
  BY DEF Pact, BStep
<1>2. B!Advance(sb, nb, rb, xb)
  BY SessionRequests DEF B!Advance, BStep, Kept
<1>3. /\ Reached(sa, sb) \subseteq Reached(ra, rb) /\ Reached(sb, sa) \subseteq Reached(rb, ra)
      /\ \A q \in rb : q.use /\ q.role => q.key \in Reached(rb, ra)
  BY <1>1, ReachedMore
<1>4. UNCHANGED A!vars /\ (~m) \in BOOLEAN
  BY <1>1, AgentVars
<1>5. B!SideOn(~m, tb, Reached(rb, ra), sb, rb, xb)
  BY <1>1, <1>2, <1>3, <1>4, NoNats, BAssumptions, B!OwnSide
<1>6. A!SideOn(m, ta, Reached(ra, rb), sa, sa, na)
  BY <1>1, <1>3, <1>4, AAssumptions, A!StillSide
<1>7. QED BY <1>1, <1>5, <1>6 DEF PactOn

LEMMA ATakesRequest ==
    ASSUME NEW m \in BOOLEAN, NEW ta \in Ties, NEW tb \in Ties, NEW sa, NEW sb, NEW na, NEW nb,
           Pact(m, ta, tb, sa, sb, na, nb),
           NEW q \in sb, NEW x \in {"ok", "conflict"}, AHandles(q, x),
           NEW xb, BGets(q, x, nb, xb)
    PROVE  PactOn(m, ta, tb, sa, sb, sa, sb, na, xb)
<1>1. /\ A!Side(m, ta, Reached(sa, sb), sa, na) /\ B!Side(~m, tb, Reached(sb, sa), sb, nb)
      /\ A!Fixed(m, ta, sa) \/ B!Fixed(~m, tb, sb)
      /\ (A!Fixed(m, ta, sa) /\ B!Fixed(~m, tb, sb)) \/ A!Beats(m, ta, tb)
      /\ (~m) \in BOOLEAN /\ ta \in Nat /\ tb \in Nat
  BY LimitAssumption DEF Pact
<1>2. /\ q.key \in KeysOf(BHosts, AHosts) /\ q.use \in BOOLEAN /\ q.role \in BOOLEAN
      /\ q.tie \in Ties /\ q.tie \in Nat /\ (q.role # ~m => q.tie = tb)
  BY <1>1, AgentKeys, LimitAssumption DEF B!Side, B!Requests
<1>3. /\ q.key[2] \in AHosts /\ q.key[1] \in BHosts /\ <<q.key[2], q.key[1]>> \in A!Keys
      /\ q.use /\ q.role => <<q.key[2], q.key[1]>> \in Reached(sa, sb)
  BY <1>2, KeyParts, AgentKeys, ReachedMore DEF Mirror
<1>4. A!Arrives(m, ta, tb, Reached(sa, sb), q)
  <2>1. B!Fixed(~m, tb, sb) => q.role # m /\ q.tie = tb
    BY DEF B!Fixed
  <2>2. A!Fixed(m, ta, sa) => A!Holds(m, ta)
    BY DEF A!Fixed
  <2>3. \/ A!Holds(m, ta) /\ q.role # m
        \/ A!Holds(m, ta) /\ A!Beats(m, ta, tb)
        \/ q.role # m /\ q.tie = tb /\ A!Beats(m, ta, tb)
    BY <1>1, <2>1, <2>2
  <2>4. q.role = m => q.tie = tb
    BY <1>2
  <2>5. QED BY <1>2, <1>3, <2>3, <2>4 DEF A!Arrives
<1>5. A!Handles(q, x) /\ UNCHANGED bVars
  BY AgentVars DEF AHandles, A!Handles
<1>6. A!SideOn(m, ta, Reached(sa, sb), sa, sa, na)
  BY <1>1, <1>4, <1>5, AAssumptions, A!HandlesSide
<1>7. x = "ok" <=> q.role # m
  BY <1>1, <1>4, <1>5, AAssumptions, A!HandlesSide
<1>8. UNCHANGED B!vars /\ Reached(sb, sa) \subseteq Reached(sb, sa)
  BY <1>5, AgentVars
<1>9. B!SideOn(~m, tb, Reached(sb, sa), sb, sb, xb)
  <2>1. CASE xb = nb
    BY <1>1, <1>8, <2>1, BAssumptions, B!StillSide
  <2>2. ASSUME NEW c \in B!Running, q = RequestOf(bChecks[c]), xb = [nb EXCEPT ![c] = @ \cup {x}]
        PROVE  B!SideOn(~m, tb, Reached(sb, sa), sb, sb, xb)
    <3>1. bChecks[c].role = q.role
      BY <2>2 DEF RequestOf
    <3>2. x = "ok" <=> bChecks[c].role = ~m
      BY <1>2, <1>7, <3>1
    <3>3. B!SideOn(~m, tb, Reached(sb, sa), sb, sb, [nb EXCEPT ![c] = @ \cup {x}])
      BY <1>1, <1>8, <3>2, BAssumptions, B!AnswerSent
    <3>4. QED BY <2>2, <3>3
  <2>3. QED BY <2>1, <2>2 DEF BGets
<1>10. QED BY <1>6, <1>9 DEF PactOn

\* The steps of a session: an agent acts by itself or gets an answer, or it
\* handles a request that is on its way or late.
LEMMA SessionSteps ==
    ASSUME Next
    PROVE  \/ AStep(A!OwnStep \/ \E c \in CheckIds : \E x \in aAnswers[c] : A!Answer(c, x))
           \/ BStep(B!OwnStep \/ \E c \in CheckIds : \E x \in bAnswers[c] : B!Answer(c, x))
           \/ \E c \in CheckIds : AReceives(c) \/ BReceives(c)
           \/ AReceivesLate \/ BReceivesLate
<1>1. CASE APosted \/ AEvent
  <2>1. CASE APosted \/ AHandlers \/ ATimers \/ AStep(A!Connect) \/ AStep(A!Tick)
    BY <2>1 DEF APosted, AHandlers, ATimers, AStep, A!OwnStep
  <2>2. CASE ACandidates
    BY <2>2 DEF ACandidates, AStep, A!OwnStep, A!AddRemoteCandidate
  <2>3. CASE AReceivesLate \/ \E c \in CheckIds : AAnswered(c) \/ AReceives(c)
    <3>1. ASSUME NEW c \in CheckIds, AStep(A!PermissionGranted(c))
          PROVE  AStep(A!OwnStep)
      BY <3>1 DEF AStep, A!OwnStep
    <3>2. QED BY <2>3, <3>1 DEF AAnswered, AStep
  <2>4. QED BY <1>1, <2>1, <2>2, <2>3 DEF AEvent
<1>2. CASE BPosted \/ BEvent
  <2>1. CASE BPosted \/ BHandlers \/ BTimers \/ BStep(B!Connect) \/ BStep(B!Tick)
    BY <2>1 DEF BPosted, BHandlers, BTimers, BStep, B!OwnStep
  <2>2. CASE BCandidates
    BY <2>2 DEF BCandidates, BStep, B!OwnStep, B!AddRemoteCandidate
  <2>3. CASE BReceivesLate \/ \E c \in CheckIds : BAnswered(c) \/ BReceives(c)
    BY <2>3 DEF BAnswered, BStep
  <2>4. QED BY <1>2, <2>1, <2>2, <2>3 DEF BEvent
<1>3. QED BY <1>1, <1>2 DEF Next

LEMMA PactStep ==
    ASSUME NEW m \in BOOLEAN, NEW ta \in Ties, NEW tb \in Ties, NEW sa, NEW sb, NEW na, NEW nb,
           sa = aSent, sb = bSent, na = aAnswers, nb = bAnswers,
           Pact(m, ta, tb, sa, sb, na, nb), [Next]_vars,
           NEW ra, NEW rb, NEW xa, NEW xb,
           ra = aSent', rb = bSent', xa = aAnswers', xb = bAnswers'
    PROVE  PactOn(m, ta, tb, sa, sb, ra, rb, xa, xb)
<1>1. /\ A!Side(m, ta, Reached(sa, sb), sa, na) /\ B!Side(~m, tb, Reached(sb, sa), sb, nb)
      /\ (~m) \in BOOLEAN
  BY DEF Pact
<1>2. /\ \A c \in Waiting(aChecks) : RequestOf(aChecks[c]) \in sa
      /\ \A c \in Waiting(bChecks) : RequestOf(bChecks[c]) \in sb
  BY <1>1, SessionRequests DEF A!Side, B!Side
<1>3. ASSUME NEW q \in sa, NEW x \in {"ok", "conflict"}, BHandles(q, x), AGets(q, x, na, xa)
      PROVE  PactOn(m, ta, tb, sa, sb, ra, rb, xa, xb)
  <2>1. ra = sa /\ rb = sb /\ xb = nb
    BY <1>3 DEF BHandles
  <2>2. PactOn(m, ta, tb, sa, sb, sa, sb, xa, nb)
    BY <1>3, BTakesRequest
  <2>3. QED BY <2>1, <2>2
<1>4. ASSUME NEW q \in sb, NEW x \in {"ok", "conflict"}, AHandles(q, x), BGets(q, x, nb, xb)
      PROVE  PactOn(m, ta, tb, sa, sb, ra, rb, xa, xb)
  <2>1. ra = sa /\ rb = sb /\ xa = na
    BY <1>4 DEF AHandles
  <2>2. PactOn(m, ta, tb, sa, sb, sa, sb, na, xb)
    BY <1>4, ATakesRequest
  <2>3. QED BY <2>1, <2>2
<1>5. CASE \E c \in CheckIds : BReceives(c)
  BY <1>2, <1>3, <1>5, SessionRequests DEF BReceives, AGets
<1>6. CASE \E c \in CheckIds : AReceives(c)
  BY <1>2, <1>4, <1>6, SessionRequests DEF AReceives, BGets
<1>7. CASE BReceivesLate \/ AReceivesLate
  BY <1>3, <1>4, <1>7 DEF BReceivesLate, AReceivesLate, AGets, BGets
<1>8. CASE \/ AStep(A!OwnStep \/ \E c \in CheckIds : \E x \in aAnswers[c] : A!Answer(c, x))
           \/ BStep(B!OwnStep \/ \E c \in CheckIds : \E x \in bAnswers[c] : B!Answer(c, x))
  BY <1>8, AOwnStep, BOwnStep
<1>9. CASE UNCHANGED vars
  <2>1. /\ UNCHANGED A!vars /\ UNCHANGED B!vars /\ ra = sa /\ rb = sb /\ xa = na /\ xb = nb
        /\ Reached(sa, sb) \subseteq Reached(sa, sb) /\ Reached(sb, sa) \subseteq Reached(sb, sa)
    BY <1>9, AgentVars DEF vars
  <2>2. A!SideOn(m, ta, Reached(sa, sb), sa, sa, na)
    BY <1>1, <2>1, AAssumptions, A!StillSide
  <2>3. B!SideOn(~m, tb, Reached(sb, sa), sb, sb, nb)
    BY <1>1, <2>1, BAssumptions, B!StillSide
  <2>4. QED BY <2>1, <2>2, <2>3 DEF PactOn
<1>10. QED BY <1>5, <1>6, <1>7, <1>8, <1>9, SessionSteps

-----------------------------------------------------------------------------
(* Theorems *)

LEMMA InitPact ==
    ASSUME Init
    PROVE  SessionInv
<1> DEFINE K == Reached({}, {})
           none == [c \in CheckIds |-> {}]
<1>1. /\ A!Init /\ B!Init /\ aTie # bTie
      /\ aSent = {} /\ bSent = {} /\ aAnswers = none /\ bAnswers = none
  BY DEF Init
<1>2. aControlling \in BOOLEAN /\ bControlling \in BOOLEAN /\ aTie \in Ties /\ bTie \in Ties
  BY <1>1, LimitAssumption DEF A!Init, B!Init
<1> HIDE DEF K, none
<1>3. ASSUME NEW m \in BOOLEAN
      PROVE  /\ A!Side(m, aTie, K, {}, none) /\ B!Side(~m, bTie, K, {}, none)
             /\ aControlling = m => A!Fixed(m, aTie, {})
             /\ bControlling = ~m => B!Fixed(~m, bTie, {})
  <2>1. A!Side(m, aTie, K, {}, none) /\ (aControlling = m => A!Fixed(m, aTie, {}))
    BY <1>1, AAssumptions, A!InitSide DEF none
  <2>2. (~m) \in BOOLEAN
    OBVIOUS
  <2>3. B!Side(~m, bTie, K, {}, none) /\ (bControlling = ~m => B!Fixed(~m, bTie, {}))
    BY <1>1, <2>2, BAssumptions, B!InitSide DEF none
  <2>4. QED BY <2>1, <2>3
<1>4. PICK m \in BOOLEAN :
         /\ aControlling = m \/ bControlling = ~m
         /\ (aControlling = m /\ bControlling = ~m) \/ A!Beats(m, aTie, bTie)
  <2>1. CASE aControlling # bControlling
    BY SMT, <1>2, <2>1
  <2>2. CASE aControlling = bControlling
    <3>1. CASE bTie < aTie
      <4>1. A!Beats(TRUE, aTie, bTie)
        BY <3>1 DEF A!Beats
      <4>2. QED BY <1>2, <2>2, <4>1
    <3>2. CASE ~(bTie < aTie)
      <4>1. aTie < bTie
        BY SMT, <1>1, <1>2, <3>2, LimitAssumption
      <4>2. A!Beats(FALSE, aTie, bTie)
        BY <4>1 DEF A!Beats
      <4>3. QED BY <1>2, <2>2, <4>2
    <3>3. QED BY <3>1, <3>2
  <2>3. QED BY <2>1, <2>2
<1>5. Pact(m, aTie, bTie, {}, {}, none, none)
  BY <1>3, <1>4 DEF Pact, K
<1>6. QED BY <1>1, <1>2, <1>5 DEF SessionInv

LEMMA PactKept ==
    ASSUME NEW m, NEW ta, NEW tb, NEW sa, NEW sb, NEW na, NEW nb,
           NEW ra, NEW rb, NEW xa, NEW xb, Pact(m, ta, tb, sa, sb, na, nb),
           PactOn(m, ta, tb, sa, sb, ra, rb, xa, xb)
    PROVE  Pact(m, ta, tb, ra, rb, xa, xb)'
<1>1. /\ A!Side(m, ta, Reached(ra, rb), ra, xa)' /\ B!Side(~m, tb, Reached(rb, ra), rb, xb)'
      /\ A!Fixed(m, ta, sa) => A!Fixed(m, ta, ra)'
      /\ B!Fixed(~m, tb, sb) => B!Fixed(~m, tb, rb)'
  BY DEF PactOn, A!SideOn, B!SideOn
<1>2. /\ A!Fixed(m, ta, sa) \/ B!Fixed(~m, tb, sb)
      /\ (A!Fixed(m, ta, sa) /\ B!Fixed(~m, tb, sb)) \/ A!Beats(m, ta, tb)
  BY DEF Pact
<1>3. A!Beats(m, ta, tb) => A!Beats(m, ta, tb)'
  BY DEF A!Beats
<1>4. QED BY <1>1, <1>2, <1>3 DEF Pact

LEMMA SessionInvStep ==
    ASSUME SessionInv, [Next]_vars
    PROVE  SessionInv' /\ (aControlling # bControlling => aControlling' # bControlling')
<1>1. PICK m \in BOOLEAN, ta \in Ties, tb \in Ties :
        \E sa \in {aSent}, sb \in {bSent}, na \in {aAnswers}, nb \in {bAnswers} :
          Pact(m, ta, tb, sa, sb, na, nb)
  BY DEF SessionInv
<1>2. PICK sa \in {aSent}, sb \in {bSent}, na \in {aAnswers}, nb \in {bAnswers} :
        Pact(m, ta, tb, sa, sb, na, nb)
  BY <1>1
<1>3. PICK ra \in {aSent'}, rb \in {bSent'}, xa \in {aAnswers'}, xb \in {bAnswers'} : TRUE
  OBVIOUS
<1>4. PactOn(m, ta, tb, sa, sb, ra, rb, xa, xb)
  BY <1>2, <1>3, PactStep
<1>5. Pact(m, ta, tb, ra, rb, xa, xb)'
  BY <1>2, <1>4, PactKept
<1>6. SessionInv'
  BY <1>3, <1>5 DEF SessionInv
<1>7. ASSUME aControlling # bControlling
      PROVE  aControlling' # bControlling'
  <2>1. aControlling \in BOOLEAN /\ bControlling \in BOOLEAN
    BY <1>2 DEF Pact, A!Side, B!Side, A!Plays, B!Plays
  <2>2. aControlling = m \/ bControlling = ~m
    BY <1>2 DEF Pact, A!Fixed, B!Fixed, A!Holds, B!Holds
  <2>3. aControlling = m /\ bControlling = ~m
    BY SMT, <1>7, <2>1, <2>2
  <2>4. aControlling' = m /\ bControlling' = ~m
    BY <1>4, <2>3 DEF PactOn, A!SideOn, B!SideOn
  <2>5. QED BY <2>4
<1>8. QED BY <1>6, <1>7

LEMMA InvSides ==
    ASSUME SessionInv
    PROVE  \E m \in BOOLEAN, ta, tb \in Ties :
             /\ A!Side(m, ta, Reached(aSent, bSent), aSent, aAnswers)
             /\ B!Side(~m, tb, Reached(bSent, aSent), bSent, bAnswers)
<1>1. PICK m \in BOOLEAN, ta \in Ties, tb \in Ties :
        \E sa \in {aSent}, sb \in {bSent}, na \in {aAnswers}, nb \in {bAnswers} :
          Pact(m, ta, tb, sa, sb, na, nb)
  BY DEF SessionInv
<1>2. Pact(m, ta, tb, aSent, bSent, aAnswers, bAnswers)
  BY <1>1
<1>3. QED BY <1>2 DEF Pact

\* Every pair an agent has nominated has been asked for.
LEMMA InvAsked ==
    ASSUME SessionInv
    PROVE  NominationAsked
<1>1. PICK m \in BOOLEAN, ta \in Ties, tb \in Ties :
        /\ A!Side(m, ta, Reached(aSent, bSent), aSent, aAnswers)
        /\ B!Side(~m, tb, Reached(bSent, aSent), bSent, bAnswers)
  BY InvSides
<1>2. /\ \A k \in Nominated(aValid) : k \in Reached(aSent, bSent)
      /\ \A k \in Nominated(bValid) : k \in Reached(bSent, aSent)
  <2>1. /\ A!ValidPlays(Reached(aSent, bSent), aValid)
        /\ B!ValidPlays(Reached(bSent, aSent), bValid)
    BY <1>1 DEF A!Side, B!Side, A!Plays, B!Plays
  <2>2. QED BY <2>1 DEF Nominated, A!ValidPlays, B!ValidPlays
<1>3. ASSUME NEW q \in aSent PROVE Mirror(Mirror(q.key)) = q.key
  <2>1. q.key \in KeysOf(AHosts, BHosts)
    BY <1>1, AgentKeys DEF A!Side, A!Requests
  <2>2. QED BY ZenonT(30), <2>1, KeyParts
<1>4. ASSUME NEW k \in Reached(aSent, bSent) PROVE Asked(k)
  BY DEF Reached, AskedBy, Asked
<1>5. ASSUME NEW k \in Reached(bSent, aSent) PROVE Asked(Mirror(k))
  BY <1>3 DEF Reached, AskedBy, Asked
<1>6. QED BY <1>2, <1>4, <1>5 DEF NominationAsked

\* Each agent of a session takes the steps of IceAgent and no others.
LEMMA AgentSteps ==
    ASSUME SessionInv, [Next]_vars
    PROVE  [A!Next]_(A!vars) /\ [B!Next]_(B!vars)
<1>1. PICK m \in BOOLEAN, ta \in Ties, tb \in Ties :
        /\ A!Side(m, ta, Reached(aSent, bSent), aSent, aAnswers)
        /\ B!Side(~m, tb, Reached(bSent, aSent), bSent, bAnswers)
  BY InvSides
<1>2. /\ A!OwnStep => A!Next
      /\ B!OwnStep => B!Next
      /\ \A c \in CheckIds : \A x \in aAnswers[c] : A!Answer(c, x) => A!Next
      /\ \A c \in CheckIds : \A x \in bAnswers[c] : B!Answer(c, x) => B!Next
  <2>1. \A c \in CheckIds : /\ aAnswers[c] \subseteq {"ok", "conflict"}
                            /\ bAnswers[c] \subseteq {"ok", "conflict"}
    BY <1>1 DEF A!Side, B!Side
  <2>2. /\ A!OwnStep => A!Next
        /\ \A c \in CheckIds, x \in {"ok", "conflict"} : A!Answer(c, x) => A!Next
    BY AAssumptions, A!StepsAreSteps
  <2>3. /\ B!OwnStep => B!Next
        /\ \A c \in CheckIds, x \in {"ok", "conflict"} : B!Answer(c, x) => B!Next
    BY BAssumptions, B!StepsAreSteps
  <2>4. QED BY <2>1, <2>2, <2>3
<1>3. ASSUME NEW q \in aSent, NEW x, BHandles(q, x)
      PROVE  (B!Next \/ UNCHANGED B!vars) /\ UNCHANGED A!vars
  <2>1. q.key \in KeysOf(AHosts, BHosts) /\ q.use \in BOOLEAN /\ q.role \in BOOLEAN /\ q.tie \in Ties
    BY <1>1, AgentKeys DEF A!Side, A!Requests
  <2>2. q.key[2] \in BHosts /\ q.key[1] \in AHosts /\ <<q.key[2], q.key[1]>> \in B!Keys
    BY <2>1, KeyParts, AgentKeys DEF Mirror
  <2>3. ASSUME NEW h \in HandlerIds, B!Request(h, q.key[2], q.key[1], q.use, q.role, q.tie)
        PROVE  B!Next
    <3>1. \A i \in HandlerIds, l \in BHosts, r \in AHosts, use, role \in BOOLEAN, u \in Ties :
            <<l, r>> \in B!Keys /\ B!Request(i, l, r, use, role, u) => B!Next
      BY BAssumptions, B!StepsAreSteps
    <3>2. QED BY <2>1, <2>2, <2>3, <3>1
  <2>4. QED BY <1>3, <2>3, AgentVars DEF BHandles
<1>4. ASSUME NEW q \in bSent, NEW x, AHandles(q, x)
      PROVE  (A!Next \/ UNCHANGED A!vars) /\ UNCHANGED B!vars
  <2>1. q.key \in KeysOf(BHosts, AHosts) /\ q.use \in BOOLEAN /\ q.role \in BOOLEAN /\ q.tie \in Ties
    BY <1>1, AgentKeys DEF B!Side, B!Requests
  <2>2. q.key[2] \in AHosts /\ q.key[1] \in BHosts /\ <<q.key[2], q.key[1]>> \in A!Keys
    BY <2>1, KeyParts, AgentKeys DEF Mirror
  <2>3. ASSUME NEW h \in HandlerIds, A!Request(h, q.key[2], q.key[1], q.use, q.role, q.tie)
        PROVE  A!Next
    <3>1. \A i \in HandlerIds, l \in AHosts, r \in BHosts, use, role \in BOOLEAN, u \in Ties :
            <<l, r>> \in A!Keys /\ A!Request(i, l, r, use, role, u) => A!Next
      BY AAssumptions, A!StepsAreSteps
    <3>2. QED BY <2>1, <2>2, <2>3, <3>1
  <2>4. QED BY <1>4, <2>3, AgentVars DEF AHandles
<1>5. /\ \A c \in Waiting(aChecks) : RequestOf(aChecks[c]) \in aSent
      /\ \A c \in Waiting(bChecks) : RequestOf(bChecks[c]) \in bSent
  BY <1>1, SessionRequests DEF A!Side, B!Side
<1>6. CASE \/ AStep(A!OwnStep \/ \E c \in CheckIds : \E x \in aAnswers[c] : A!Answer(c, x))
           \/ BStep(B!OwnStep \/ \E c \in CheckIds : \E x \in bAnswers[c] : B!Answer(c, x))
  BY <1>2, <1>6, AgentVars DEF AStep, BStep
<1>7. CASE \/ \E c \in CheckIds : AReceives(c) \/ BReceives(c)
           \/ AReceivesLate \/ BReceivesLate
  BY <1>3, <1>4, <1>5, <1>7 DEF AReceives, BReceives, AReceivesLate, BReceivesLate
<1>8. CASE UNCHANGED vars
  BY <1>8, AgentVars DEF vars
<1>9. QED BY <1>6, <1>7, <1>8, SessionSteps

\* In every session the lasting roles are settled when it starts: what the
\* agents send, answer and queue fits them ever after (do_check,
\* do_handle_request, switch_role, the answers 200 and 487).
THEOREM SessionInvariant == Spec => []SessionInv
<1>1. Init => SessionInv
  BY InitPact
<1>2. SessionInv /\ [Next]_vars => SessionInv'
  BY SessionInvStep
<1>3. QED BY <1>1, <1>2, PTL DEF Spec

\* An agent nominates only what a controlling agent asked for with
\* USE-CANDIDATE, whatever is lost, late or duplicated and however the roles
\* change in between (default_nominate, do_handle_request, do_check).
THEOREM NominationsAreAsked == Spec => []NominationAsked
<1>1. SessionInv => NominationAsked
  BY InvAsked
<1>2. QED BY <1>1, SessionInvariant, PTL

\* Two agents in different roles stay in different roles (do_handle_request,
\* do_check, switch_role).
THEOREM RolesStay == Spec => RolesStayApart
<1>1. SessionInv /\ [Next]_vars
      => [aControlling # bControlling => aControlling' # bControlling']_vars
  BY SessionInvStep
<1>2. QED BY <1>1, SessionInvariant, PTL DEF Spec, RolesStayApart

\* Each agent of a session is an agent as IceAgent specifies it: what holds of
\* every behaviour of one agent holds of both (connect, request_handler, close).
THEOREM AgentsInSession == Spec => A!Spec /\ B!Spec
<1>1. Init => A!Init /\ B!Init
  BY DEF Init
<1>2. SessionInv /\ [Next]_vars => [A!Next]_(A!vars) /\ [B!Next]_(B!vars)
  BY AgentSteps
<1>3. QED BY <1>1, <1>2, SessionInvariant, PTL DEF Spec, A!Spec, B!Spec
=============================================================================
