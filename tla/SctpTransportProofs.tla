------------------------- MODULE SctpTransportProofs -------------------------
(***************************************************************************)
(* No wake-up of the SCTP transport is lost and no mutex is, for any number*)
(* of calls, timeouts and packets and any limits of the queues.            *)
(*                                                                         *)
(* The three parts of IInv stand on different variables, so that a step is *)
(* looked at once for the calls, once for the queue of packets and once    *)
(* for the timeouts.  The DTLS transport plays no part in it: its results  *)
(* may come in any order.                                                  *)
(*                                                                         *)
(* First the mutexes: what lock() and unlock() do to a queue of waiters,   *)
(* and that every step leaves _ssl_mutex, its holder and _bio.out as       *)
(* DtlsGood says.                                                          *)
(***************************************************************************)
EXTENDS SctpInvariant, WellFoundedInduction, TLAPS

\* The leaves that name no prover are Zenon's.
USE Zenon

-----------------------------------------------------------------------------
(* Queues without repetition.                                              *)

LEMMA AppendIn ==
    ASSUME NEW S, NEW s \in Seq(S), Distinct(s), NEW x \in S, ~In(x, s)
    PROVE  /\ Append(s, x) \in Seq(S) /\ Distinct(Append(s, x))
           /\ \A y : In(y, Append(s, x)) <=> In(y, s) \/ y = x
           /\ Len(Append(s, x)) = Len(s) + 1 /\ Append(s, x)[Len(s) + 1] = x
           /\ \A i \in 1 .. Len(s) : Append(s, x)[i] = s[i]
<1> DEFINE t == Append(s, x)
<1>1. /\ t \in Seq(S) /\ Len(t) = Len(s) + 1 /\ t[Len(s) + 1] = x
      /\ \A i \in 1 .. Len(s) : t[i] = s[i]
  BY SMT
<1>2. /\ DOMAIN s = 1 .. Len(s) /\ Len(s) \in Nat /\ DOMAIN t = 1 .. Len(s) + 1
  BY SMT, <1>1
<1> HIDE DEF t
<1>3. \A y : In(y, t) <=> In(y, s) \/ y = x
  BY SMT, <1>1, <1>2 DEF In
<1>4. Distinct(t)
  <2> SUFFICES ASSUME NEW i \in DOMAIN t, NEW j \in DOMAIN t, t[i] = t[j]
               PROVE  i = j
    BY DEF Distinct
  <2>1. CASE i \in 1 .. Len(s) /\ j \in 1 .. Len(s)
    BY <1>1, <1>2, <2>1 DEF Distinct
  <2>2. CASE i = Len(s) + 1 \/ j = Len(s) + 1
    BY SMT, <1>1, <1>2, <2>2 DEF In
  <2> QED
    BY SMT, <1>2, <2>1, <2>2
<1> QED
  BY <1>1, <1>3, <1>4 DEF t

LEMMA TailIn ==
    ASSUME NEW S, NEW s \in Seq(S), Distinct(s), s # <<>>
    PROVE  /\ Head(s) \in S /\ In(Head(s), s) /\ Head(s) = s[1]
           /\ Tail(s) \in Seq(S) /\ Distinct(Tail(s))
           /\ \A y : In(y, Tail(s)) <=> In(y, s) /\ y # Head(s)
           /\ Len(Tail(s)) = Len(s) - 1 /\ Len(s) \in Nat \ {0}
           /\ \A i \in 1 .. Len(s) - 1 : Tail(s)[i] = s[i + 1]
<1> DEFINE t == Tail(s)
<1>1. /\ Head(s) = s[1] /\ t \in Seq(S) /\ Len(t) = Len(s) - 1
      /\ Len(s) \in Nat \ {0} /\ DOMAIN s = 1 .. Len(s) /\ DOMAIN t = 1 .. Len(s) - 1
      /\ \A i \in 1 .. Len(s) - 1 : t[i] = s[i + 1]
  BY SMT
<1>2. Head(s) \in S /\ In(Head(s), s)
  BY SMT, <1>1 DEF In
<1> HIDE DEF t
<1>3. Distinct(t)
  BY SMTT(30), <1>1 DEF Distinct
<1>4. ASSUME NEW y PROVE In(y, t) <=> In(y, s) /\ y # Head(s)
  <2>1. ASSUME In(y, t) PROVE In(y, s) /\ y # Head(s)
    BY SMTT(30), <1>1, <2>1 DEF In, Distinct
  <2>2. ASSUME In(y, s), y # Head(s) PROVE In(y, t)
    <3>1. PICK i \in DOMAIN s : s[i] = y
      BY <2>2 DEF In
    <3>2. i - 1 \in 1 .. Len(s) - 1 /\ t[i - 1] = y
      BY SMT, <1>1, <2>2, <3>1
    <3> QED
      BY <1>1, <3>2 DEF In
  <2> QED
    BY <2>1, <2>2
<1> QED
  BY <1>1, <1>2, <1>3, <1>4 DEF t

LEMMA UnlinkedIn ==
    ASSUME NEW S, NEW s \in Seq(S), Distinct(s), NEW x
    PROVE  /\ Unlinked(s, x) \in Seq(S) /\ Distinct(Unlinked(s, x))
           /\ \A y : In(y, Unlinked(s, x)) <=> In(y, s) /\ y # x
<1>1. CASE ~In(x, s)
  BY <1>1 DEF In, Unlinked
<1>2. CASE In(x, s)
  <2> DEFINE k == CHOOSE i \in DOMAIN s : s[i] = x
             t == [j \in 1 .. Len(s) - 1 |-> IF j < k THEN s[j] ELSE s[j + 1]]
  <2>1. k \in DOMAIN s /\ s[k] = x
    BY <1>2 DEF In
  <2>2. Unlinked(s, x) = t
    BY <2>1 DEF Unlinked
  <2> HIDE DEF k
  <2>3. /\ Len(s) \in Nat /\ DOMAIN s = 1 .. Len(s) /\ k \in 1 .. Len(s)
        /\ \A j \in 1 .. Len(s) : s[j] \in S
    BY SMT, <2>1
  <2>4. /\ DOMAIN t = 1 .. Len(s) - 1
        /\ \A j \in 1 .. Len(s) - 1 : t[j] = IF j < k THEN s[j] ELSE s[j + 1]
    BY SMT
  <2>5. t \in Seq(S)
    <3>1. t \in [1 .. Len(s) - 1 -> S] /\ Len(s) - 1 \in Nat
      BY SMT, <2>3
    <3> HIDE DEF t
    <3> QED
      BY SMT, <3>1
  <2> HIDE DEF t
  <2>6. Distinct(t)
    <3> SUFFICES ASSUME NEW i \in 1 .. Len(s) - 1, NEW j \in 1 .. Len(s) - 1,
                        t[i] = t[j]
                 PROVE  i = j
      BY <2>4 DEF Distinct
    <3>1. \A p, q \in 1 .. Len(s) : s[p] = s[q] => p = q
      BY <2>3 DEF Distinct
    <3>2. /\ i \in 1 .. Len(s) /\ i + 1 \in 1 .. Len(s)
          /\ j \in 1 .. Len(s) /\ j + 1 \in 1 .. Len(s)
      BY SMT, <2>3
    <3>3. /\ t[i] = IF i < k THEN s[i] ELSE s[i + 1]
          /\ t[j] = IF j < k THEN s[j] ELSE s[j + 1]
      BY <2>4
    <3>4. k \in Nat /\ i \in Nat /\ j \in Nat
      BY SMT, <2>3
    <3>5. CASE i < k /\ j < k
      BY <3>1, <3>2, <3>3, <3>5
    <3>6. CASE ~(i < k) /\ ~(j < k)
      <4>1. i + 1 = j + 1
        BY <3>1, <3>2, <3>3, <3>6
      <4> QED
        BY SMT, <3>4, <4>1
    <3>7. CASE i < k /\ ~(j < k)
      <4>1. i = j + 1
        BY <3>1, <3>2, <3>3, <3>7
      <4> QED
        BY SMT, <3>4, <3>7, <4>1
    <3>8. CASE ~(i < k) /\ j < k
      <4>1. i + 1 = j
        BY <3>1, <3>2, <3>3, <3>8
      <4> QED
        BY SMT, <3>4, <3>8, <4>1
    <3> QED
      BY <3>5, <3>6, <3>7, <3>8
  <2>7. ASSUME NEW y PROVE In(y, t) <=> In(y, s) /\ y # x
    <3>1. ASSUME In(y, t) PROVE In(y, s) /\ y # x
      <4>1. PICK j \in 1 .. Len(s) - 1 : t[j] = y
        BY <2>4, <3>1 DEF In
      <4>2. CASE j < k
        BY SMT, <2>1, <2>3, <2>4, <4>1, <4>2 DEF In, Distinct
      <4>3. CASE ~(j < k)
        BY SMT, <2>1, <2>3, <2>4, <4>1, <4>3 DEF In, Distinct
      <4> QED
        BY <4>2, <4>3
    <3>2. ASSUME In(y, s), y # x PROVE In(y, t)
      <4>1. PICK i \in 1 .. Len(s) : s[i] = y
        BY <2>3, <3>2 DEF In
      <4>2. CASE i < k
        BY SMT, <2>3, <2>4, <4>1, <4>2 DEF In
      <4>3. CASE ~(i < k)
        <5>1. i # k /\ i - 1 \in 1 .. Len(s) - 1 /\ t[i - 1] = y
          BY SMT, <2>1, <2>3, <2>4, <3>2, <4>1, <4>3
        <5> QED
          BY <2>4, <5>1 DEF In
      <4> QED
        BY <4>2, <4>3
    <3> QED
      BY <3>1, <3>2
  <2> QED
    BY <2>2, <2>5, <2>6, <2>7
<1> QED
  BY <1>1, <1>2

-----------------------------------------------------------------------------
(* The calls that queue for _send_mtx or for _read_mtx.                    *)

\* Some of the calls that wait have been woken.
Woken(cl, dl) ==
    /\ Shape(dl)
    /\ \A c \in Calls :
         \/ dl[c] = cl[c]
         \/ /\ cl[c].at \in {"low", "room", "wait"}
            /\ dl[c].op = cl[c].op /\ dl[c].at \in {"hop", "hop2"}

LEMMA QueuesAssembled ==
    ASSUME QueueOf("send", call', sendMtx'), QueueOf("read", call', readMtx')
    PROVE  CallsQueue'
<1>1. QueueOf("send", call, sendMtx)' /\ QueueOf("read", call, readMtx)'
  BY DEF QueueOf, Distinct
<1> QED
  BY <1>1 DEF CallsQueue

\* Who is in the queue of a mutex.
LEMMA Queued ==
    ASSUME NEW op, NEW cl, NEW m, QueueOf(op, cl, m)
    PROVE  /\ m \in Seq(Calls) /\ Distinct(m) /\ Len(m) \in Nat
           /\ DOMAIN m = 1 .. Len(m) /\ (m # <<>> <=> Len(m) > 0)
           /\ m # <<>> => Head(m) = m[1]
           /\ \A i \in 1 .. Len(m) : /\ m[i] \in Calls /\ cl[m[i]].op = op
                                     /\ cl[m[i]].at # "idle" /\ cl[m[i]].at # "done"
<1>1. /\ m \in Seq(Calls) /\ Distinct(m) /\ \A i \in DOMAIN m : cl[m[i]].op = op
      /\ m # <<>> => cl[Head(m)].at \notin {"idle", "lock", "done"}
      /\ \A i \in 2 .. Len(m) : cl[m[i]].at = "lock"
  BY DEF QueueOf
<1>2. /\ Len(m) \in Nat /\ DOMAIN m = 1 .. Len(m) /\ (m # <<>> <=> Len(m) > 0)
      /\ m # <<>> => Head(m) = m[1]
      /\ \A i \in 1 .. Len(m) : m[i] \in Calls
  BY SMT, <1>1
<1>3. ASSUME NEW i \in 1 .. Len(m) PROVE cl[m[i]].at # "idle" /\ cl[m[i]].at # "done"
  <2>1. i = 1 \/ i \in 2 .. Len(m)
    BY SMT, <1>2
  <2>2. m # <<>>
    BY SMT, <1>2
  <2> QED
    BY <1>1, <1>2, <2>1, <2>2
<1> QED
  BY <1>1, <1>2, <1>3

\* Notifications move calls that are at work.
LEMMA QueueWoken ==
    ASSUME NEW op, NEW cl, NEW dl, NEW m, QueueOf(op, cl, m), Woken(cl, dl)
    PROVE  QueueOf(op, dl, m)
<1>1. /\ m \in Seq(Calls) /\ Distinct(m) /\ Len(m) \in Nat
      /\ DOMAIN m = 1 .. Len(m) /\ (m # <<>> <=> Len(m) > 0)
      /\ m # <<>> => Head(m) = m[1]
      /\ \A i \in 1 .. Len(m) : m[i] \in Calls
  BY SMT, Queued
<1>2. \A c \in Calls :
        /\ dl[c].op = cl[c].op
        /\ dl[c].at = "lock" <=> cl[c].at = "lock"
        /\ dl[c].at \in {"idle", "lock", "done"} <=> cl[c].at \in {"idle", "lock", "done"}
  BY DEF Woken
<1>3. \A i \in DOMAIN m : dl[m[i]].op = op
  BY <1>1, <1>2 DEF QueueOf
<1>4. m # <<>> => dl[Head(m)].at \notin {"idle", "lock", "done"}
  BY SMT, <1>1, <1>2 DEF QueueOf
<1>5. \A i \in 2 .. Len(m) : dl[m[i]].at = "lock"
  BY SMT, <1>1, <1>2 DEF QueueOf
<1>6. \A c \in Calls : dl[c].op = op /\ dl[c].at \notin {"idle", "done", "lock"} =>
          m # <<>> /\ Head(m) = c
  BY <1>2 DEF QueueOf
<1> QED
  BY <1>1, <1>3, <1>4, <1>5, <1>6 DEF QueueOf

\* The calls of other kinds.
LEMMA QueueElsewhere ==
    ASSUME NEW op, NEW cl, NEW dl, NEW m, QueueOf(op, cl, m),
           \A c \in Calls : \/ dl[c] = cl[c]
                            \/ /\ cl[c].op # op \/ cl[c].at = "idle"
                               /\ dl[c].op # op
    PROVE  QueueOf(op, dl, m)
<1>1. /\ m \in Seq(Calls) /\ Distinct(m) /\ Len(m) \in Nat
      /\ DOMAIN m = 1 .. Len(m) /\ (m # <<>> <=> Len(m) > 0)
      /\ m # <<>> => Head(m) = m[1]
      /\ \A i \in 1 .. Len(m) : /\ m[i] \in Calls /\ cl[m[i]].op = op
                                /\ cl[m[i]].at # "idle"
  BY SMT, Queued
<1>2. \A i \in 1 .. Len(m) : dl[m[i]] = cl[m[i]]
  BY <1>1
<1>3. \A i \in DOMAIN m : dl[m[i]].op = op
  BY <1>1, <1>2
<1>4. m # <<>> => dl[Head(m)].at \notin {"idle", "lock", "done"}
  BY SMT, <1>1, <1>2 DEF QueueOf
<1>5. \A i \in 2 .. Len(m) : dl[m[i]].at = "lock"
  BY SMT, <1>1, <1>2 DEF QueueOf
<1>6. \A c \in Calls : dl[c].op = op /\ dl[c].at \notin {"idle", "done", "lock"} =>
          m # <<>> /\ Head(m) = c
  BY DEF QueueOf
<1> QED
  BY <1>1, <1>3, <1>4, <1>5, <1>6 DEF QueueOf

\* lock(): a new call has the mutex or queues.
LEMMA QueueJoined ==
    ASSUME NEW op, NEW cl, NEW dl, NEW m, QueueOf(op, cl, m),
           NEW c \in Calls, cl[c].at = "idle", dl[c].op = op,
           dl[c].at = IF m = <<>> THEN "turn" ELSE "lock",
           \A d \in Calls : d # c => dl[d] = cl[d]
    PROVE  QueueOf(op, dl, Append(m, c))
<1> DEFINE t == Append(m, c)
<1>1. /\ m \in Seq(Calls) /\ Distinct(m) /\ Len(m) \in Nat
      /\ DOMAIN m = 1 .. Len(m) /\ (m # <<>> <=> Len(m) > 0)
      /\ m # <<>> => Head(m) = m[1]
      /\ \A i \in 1 .. Len(m) : /\ m[i] \in Calls /\ cl[m[i]].op = op
                                /\ cl[m[i]].at # "idle"
  BY SMT, Queued
<1>2. ~In(c, m) /\ \A i \in 1 .. Len(m) : m[i] # c /\ dl[m[i]] = cl[m[i]]
  BY <1>1 DEF In
<1>3. /\ t \in Seq(Calls) /\ Distinct(t) /\ Len(t) = Len(m) + 1 /\ t[Len(m) + 1] = c
      /\ \A i \in 1 .. Len(m) : t[i] = m[i]
  BY SMT, <1>1, <1>2, AppendIn
<1> HIDE DEF t
<1>4. DOMAIN t = 1 .. Len(m) + 1 /\ t # <<>> /\ Head(t) = t[1]
  BY SMT, <1>1, <1>3
<1>5. \A i \in DOMAIN t : dl[t[i]].op = op
  BY SMT, <1>1, <1>2, <1>3, <1>4
<1>6. CASE m = <<>>
  <2>1. Head(t) = c /\ Len(t) = 1 /\ dl[c].at = "turn"
    BY SMT, <1>1, <1>3, <1>4, <1>6
  <2>2. \A d \in Calls : dl[d].op = op /\ dl[d].at \notin {"idle", "done", "lock"} =>
            d = c
    BY <1>6 DEF QueueOf
  <2> QED
    BY SMT, <1>3, <1>4, <1>5, <2>1, <2>2 DEF QueueOf, t
<1>7. CASE m # <<>>
  <2>1. Head(t) = Head(m) /\ Head(m) \in Calls /\ dl[Head(m)] = cl[Head(m)]
    BY SMT, <1>1, <1>2, <1>3, <1>4, <1>7
  <2>2. dl[Head(t)].at \notin {"idle", "lock", "done"}
    BY <1>7, <2>1 DEF QueueOf
  <2>3. ASSUME NEW i \in 2 .. Len(t) PROVE dl[t[i]].at = "lock"
    <3>1. CASE i \in 2 .. Len(m)
      BY SMT, <1>1, <1>2, <1>3, <3>1 DEF QueueOf
    <3>2. CASE i = Len(m) + 1
      BY <1>3, <1>7, <3>2
    <3> QED
      BY SMT, <1>1, <1>3, <3>1, <3>2
  <2>4. \A d \in Calls : dl[d].op = op /\ dl[d].at \notin {"idle", "done", "lock"} =>
            Head(t) = d
    BY <1>7, <2>1 DEF QueueOf
  <2> QED
    BY <1>3, <1>4, <1>5, <2>2, <2>3, <2>4 DEF QueueOf, t
<1> QED
  BY <1>6, <1>7

\* The call at the head waits for something else.
LEMMA QueueAt ==
    ASSUME NEW op, NEW cl, NEW dl, NEW m, QueueOf(op, cl, m),
           NEW c \in Calls, cl[c].op = op, cl[c].at \notin {"idle", "lock", "done"},
           dl[c].op = op, dl[c].at \notin {"idle", "lock", "done"},
           \A d \in Calls : d # c => dl[d] = cl[d]
    PROVE  QueueOf(op, dl, m)
<1>1. /\ m \in Seq(Calls) /\ Distinct(m) /\ Len(m) \in Nat
      /\ DOMAIN m = 1 .. Len(m) /\ (m # <<>> <=> Len(m) > 0)
      /\ m # <<>> => Head(m) = m[1]
      /\ \A i \in 1 .. Len(m) : m[i] \in Calls
  BY SMT, Queued
<1>2. m # <<>> /\ Head(m) = c
  BY DEF QueueOf
<1>3. \A i \in 2 .. Len(m) : m[i] # c /\ dl[m[i]] = cl[m[i]]
  BY SMT, <1>1, <1>2 DEF Distinct
<1>4. \A i \in DOMAIN m : dl[m[i]].op = op
  BY <1>1 DEF QueueOf
<1>5. \A i \in 2 .. Len(m) : dl[m[i]].at = "lock"
  BY <1>3 DEF QueueOf
<1>6. \A d \in Calls : dl[d].op = op /\ dl[d].at \notin {"idle", "done", "lock"} =>
          d = c
  BY <1>2 DEF QueueOf
<1> QED
  BY <1>1, <1>2, <1>4, <1>5, <1>6 DEF QueueOf

\* What unlock() does to the calls.
LEMMA ReleasedTo ==
    ASSUME NEW op, NEW m, QueueOf(op, call, m), Shape(call), NEW c \in Calls,
           call[c].op = op, call[c].at \notin {"idle", "lock", "done"}
    PROVE  LET dl == Released(Returns(call, c), m)
           IN /\ m # <<>> /\ Head(m) = c /\ Head(m) = m[1] /\ dl[c] = Done
              /\ Len(m) > 1 =>
                     /\ m[2] \in Calls /\ m[2] # c
                     /\ dl[m[2]].op = op /\ dl[m[2]].at = "turn"
              /\ \A d \in Calls :
                     d # c /\ (Len(m) > 1 => d # m[2]) => dl[d] = call[d]
<1> DEFINE r == Returns(call, c)
           x == m[2]
           dl == Released(r, m)
<1>1. /\ m \in Seq(Calls) /\ Distinct(m) /\ Len(m) \in Nat
      /\ DOMAIN m = 1 .. Len(m) /\ (m # <<>> <=> Len(m) > 0)
      /\ m # <<>> => Head(m) = m[1]
      /\ \A i \in 1 .. Len(m) : m[i] \in Calls /\ call[m[i]].op = op
  BY SMT, Queued
<1>2. m # <<>> /\ Head(m) = c /\ Head(m) = m[1]
  BY <1>1 DEF QueueOf
<1>3. DOMAIN r = Calls /\ r[c] = Done /\ \A d \in Calls : d # c => r[d] = call[d]
  BY DEF Returns, Shape
<1> HIDE DEF r
<1>4. CASE Len(m) > 1
  <2>1. x \in Calls /\ x # c /\ call[x].op = op /\ r[x] = call[x] /\ call[x] \in Call
    BY SMT, <1>1, <1>2, <1>3, <1>4 DEF Distinct, Shape
  <2> HIDE DEF x
  <2>2. dl = [r EXCEPT ![x].at = "turn"]
    BY <1>4 DEF Released, x
  <2>3. /\ dl[x].op = op /\ dl[x].at = "turn"
        /\ \A d \in Calls : d # x => dl[d] = r[d]
    BY SMT, <1>3, <2>1, <2>2 DEF Call
  <2> QED
    BY <1>2, <1>3, <1>4, <2>1, <2>3 DEF x, r
<1>5. CASE ~(Len(m) > 1)
  <2>1. dl = r
    BY <1>5 DEF Released
  <2> QED
    BY <1>2, <1>3, <1>5, <2>1 DEF r
<1> QED
  BY <1>4, <1>5

\* unlock(): the head returns and the next call has the mutex.
LEMMA QueueReleased ==
    ASSUME NEW op, op # "none", NEW m, QueueOf(op, call, m), Shape(call),
           NEW c \in Calls, call[c].op = op,
           call[c].at \notin {"idle", "lock", "done"}
    PROVE  /\ QueueOf(op, Released(Returns(call, c), m), Tail(m))
           /\ \A qo, k : qo # op /\ qo # "none" /\ QueueOf(qo, call, k) =>
                  QueueOf(qo, Released(Returns(call, c), m), k)
<1> DEFINE dl == Released(Returns(call, c), m)
           t == Tail(m)
<1>1. /\ m # <<>> /\ Head(m) = c /\ Head(m) = m[1] /\ dl[c] = Done
      /\ Len(m) > 1 => /\ m[2] \in Calls /\ m[2] # c
                       /\ dl[m[2]].op = op /\ dl[m[2]].at = "turn"
      /\ \A d \in Calls : d # c /\ (Len(m) > 1 => d # m[2]) => dl[d] = call[d]
  BY SMT, ReleasedTo
<1>2. /\ m \in Seq(Calls) /\ Distinct(m) /\ Len(m) \in Nat /\ DOMAIN m = 1 .. Len(m)
      /\ \A i \in 1 .. Len(m) : m[i] \in Calls /\ call[m[i]].op = op
  BY SMT, Queued
<1>3. /\ t \in Seq(Calls) /\ Distinct(t) /\ Len(t) = Len(m) - 1 /\ Len(m) \in Nat \ {0}
      /\ \A i \in 1 .. Len(m) - 1 : t[i] = m[i + 1]
  BY SMT, <1>1, <1>2, TailIn
<1> HIDE DEF dl, t
<1>4. /\ DOMAIN t = 1 .. Len(m) - 1 /\ (t # <<>> <=> Len(m) > 1)
      /\ t # <<>> => Head(t) = m[2]
  <2>1. DOMAIN t = 1 .. Len(m) - 1 /\ (t # <<>> <=> Len(m) > 1)
    BY SMT, <1>3
  <2>2. t # <<>> => Head(t) = t[1] /\ t[1] = m[2]
    BY SMT, <1>3, <2>1
  <2> QED
    BY <2>1, <2>2
<1>5. Done.op = "none"
  BY DEF Done
<1>6. QueueOf(op, dl, t)
  <2>1. \A i \in DOMAIN t : dl[t[i]].op = op
    <3> SUFFICES ASSUME NEW i \in 1 .. Len(m) - 1 PROVE dl[m[i + 1]].op = op
      BY SMT, <1>3, <1>4
    <3>1. i + 1 \in 1 .. Len(m) /\ Len(m) > 1 /\ i + 1 # 1
      BY SMT, <1>3
    <3>2. m[i + 1] \in Calls /\ m[i + 1] # c /\ call[m[i + 1]].op = op
      BY SMT, <1>1, <1>2, <3>1 DEF Distinct
    <3> QED
      BY <1>1, <3>1, <3>2
  <2>2. t # <<>> => dl[Head(t)].at \notin {"idle", "lock", "done"}
    BY <1>1, <1>4
  <2>3. ASSUME NEW i \in 2 .. Len(t) PROVE dl[t[i]].at = "lock"
    <3>1. i \in 1 .. Len(m) - 1 /\ i + 1 \in 2 .. Len(m) /\ i + 1 # 2 /\ i + 1 # 1
          /\ 1 \in DOMAIN m /\ 2 \in DOMAIN m /\ i + 1 \in DOMAIN m
      BY SMT, <1>2, <1>3
    <3>2. t[i] = m[i + 1] /\ m[i + 1] \in Calls /\ m[i + 1] # c /\ m[i + 1] # m[2]
      BY <1>1, <1>2, <1>3, <3>1 DEF Distinct
    <3>3. call[m[i + 1]].at = "lock"
      BY <3>1 DEF QueueOf
    <3> QED
      BY <1>1, <3>2, <3>3
  <2>4. ASSUME NEW d \in Calls, dl[d].op = op, dl[d].at \notin {"idle", "done", "lock"}
        PROVE  t # <<>> /\ Head(t) = d
    <3>1. d # c
      BY <1>1, <1>5, <2>4
    <3>2. CASE dl[d] = call[d]
      BY <1>1, <2>4, <3>1, <3>2 DEF QueueOf
    <3>3. CASE dl[d] # call[d]
      BY <1>1, <1>4, <3>1, <3>3
    <3> QED
      BY <3>2, <3>3
  <2> QED
    BY <1>3, <2>1, <2>2, <2>3, <2>4 DEF QueueOf
<1>7. ASSUME NEW qo, NEW k, qo # op, qo # "none", QueueOf(qo, call, k)
      PROVE  QueueOf(qo, dl, k)
  <2>1. ASSUME NEW d \in Calls
        PROVE  dl[d] = call[d] \/ ((call[d].op # qo \/ call[d].at = "idle") /\ dl[d].op # qo)
    <3>1. CASE d = c
      BY <1>1, <1>5, <1>7, <3>1
    <3>2. CASE d # c /\ Len(m) > 1 /\ d = m[2]
      BY SMT, <1>1, <1>2, <1>7, <3>2
    <3> QED
      BY <1>1, <3>1, <3>2
  <2> QED
    BY <1>7, <2>1, QueueElsewhere
<1> QED
  BY <1>6, <1>7 DEF dl, t

-----------------------------------------------------------------------------
(* _ssl_mutex.                                                             *)

Places == {"idle", "sleep", "lock", "run", "flush", "wait", "woken"}

\* One operation goes from a place without the mutex to another.
LEMMA PlaceSet ==
    ASSUME NEW a, NEW h, NEW w, MutexGood(a, h, w), NEW o \in Ops,
           a[o] \notin {"run", "flush", "lock"},
           NEW x \in {"idle", "sleep", "wait", "woken"}
    PROVE  MutexGood([a EXCEPT ![o] = x], h, w)
<1> DEFINE b == [a EXCEPT ![o] = x]
<1>1. /\ b \in [Ops -> Places]
      /\ \A p \in Ops : b[p] = IF p = o THEN x ELSE a[p]
  BY DEF MutexGood, Places
<1> HIDE DEF b
<1>2. \A p \in Ops : b[p] \in {"run", "flush"} <=> h = p
  BY <1>1 DEF MutexGood
<1>3. \A p \in Ops : b[p] = "lock" <=> In(p, w)
  BY <1>1 DEF MutexGood
<1>4. MutexGood(b, h, w)
  BY <1>1, <1>2, <1>3 DEF MutexGood, Places
<1> QED
  BY <1>4 DEF b

\* o takes the mutex, or queues for it.
Takes(a, h, w, o, b, g, u) ==
    IF h = NoOp THEN b = [a EXCEPT ![o] = "run"] /\ g = o /\ u = w
    ELSE b = [a EXCEPT ![o] = "lock"] /\ g = h /\ u = Append(w, o)

LEMMA LockedBy ==
    ASSUME NEW a, NEW h, NEW w, MutexGood(a, h, w), NEW o \in Ops,
           a[o] \notin {"run", "flush", "lock"}, NEW b, NEW g, NEW u,
           Takes(a, h, w, o, b, g, u)
    PROVE  /\ MutexGood(b, g, u)
           /\ b[o] \in {"run", "lock"}
           /\ \A p \in Ops \ {o} : b[p] = a[p]
           /\ g = h \/ (h = NoOp /\ g = o /\ b[o] = "run")
<1>1. CASE h = NoOp
  <2>1. b = [a EXCEPT ![o] = "run"] /\ g = o /\ u = w
    BY <1>1 DEF Takes
  <2>2. /\ b \in [Ops -> Places]
        /\ \A p \in Ops : b[p] = IF p = o THEN "run" ELSE a[p]
    BY <2>1 DEF MutexGood, Places
  <2>3. w = <<>> /\ NoOp \notin Ops
    BY <1>1 DEF MutexGood, NoOp, Ops
  <2>4. \A p \in Ops : b[p] \in {"run", "flush"} <=> g = p
    BY <1>1, <2>1, <2>2, <2>3 DEF MutexGood
  <2>5. \A p \in Ops : b[p] = "lock" <=> In(p, u)
    BY <2>1, <2>2 DEF MutexGood
  <2>6. MutexGood(b, g, u)
    BY <2>1, <2>2, <2>3, <2>4, <2>5 DEF MutexGood, Places
  <2> QED
    BY <1>1, <2>1, <2>2, <2>6
<1>2. CASE h # NoOp
  <2>1. /\ b = [a EXCEPT ![o] = "lock"] /\ g = h
        /\ u = Append(w, o)
    BY <1>2 DEF Takes
  <2>2. /\ b \in [Ops -> Places]
        /\ \A p \in Ops : b[p] = IF p = o THEN "lock" ELSE a[p]
    BY <2>1 DEF MutexGood, Places
  <2>3. /\ w \in Seq(Ops) /\ Distinct(w) /\ ~In(o, w)
    BY DEF MutexGood
  <2>4. /\ u \in Seq(Ops) /\ Distinct(u)
        /\ \A y : In(y, u) <=> In(y, w) \/ y = o
    BY SMTT(30), <2>1, <2>3, AppendIn
  <2>5. \A p \in Ops : b[p] \in {"run", "flush"} <=> g = p
    BY <2>1, <2>2 DEF MutexGood
  <2>6. \A p \in Ops : b[p] = "lock" <=> In(p, u)
    BY <2>2, <2>4 DEF MutexGood
  <2>7. MutexGood(b, g, u)
    BY <1>2, <2>1, <2>2, <2>4, <2>5, <2>6 DEF MutexGood, Places
  <2>8. b[o] = "lock" /\ \A p \in Ops \ {o} : b[p] = a[p]
    BY <2>2
  <2> QED
    BY <2>1, <2>7, <2>8
<1> QED
  BY <1>1, <1>2

LEMMA Unlocked ==
    ASSUME NEW a, MutexGood(a, holder, waiters), NEW o \in Ops, holder = o,
           NEW x \in {"idle", "sleep", "woken"}, Unlock([a EXCEPT ![o] = x])
    PROVE  /\ MutexGood(at', holder', waiters')
           /\ at'[o] = x
           /\ \A p \in Ops \ {o} : at'[p] = a[p] \/ (a[p] = "lock" /\ at'[p] = "run")
           /\ holder' # NoOp => at'[holder'] = "run"
<1> DEFINE b == [a EXCEPT ![o] = x]
<1>1. /\ b \in [Ops -> Places]
      /\ \A p \in Ops : b[p] = IF p = o THEN x ELSE a[p]
  BY DEF MutexGood, Places
<1>2. Unlock(b)
  BY SMT
<1> HIDE DEF b
<1>3. NoOp \notin Ops /\ \A p \in Ops : b[p] \notin {"run", "flush"}
  BY <1>1 DEF MutexGood, NoOp, Ops
<1>4. ~In(o, waiters) /\ \A p \in Ops : b[p] = "lock" <=> In(p, waiters)
  BY <1>1 DEF MutexGood
<1>5. CASE waiters = <<>>
  <2>1. at' = b /\ holder' = NoOp /\ waiters' = waiters
    BY <1>2, <1>5 DEF Unlock
  <2>2. MutexGood(at', holder', waiters')
    BY <1>1, <1>3, <1>4, <1>5, <2>1 DEF MutexGood, Places
  <2>3. at'[o] = x /\ \A p \in Ops \ {o} : at'[p] = a[p]
    BY <1>1, <2>1
  <2> QED
    BY <2>1, <2>2, <2>3
<1>6. CASE waiters # <<>>
  <2> DEFINE h == Head(waiters)
  <2>1. /\ at' = [b EXCEPT ![h] = "run"] /\ holder' = h
        /\ waiters' = Tail(waiters)
    BY <1>2, <1>6 DEF Unlock
  <2>2. waiters \in Seq(Ops) /\ Distinct(waiters)
    BY DEF MutexGood
  <2>3. /\ h \in Ops /\ In(h, waiters)
        /\ Tail(waiters) \in Seq(Ops) /\ Distinct(Tail(waiters))
        /\ \A y : In(y, Tail(waiters)) <=> In(y, waiters) /\ y # h
    BY <1>6, <2>2, TailIn
  <2> HIDE DEF h
  <2>4. h # o /\ a[h] = "lock"
    BY <1>1, <1>4, <2>3
  <2>5. /\ at' \in [Ops -> Places]
        /\ \A p \in Ops : at'[p] = IF p = h THEN "run" ELSE b[p]
    BY <1>1, <2>1, <2>3 DEF Places
  <2>6. \A p \in Ops : at'[p] \in {"run", "flush"} <=> holder' = p
    BY <1>3, <2>1, <2>5
  <2>7. \A p \in Ops : at'[p] = "lock" <=> In(p, waiters')
    BY <1>4, <2>1, <2>3, <2>5
  <2>8. MutexGood(at', holder', waiters')
    BY <1>3, <2>1, <2>3, <2>5, <2>6, <2>7 DEF MutexGood, Places
  <2>9. /\ at'[o] = x /\ at'[h] = "run"
        /\ \A p \in Ops \ {o} : at'[p] = a[p] \/ (a[p] = "lock" /\ at'[p] = "run")
    BY <1>1, <2>3, <2>4, <2>5
  <2> QED
    BY <2>1, <2>8, <2>9
<1> QED
  BY <1>5, <1>6

\* A stopped operation leaves.
LEMMA Left ==
    ASSUME NEW a, NEW h, NEW w, MutexGood(a, h, w), NEW o \in Ops
    PROVE  /\ MutexGood(Cancelled(a, o), h, Unlinked(w, o))
           /\ \A p \in Ops : Cancelled(a, o)[p] = a[p] \/ Cancelled(a, o)[p] = "idle"
           /\ Cancelled(a, o)[o] # "lock"
           /\ h # NoOp => Cancelled(a, o)[h] = a[h]
<1> DEFINE b == Cancelled(a, o)
           u == Unlinked(w, o)
<1>1. /\ b \in [Ops -> Places]
      /\ \A p \in Ops : b[p] = IF p = o /\ a[p] \in {"lock", "wait", "sleep"}
                               THEN "idle" ELSE a[p]
  BY DEF MutexGood, Places, Cancelled
<1>2. w \in Seq(Ops) /\ Distinct(w)
  BY DEF MutexGood
<1>3. /\ u \in Seq(Ops) /\ Distinct(u)
      /\ \A y : In(y, u) <=> In(y, w) /\ y # o
  BY <1>2, UnlinkedIn
<1>4. h = NoOp => u = <<>>
  BY SMT DEF MutexGood, Unlinked
<1> HIDE DEF b, u
<1>5. \A p \in Ops : b[p] \in {"run", "flush"} <=> h = p
  BY <1>1 DEF MutexGood
<1>6. \A p \in Ops : b[p] = "lock" <=> In(p, u)
  BY <1>1, <1>3 DEF MutexGood
<1>7. MutexGood(b, h, u)
  BY <1>1, <1>3, <1>4, <1>5, <1>6 DEF MutexGood, Places
<1>8. h # NoOp => b[h] = a[h]
  BY <1>1 DEF MutexGood
<1> QED
  BY <1>1, <1>7, <1>8 DEF b, u

-----------------------------------------------------------------------------
(* The operations.                                                         *)

Verdicts == {"success", "want_read", "zero_return", "error"}

\* What OpenSSL does with its queues, and with its state.
LEMMA OpEndsGood ==
    ASSUME NEW o \in Ops, NEW n \in Nat, in \in 0 .. InMax, NEW e \in OpEnds(o, n)
    PROVE  /\ in - e.take \in 0 .. in /\ e.put \in Nat /\ e.res \in Verdicts
           /\ o = "handshake" \/ ssl # "new" => e.ssl # "new"
<1>1. in \in Nat
  BY SMT, DtlsAssumption
<1>2. CASE o = "handshake"
  BY SMT, <1>1, <1>2, SMTT(30) DEF OpEnds, HandshakeEnds, Ends, Verdicts
<1>3. CASE o = "send"
  BY SMT, <1>1, <1>3, SMTT(30) DEF OpEnds, SendEnds, Ends, Verdicts
<1>4. CASE o = "receive"
  BY SMT, <1>1, <1>4, SMTT(30) DEF OpEnds, ReceiveEnds, Ends, Verdicts
<1>5. CASE o = "shutdown"
  BY SMT, <1>1, <1>5, SMTT(30) DEF OpEnds, ShutdownEnds, Ends, Verdicts
<1>6. CASE o = "retransmit"
  BY SMT, <1>1, <1>6, SMTT(30) DEF OpEnds, RetransmitEnds, Ends, Verdicts
<1> QED
  BY <1>2, <1>3, <1>4, <1>5, <1>6 DEF Ops

\* No operation that somebody starts is under way in b and idle in a.
NoneStarted(a, b, s) ==
    /\ \A p \in Ops \ {"retransmit"} : a[p] = "idle" => b[p] = "idle"
    /\ b["handshake"] \in {"flush", "woken", "wait"} => s # "new"

LEMMA OpsCarried ==
    ASSUME NEW a, NEW b, NEW r, NEW s, NEW dc, NEW st, NEW sd,
           OpsGood(a, r, s, dc, st, sd), NoneStarted(a, b, s)
    PROVE  OpsGood(b, r, s, dc, st, sd)
BY DEF OpsGood, NoneStarted, Ops, Awaited

\* OpenSSL goes on.
LEMMA OpsNewState ==
    ASSUME NEW a, NEW r, NEW s, NEW t, NEW dc, NEW st, NEW sd,
           OpsGood(a, r, s, dc, st, sd), s # "new" => t # "new"
    PROVE  OpsGood(a, r, t, dc, st, sd)
BY DEF OpsGood

\* An operation returns.
LEMMA OpsReplied ==
    ASSUME NEW a, NEW b, NEW r, NEW s, NEW dc, NEW st, NEW sd,
           OpsGood(a, r, s, dc, st, sd), NoneStarted(a, b, s),
           NEW o \in Awaited, a[o] # "idle", b[o] = "idle", NEW x,
           o = "handshake" => s # "new"
    PROVE  OpsGood(b, [r EXCEPT ![o] = x], s, dc, st, sd)
<1> DEFINE q == [r EXCEPT ![o] = x]
<1>1. DOMAIN q = Awaited /\ \A p \in Awaited : q[p] = IF p = o THEN x ELSE r[p]
  BY DEF OpsGood
<1>2. OpsGood(b, r, s, dc, st, sd)
  BY OpsCarried
<1> HIDE DEF q
<1>3. OpsGood(b, q, s, dc, st, sd)
  BY <1>1, <1>2 DEF OpsGood, Awaited
<1> QED
  BY <1>3 DEF q

LEMMA DtlsAssembled ==
    ASSUME MutexGood(at', holder', waiters'),
           OpsGood(at', reply', ssl', dtlsClosed', started', sender'),
           BuffersGood(at', holder', verdict', out', in')
    PROVE  DtlsGood'
<1>1. MutexGood(at, holder, waiters)'
  BY DEF MutexGood, Distinct, In
<1>2. OpsGood(at, reply, ssl, dtlsClosed, started, sender)'
  BY DEF OpsGood
<1>3. BuffersGood(at, holder, verdict, out, in)'
  BY DEF BuffersGood
<1> QED
  BY <1>1, <1>2, <1>3 DEF DtlsGood

\* The mutex is given back, and no record is left in `out`.
LEMMA GivenBackGood ==
    ASSUME NEW a, MutexGood(a, holder, waiters), NEW o \in Ops, holder = o,
           OpsGood(a, reply, ssl', dtlsClosed, started, sender),
           NEW x \in {"idle", "sleep", "woken"}, Unlock([a EXCEPT ![o] = x]),
           out' = 0, in' \in 0 .. InMax, \A p \in Ops : a[p] = "wait" => in' = 0,
           o = "handshake" => ssl' # "new"
    PROVE  /\ MutexGood(at', holder', waiters') /\ at'[o] = x /\ a[o] # "idle"
           /\ NoneStarted(a, at', ssl')
           /\ BuffersGood(at', holder', verdict', out', in')
<1>1. /\ MutexGood(at', holder', waiters')
      /\ at'[o] = x
      /\ \A p \in Ops \ {o} : at'[p] = a[p] \/ (a[p] = "lock" /\ at'[p] = "run")
      /\ holder' # NoOp => at'[holder'] = "run"
  BY Unlocked
<1>2. a[o] \in {"run", "flush"}
  BY DEF MutexGood
<1>3. \A p \in Ops \ {"retransmit"} : a[p] = "idle" => at'[p] = "idle"
  BY <1>1, <1>2
<1>4. at'["handshake"] \in {"flush", "woken", "wait"} => ssl' # "new"
  BY <1>1 DEF OpsGood, Ops
<1>5. BuffersGood(at', holder', verdict', out', in')
  BY <1>1 DEF BuffersGood
<1> QED
  BY <1>1, <1>2, <1>3, <1>4, <1>5 DEF NoneStarted

LEMMA ConcludeGood ==
    ASSUME NEW a, MutexGood(a, holder, waiters), NEW o \in Ops, holder = o,
           OpsGood(a, reply, ssl', dtlsClosed, started, sender),
           NEW res \in Verdicts, Conclude(a, o, res),
           in' \in 0 .. InMax, \A p \in Ops : a[p] = "wait" => in' = 0,
           o = "handshake" => ssl' # "new", UNCHANGED <<started, sender>>
    PROVE  DtlsGood'
<1>1. CASE res = "want_read"
  <2>1. AwaitInput(a, o)
    BY <1>1 DEF Conclude
  <2>2. /\ Unlock([a EXCEPT ![o] = "woken"]) /\ out' = 0
        /\ UNCHANGED <<reply, dtlsClosed>>
    BY <2>1 DEF AwaitInput
  <2>3. /\ MutexGood(at', holder', waiters') /\ NoneStarted(a, at', ssl')
        /\ BuffersGood(at', holder', verdict', out', in')
    BY <2>2, GivenBackGood
  <2>4. OpsGood(at', reply', ssl', dtlsClosed', started', sender')
    BY <2>2, <2>3, OpsCarried
  <2> QED
    BY <2>3, <2>4, DtlsAssembled
<1>2. ASSUME NEW y, Return(a, o, y) PROVE DtlsGood'
  <2> DEFINE x == IF o = "retransmit" /\ TimerPending(ssl') /\ ~dtlsClosed
                  THEN "sleep" ELSE "idle"
  <2>1. /\ Unlock([a EXCEPT ![o] = x]) /\ out' = 0
        /\ reply' = IF o \in Awaited THEN [reply EXCEPT ![o] = y] ELSE reply
        /\ UNCHANGED dtlsClosed
    BY <1>2 DEF Return
  <2>2. x \in {"idle", "sleep"} /\ (o \in Awaited => x = "idle")
    BY DEF Awaited
  <2> HIDE DEF x
  <2>3. /\ MutexGood(at', holder', waiters') /\ NoneStarted(a, at', ssl')
        /\ BuffersGood(at', holder', verdict', out', in')
        /\ at'[o] = x /\ a[o] # "idle"
    BY <2>1, <2>2, GivenBackGood
  <2>4. CASE o \in Awaited
    <3>1. reply' = [reply EXCEPT ![o] = y] /\ at'[o] = "idle"
      BY <2>1, <2>2, <2>3, <2>4
    <3>2. OpsGood(at', reply', ssl', dtlsClosed', started', sender')
      <4>1. OpsGood(at', [reply EXCEPT ![o] = y], ssl', dtlsClosed, started, sender)
        BY <2>3, <2>4, <3>1, OpsReplied
      <4> QED
        BY <2>1, <3>1, <4>1
    <3> QED
      BY <2>3, <3>2, DtlsAssembled
  <2>5. CASE o \notin Awaited
    <3>1. OpsGood(at', reply', ssl', dtlsClosed', started', sender')
      BY <2>1, <2>3, <2>5, OpsCarried
    <3> QED
      BY SMT, <2>3, <3>1, DtlsAssembled
  <2> QED
    BY <2>4, <2>5
<1> QED
  BY <1>1, <1>2 DEF Conclude, Verdicts

\* handle_timeout() starts timeout_handler() at most.
LEMMA HandleTimeoutGood ==
    ASSUME DtlsGood
    PROVE  /\ MutexGood(HandleTimeout, holder, waiters)
           /\ OpsGood(HandleTimeout, reply, ssl, dtlsClosed, started, sender)
           /\ \A p \in Ops : \/ HandleTimeout[p] = at[p]
                             \/ at[p] = "idle" /\ HandleTimeout[p] = "sleep"
<1> DEFINE a == [at EXCEPT !["retransmit"] = "sleep"]
<1>1. CASE HandleTimeout = at
  BY <1>1 DEF DtlsGood
<1>2. CASE HandleTimeout # at
  <2>1. at["retransmit"] = "idle" /\ HandleTimeout = a
    BY <1>2 DEF HandleTimeout
  <2>2. /\ at \in [Ops -> Places] /\ "retransmit" \in Ops
        /\ MutexGood(at, holder, waiters)
    BY DEF DtlsGood, MutexGood, Places, Ops
  <2>3. MutexGood(a, holder, waiters)
    BY <2>1, <2>2, PlaceSet
  <2>4. \A p \in Ops : a[p] = IF p = "retransmit" THEN "sleep" ELSE at[p]
    BY <2>2
  <2> HIDE DEF a
  <2>5. NoneStarted(at, a, ssl)
    BY <2>4 DEF NoneStarted, DtlsGood, OpsGood, Ops
  <2>6. OpsGood(a, reply, ssl, dtlsClosed, started, sender)
    BY <2>5, OpsCarried DEF DtlsGood
  <2> QED
    BY SMT, <2>1, <2>3, <2>4, <2>6
<1> QED
  BY <1>1, <1>2

LEMMA StartedBy ==
    ASSUME NEW a, NEW w, MutexGood(a, holder, w),
           BuffersGood(a, holder, verdict, out, in),
           NEW o \in Ops, a[o] \notin {"run", "flush", "lock"},
           Takes(a, holder, w, o, at', holder', waiters'),
           UNCHANGED <<verdict, out, in>>
    PROVE  /\ MutexGood(at', holder', waiters')
           /\ BuffersGood(at', holder', verdict', out', in')
           /\ at'[o] \in {"run", "lock"}
           /\ \A p \in Ops \ {o} : at'[p] = a[p]
<1>1. /\ MutexGood(at', holder', waiters')
      /\ at'[o] \in {"run", "lock"}
      /\ \A p \in Ops \ {o} : at'[p] = a[p]
      /\ holder' = holder \/ (holder = NoOp /\ holder' = o /\ at'[o] = "run")
  BY SMT, LockedBy
<1>2. /\ \A p \in Ops : at'[p] = "wait" => in' = 0
      /\ in' \in 0 .. InMax /\ out' \in Nat
  BY <1>1 DEF BuffersGood
<1>3. CASE holder' = holder
  <2>1. holder # NoOp => holder \in Ops /\ a[holder] \in {"run", "flush"}
    BY DEF MutexGood
  <2>2. holder # NoOp => at'[holder] = a[holder]
    BY <1>1, <2>1
  <2>3. BuffersGood(at', holder', verdict', out', in')
    BY <1>2, <1>3, <2>2 DEF BuffersGood
  <2> QED
    BY <1>1, <2>3
<1>4. CASE holder = NoOp /\ holder' = o /\ at'[o] = "run"
  <2>1. out = 0
    BY <1>4 DEF BuffersGood
  <2>2. BuffersGood(at', holder', verdict', out', in')
    BY <1>2, <1>4, <2>1 DEF BuffersGood
  <2> QED
    BY SMT, <1>1, <2>2
<1> QED
  BY <1>1, <1>3, <1>4

LEMMA StartGood ==
    ASSUME DtlsGood, NEW o \in Ops, at[o] \notin {"run", "flush", "lock"},
           Lock(at, o), UNCHANGED <<verdict, out, in>>
    PROVE  /\ MutexGood(at', holder', waiters')
           /\ BuffersGood(at', holder', verdict', out', in')
           /\ at'[o] \in {"run", "lock"}
           /\ \A p \in Ops \ {o} : at'[p] = at[p]
<1>1. Takes(at, holder, waiters, o, at', holder', waiters')
  BY DEF Lock, Takes
<1> QED
  BY <1>1, StartedBy DEF DtlsGood

LEMMA RunGood ==
    ASSUME IInv, DtlsGood, NEW o \in Ops, Run(o, batch), UNCHANGED sctpVars
    PROVE  DtlsGood'
<1> DEFINE a == HandleTimeout
<1>1. UNCHANGED <<started, sender>>
  BY DEF sctpVars
<1>2. PICK e \in OpEnds(o, batch) :
        /\ ssl' = e.ssl /\ in' = in - e.take
        /\ IF e.put = 0 THEN Conclude(a, o, e.res)
           ELSE /\ at' = [a EXCEPT ![o] = "flush"] /\ out' = e.put /\ verdict' = e.res
                /\ UNCHANGED <<reply, holder, waiters, dtlsClosed>>
  BY DEF Run
<1>3. at[o] = "run" /\ holder = o
  BY DEF Run, DtlsGood, MutexGood
<1>4. /\ MutexGood(a, holder, waiters)
      /\ OpsGood(a, reply, ssl, dtlsClosed, started, sender)
      /\ \A p \in Ops : a[p] = at[p] \/ (at[p] = "idle" /\ a[p] = "sleep")
  BY HandleTimeoutGood
<1> HIDE DEF a
<1>5. batch \in Nat /\ in \in 0 .. InMax /\ \A p \in Ops : at[p] = "wait" => in = 0
  BY DEF IInv, QueueGood, DtlsGood, BuffersGood
<1>6. /\ in - e.take \in 0 .. in /\ e.put \in Nat /\ e.res \in Verdicts
      /\ o = "handshake" \/ ssl # "new" => e.ssl # "new"
  BY <1>5, OpEndsGood
<1>7. /\ in' \in 0 .. InMax /\ \A p \in Ops : a[p] = "wait" => in' = 0
      /\ o = "handshake" => ssl' # "new"
  <2>1. in \in Nat /\ InMax \in Nat
    BY SMT, <1>5, DtlsAssumption
  <2> QED
    BY SMT, <1>2, <1>4, <1>5, <1>6, <2>1
<1>8. OpsGood(a, reply, ssl', dtlsClosed, started, sender)
  BY <1>2, <1>4, <1>6, OpsNewState
<1>9. CASE e.put = 0
  BY <1>1, <1>2, <1>3, <1>4, <1>6, <1>7, <1>8, <1>9, ConcludeGood
<1>10. CASE e.put # 0
  <2>1. /\ at' = [a EXCEPT ![o] = "flush"] /\ out' = e.put /\ verdict' = e.res
        /\ UNCHANGED <<reply, holder, waiters, dtlsClosed>>
    BY <1>2, <1>10
  <2>2. a \in [Ops -> Places] /\ a[o] = "run"
    BY <1>3, <1>4 DEF MutexGood, Places
  <2>3. /\ at' \in [Ops -> Places]
        /\ \A p \in Ops : at'[p] = IF p = o THEN "flush" ELSE a[p]
    BY <2>1, <2>2 DEF Places
  <2>4. MutexGood(at', holder', waiters')
    <3>1. \A p \in Ops : at'[p] \in {"run", "flush"} <=> holder' = p
      BY <1>3, <1>4, <2>1, <2>2, <2>3 DEF MutexGood
    <3>2. \A p \in Ops : at'[p] = "lock" <=> In(p, waiters')
      BY <1>4, <2>1, <2>2, <2>3 DEF MutexGood
    <3> QED
      BY <1>4, <2>1, <2>3, <3>1, <3>2 DEF MutexGood, Places
  <2>5. NoneStarted(a, at', ssl')
    BY <1>7, <1>8, <2>2, <2>3 DEF NoneStarted, OpsGood, Ops
  <2>6. OpsGood(at', reply', ssl', dtlsClosed', started', sender')
    <3>1. OpsGood(at', reply, ssl', dtlsClosed, started, sender)
      BY <1>8, <2>5, OpsCarried
    <3> QED
      BY <1>1, <2>1, <3>1
  <2>7. BuffersGood(at', holder', verdict', out', in')
    BY <1>3, <1>6, <1>7, <2>1, <2>3 DEF BuffersGood, Verdicts, NoOp, Ops
  <2> QED
    BY <2>4, <2>6, <2>7, DtlsAssembled
<1> QED
  BY <1>9, <1>10

LEMMA FlushedGood ==
    ASSUME DtlsGood, NEW o \in Ops, NEW ok, Flushed(o, ok), UNCHANGED sctpVars
    PROVE  DtlsGood'
<1>1. UNCHANGED <<started, sender, in, ssl>>
  BY DEF sctpVars, Flushed
<1>2. /\ MutexGood(at, holder, waiters) /\ at[o] = "flush" /\ holder = o /\ holder # NoOp
      /\ OpsGood(at, reply, ssl, dtlsClosed, started, sender)
      /\ BuffersGood(at, holder, verdict, out, in)
  BY DEF DtlsGood, Flushed, MutexGood, Ops, NoOp
<1>3. /\ verdict \in Verdicts /\ in' \in 0 .. InMax
      /\ \A p \in Ops : at[p] = "wait" => in' = 0
      /\ o = "handshake" => ssl' # "new"
      /\ OpsGood(at, reply, ssl', dtlsClosed, started, sender)
  BY <1>1, <1>2 DEF BuffersGood, OpsGood, Verdicts
<1>4. CASE ~ok
  <2>1. Conclude(at, o, "error")
    BY <1>4 DEF Flushed, Conclude
  <2>2. "error" \in Verdicts
    BY DEF Verdicts
  <2> QED
    BY <1>1, <1>2, <1>3, <2>1, <2>2, ConcludeGood
<1>5. CASE ok /\ out > SslBatch
  <2>1. /\ out' = out - SslBatch
        /\ UNCHANGED <<at, reply, holder, waiters, verdict, dtlsClosed>>
    BY <1>5 DEF Flushed
  <2>2. out' \in Nat
    BY SMT, <1>2, <1>5, <2>1, DtlsAssumption DEF BuffersGood
  <2>3. BuffersGood(at', holder', verdict', out', in')
    BY <1>1, <1>2, <2>1, <2>2 DEF BuffersGood
  <2> QED
    BY <1>1, <1>2, <2>1, <2>3, DtlsAssembled
<1>6. CASE ok /\ ~(out > SslBatch)
  <2>1. Conclude(at, o, verdict)
    BY <1>6 DEF Flushed
  <2> QED
    BY <1>1, <1>2, <1>3, <2>1, ConcludeGood
<1> QED
  BY <1>4, <1>5, <1>6

\* An operation that was under way takes the mutex again, or the timer of
\* timeout_handler() fires.
LEMMA AgainGood ==
    ASSUME NEW a, MutexGood(a, holder, waiters),
           OpsGood(a, reply, ssl, dtlsClosed, started, sender),
           BuffersGood(a, holder, verdict, out, in),
           NEW o \in Ops, a[o] \in {"woken", "sleep", "wait"},
           Lock(a, o), UNCHANGED <<reply, verdict, out, in, ssl, dtlsClosed>>,
           UNCHANGED sctpVars
    PROVE  DtlsGood'
<1>1. Takes(a, holder, waiters, o, at', holder', waiters')
  BY DEF Lock, Takes
<1>2. /\ MutexGood(at', holder', waiters')
      /\ BuffersGood(at', holder', verdict', out', in')
      /\ at'[o] \in {"run", "lock"}
      /\ \A p \in Ops \ {o} : at'[p] = a[p]
  BY <1>1, StartedBy
<1>3. NoneStarted(a, at', ssl)
  BY <1>2 DEF NoneStarted, OpsGood, Ops
<1>4. OpsGood(at', reply, ssl, dtlsClosed, started, sender)
  BY <1>3, OpsCarried
<1>5. UNCHANGED <<started, sender>>
  BY DEF sctpVars
<1> QED
  BY <1>2, <1>4, <1>5, DtlsAssembled

LEMMA RecheckGood ==
    ASSUME DtlsGood, NEW o \in Ops, Recheck(o), UNCHANGED sctpVars PROVE DtlsGood'
<1>1. at[o] = "woken" /\ UNCHANGED <<reply, verdict, out, in, ssl, dtlsClosed>>
  BY DEF Recheck
<1>2. CASE in = 0
  <2>1. at' = [at EXCEPT ![o] = "wait"] /\ UNCHANGED <<holder, waiters>>
    BY <1>2 DEF Recheck
  <2>2. MutexGood(at, holder, waiters) /\ BuffersGood(at, holder, verdict, out, in)
    BY DEF DtlsGood
  <2>3. MutexGood(at', holder', waiters')
    <3>1. MutexGood([at EXCEPT ![o] = "wait"], holder, waiters)
      BY <1>1, <2>2, PlaceSet
    <3> QED
      BY <2>1, <3>1
  <2>4. \A p \in Ops : at'[p] = IF p = o THEN "wait" ELSE at[p]
    BY <2>1, <2>2 DEF MutexGood
  <2>5. NoneStarted(at, at', ssl)
    BY <1>1, <2>4 DEF NoneStarted, DtlsGood, OpsGood, Ops
  <2>6. OpsGood(at', reply, ssl, dtlsClosed, started, sender)
    BY <2>5, OpsCarried DEF DtlsGood
  <2>7. holder # NoOp => holder \in Ops /\ holder # o
    BY <1>1, <2>2 DEF MutexGood
  <2>8. BuffersGood(at', holder', verdict', out', in')
    BY <1>1, <1>2, <2>1, <2>2, <2>4, <2>7 DEF BuffersGood
  <2>9. UNCHANGED <<started, sender>>
    BY DEF sctpVars
  <2> QED
    BY <1>1, <2>3, <2>6, <2>8, <2>9, DtlsAssembled
<1>3. CASE in # 0
  <2> DEFINE a == HandleTimeout
  <2>1. Lock(a, o)
    BY <1>3 DEF Recheck
  <2>2. /\ MutexGood(a, holder, waiters)
        /\ OpsGood(a, reply, ssl, dtlsClosed, started, sender)
        /\ \A p \in Ops : a[p] = at[p] \/ (at[p] = "idle" /\ a[p] = "sleep")
    BY HandleTimeoutGood
  <2> HIDE DEF a
  <2>3. a[o] = "woken"
    BY <1>1, <2>2
  <2>4. holder # NoOp => a[holder] = at[holder]
    BY <2>2 DEF DtlsGood, MutexGood
  <2>5. BuffersGood(a, holder, verdict, out, in)
    BY <2>2, <2>4 DEF DtlsGood, BuffersGood
  <2> QED
    BY <1>1, <2>1, <2>2, <2>3, <2>5, AgainGood
<1> QED
  BY <1>2, <1>3

LEMMA RetransmitTimerGood ==
    ASSUME DtlsGood, RetransmitTimer, UNCHANGED sctpVars PROVE DtlsGood'
BY AgainGood DEF DtlsGood, RetransmitTimer, Start, Ops

LEMMA HandshakeGood ==
    ASSUME DtlsGood, Handshake, UNCHANGED sctpVars PROVE DtlsGood'
<1> DEFINE o == "handshake"
<1>1. /\ ssl = "new" /\ at[o] = "idle" /\ Lock(at, o)
      /\ UNCHANGED <<reply, verdict, out, in, ssl, dtlsClosed>> /\ o \in Ops
  BY DEF Handshake, Start, Ops
<1>2. /\ MutexGood(at', holder', waiters')
      /\ BuffersGood(at', holder', verdict', out', in')
      /\ at'[o] \in {"run", "lock"}
      /\ \A p \in Ops \ {o} : at'[p] = at[p]
  BY <1>1, StartGood
<1>3. UNCHANGED <<started, sender>>
  BY DEF sctpVars
<1>4. OpsGood(at', reply', ssl', dtlsClosed', started', sender')
  BY <1>1, <1>2, <1>3 DEF DtlsGood, OpsGood, Ops, Awaited
<1> QED
  BY <1>2, <1>4, DtlsAssembled

LEMMA DatagramReceivedGood ==
    ASSUME DtlsGood, DatagramReceived, UNCHANGED sctpVars PROVE DtlsGood'
<1>1. /\ in < InMax /\ in' = in + 1
      /\ at' = [o \in Ops |-> IF in = 0 /\ at[o] = "wait" THEN "woken" ELSE at[o]]
      /\ UNCHANGED <<reply, holder, waiters, verdict, out, ssl, dtlsClosed>>
  BY DEF DatagramReceived
<1>2. MutexGood(at, holder, waiters) /\ BuffersGood(at, holder, verdict, out, in)
  BY DEF DtlsGood
<1>3. in' \in 0 .. InMax /\ (\A p \in Ops : at[p] = "wait" => in = 0)
  BY SMT, <1>1, <1>2, DtlsAssumption DEF BuffersGood
<1>4. \A p \in Ops : at'[p] = IF at[p] = "wait" THEN "woken" ELSE at[p]
  BY <1>1, <1>3
<1>5. at' \in [Ops -> Places]
  BY <1>1, <1>2 DEF MutexGood, Places
<1>6. MutexGood(at', holder', waiters')
  <2>1. \A p \in Ops : at'[p] \in {"run", "flush"} <=> holder' = p
    BY <1>1, <1>2, <1>4 DEF MutexGood
  <2>2. \A p \in Ops : at'[p] = "lock" <=> In(p, waiters')
    BY <1>1, <1>2, <1>4 DEF MutexGood
  <2> QED
    BY <1>1, <1>2, <1>5, <2>1, <2>2 DEF MutexGood, Places
<1>7. NoneStarted(at, at', ssl)
  BY <1>4 DEF NoneStarted, DtlsGood, OpsGood, Ops
<1>8. OpsGood(at', reply, ssl, dtlsClosed, started, sender)
  BY <1>7, OpsCarried DEF DtlsGood
<1>9. holder # NoOp => holder \in Ops
  BY <1>2 DEF MutexGood
<1>10. BuffersGood(at', holder', verdict', out', in')
  BY <1>1, <1>2, <1>3, <1>4, <1>9 DEF BuffersGood
<1>11. UNCHANGED <<started, sender>>
  BY SMT DEF sctpVars
<1> QED
  BY <1>1, <1>6, <1>8, <1>10, <1>11, DtlsAssembled

\* A waiting operation is stopped.
LEMMA CancelledGood ==
    ASSUME DtlsGood, NEW o \in Ops
    PROVE  LET a == Cancelled(at, o)
           IN /\ MutexGood(a, holder, Unlinked(waiters, o))
              /\ OpsGood(a, reply, ssl, dtlsClosed, started, sender)
              /\ BuffersGood(a, holder, verdict, out, in)
              /\ a[o] # "lock" /\ \A p \in Ops : a[p] = at[p] \/ a[p] = "idle"
<1> DEFINE a == Cancelled(at, o)
<1>1. /\ MutexGood(a, holder, Unlinked(waiters, o))
      /\ \A p \in Ops : a[p] = at[p] \/ a[p] = "idle"
      /\ a[o] # "lock" /\ (holder # NoOp => a[holder] = at[holder])
  BY Left DEF DtlsGood
<1> HIDE DEF a
<1>2. NoneStarted(at, a, ssl)
  BY <1>1 DEF NoneStarted, DtlsGood, OpsGood, Ops
<1>3. OpsGood(a, reply, ssl, dtlsClosed, started, sender)
  BY <1>2, OpsCarried DEF DtlsGood
<1>4. BuffersGood(a, holder, verdict, out, in)
  BY <1>1 DEF DtlsGood, BuffersGood
<1> QED
  BY <1>1, <1>3, <1>4 DEF a

LEMMA DtlsCloseGood ==
    ASSUME DtlsGood, DtlsClose, UNCHANGED sctpVars PROVE DtlsGood'
<1> DEFINE o == "shutdown"
           a == Cancelled(at, "retransmit")
           w == Unlinked(waiters, "retransmit")
<1>1. /\ ~dtlsClosed /\ dtlsClosed' = TRUE /\ UNCHANGED <<reply, verdict, out, in, ssl>>
      /\ o \in Ops /\ "retransmit" \in Ops
  BY DEF DtlsClose, Ops
<1>2. /\ MutexGood(a, holder, w)
      /\ OpsGood(a, reply, ssl, dtlsClosed, started, sender)
      /\ BuffersGood(a, holder, verdict, out, in)
  BY <1>1, CancelledGood
<1>3. holder = NoOp => w = waiters
  BY SMT DEF DtlsGood, MutexGood, Unlinked
<1>4. Takes(a, holder, w, o, at', holder', waiters')
  BY <1>3 DEF DtlsClose, Takes
<1>5. a[o] = "idle"
  BY <1>1, <1>2 DEF OpsGood
<1> HIDE DEF a, w
<1>6. /\ MutexGood(at', holder', waiters')
      /\ BuffersGood(at', holder', verdict', out', in')
      /\ \A p \in Ops \ {o} : at'[p] = a[p]
  BY <1>1, <1>2, <1>4, <1>5, StartedBy
<1>7. UNCHANGED <<started, sender>>
  BY SMT DEF sctpVars
<1>8. OpsGood(at', reply', ssl', dtlsClosed', started', sender')
  BY <1>1, <1>2, <1>6, <1>7 DEF OpsGood, Ops, Awaited
<1> QED
  BY <1>6, <1>8, DtlsAssembled
-----------------------------------------------------------------------------
(* The tasks over the operations.                                          *)

\* The transport below is left alone.
LEMMA DtlsSame ==
    ASSUME DtlsGood, UNCHANGED <<dtlsVars, started>>,
           sender' # "busy" => sender # "busy"
    PROVE  DtlsGood'
<1>1. UNCHANGED <<at, reply, holder, waiters, verdict, out, in, ssl, dtlsClosed>>
  BY DEF dtlsVars
<1>2. OpsGood(at', reply', ssl', dtlsClosed', started', sender')
  BY <1>1 DEF DtlsGood, OpsGood
<1> QED
  BY <1>1, <1>2, DtlsAssembled DEF DtlsGood

\* Only the results and the tasks change.
LEMMA DtlsReplies ==
    ASSUME DtlsGood,
           OpsGood(at', reply', ssl', dtlsClosed', started', sender'),
           UNCHANGED <<at, holder, waiters, verdict, out, in, ssl, dtlsClosed>>
    PROVE  DtlsGood'
BY DtlsAssembled DEF DtlsGood

LEMMA NotifiedBusy ==
    ASSUME NEW k PROVE Notified(k) # "busy" => sender # "busy"
BY DEF Notified

\* A result is taken.
LEMMA ReplyTaken ==
    ASSUME NEW a, NEW r, NEW s, NEW dc, NEW st, NEW sd,
           OpsGood(a, r, s, dc, st, sd), NEW o \in Awaited
    PROVE  /\ OpsGood(a, [r EXCEPT ![o] = "none"], s, dc, st, sd)
           /\ [r EXCEPT ![o] = "none"][o] = "none"
           /\ \A p \in Awaited \ {o} : [r EXCEPT ![o] = "none"][p] = r[p]
<1> DEFINE q == [r EXCEPT ![o] = "none"]
<1>1. DOMAIN q = Awaited /\ \A p \in Awaited : q[p] = IF p = o THEN "none" ELSE r[p]
  BY DEF OpsGood
<1> HIDE DEF q
<1>2. OpsGood(a, q, s, dc, st, sd)
  BY <1>1 DEF OpsGood, Awaited
<1> QED
  BY <1>1, <1>2 DEF q

LEMMA SenderLoopGood ==
    ASSUME DtlsGood, started, at["send"] = "idle", NEW q, SenderLoop(q),
           UNCHANGED started
    PROVE  DtlsGood'
<1> DEFINE r == [reply EXCEPT !["send"] = "none"]
<1>1. reply' = r
  BY DEF SenderLoop
<1>2. /\ OpsGood(at, r, ssl, dtlsClosed, started, sender) /\ r["send"] = "none"
  BY ReplyTaken DEF DtlsGood, Awaited
<1> HIDE DEF r
<1>3. CASE running /\ q > 0
  <2>1. /\ sender' = "busy" /\ Lock(at, "send") /\ "send" \in Ops
        /\ UNCHANGED <<verdict, out, in, ssl, dtlsClosed>>
    BY <1>3 DEF SenderLoop, Start, Ops
  <2>2. /\ MutexGood(at', holder', waiters')
        /\ BuffersGood(at', holder', verdict', out', in')
        /\ \A p \in Ops \ {"send"} : at'[p] = at[p]
    BY <2>1, StartGood
  <2>3. OpsGood(at', reply', ssl', dtlsClosed', started', sender')
    BY <1>1, <1>2, <2>1, <2>2 DEF OpsGood, Ops, Awaited
  <2> QED
    BY <2>2, <2>3, DtlsAssembled
<1>4. CASE ~(running /\ q > 0)
  <2>1. UNCHANGED <<at, holder, waiters, verdict, out, in, ssl, dtlsClosed>>
    BY <1>4 DEF SenderLoop
  <2>2. OpsGood(at', reply', ssl', dtlsClosed', started', sender')
    BY <1>1, <1>2, <2>1 DEF OpsGood
  <2> QED
    BY <2>1, <2>2, DtlsReplies
<1> QED
  BY <1>3, <1>4

LEMMA SenderTurnGood == ASSUME IInv, DtlsGood, SenderTurn PROVE DtlsGood'
<1>1. sender \in {"posted", "hop"} /\ SenderLoop(queue) /\ UNCHANGED started
  BY DEF SenderTurn
<1>2. started /\ at["send"] = "idle"
  BY <1>1 DEF IInv, QueueGood, DtlsGood, OpsGood
<1> QED
  BY <1>1, <1>2, SenderLoopGood

LEMMA SenderSentGood == ASSUME IInv, DtlsGood, SenderSent PROVE DtlsGood'
<1> DEFINE q == queue - batch
<1>1. sender = "busy" /\ reply["send"] # "none" /\ UNCHANGED started
  BY DEF SenderSent, StopEffects
<1>2. started /\ at["send"] = "idle"
  BY <1>1 DEF IInv, QueueGood, DtlsGood, OpsGood, Awaited
<1>3. CASE SenderLoop(q)
  BY <1>1, <1>2, <1>3, SenderLoopGood
<1>4. CASE ~SenderLoop(q)
  <2>1. /\ reply' = [reply EXCEPT !["send"] = "none"]
        /\ UNCHANGED <<at, holder, waiters, verdict, out, in, ssl, dtlsClosed>>
    BY <1>4 DEF SenderSent
  <2>2. OpsGood(at, [reply EXCEPT !["send"] = "none"], ssl, dtlsClosed, started,
                sender)
    BY ZenonT(30), ReplyTaken DEF DtlsGood, Awaited
  <2>3. OpsGood(at', reply', ssl', dtlsClosed', started', sender')
    BY <1>1, <1>2, <2>1, <2>2 DEF OpsGood
  <2> QED
    BY <2>1, <2>3, DtlsReplies
<1> QED
  BY <1>3, <1>4

\* A task is stopped while it waits for its operation.
LEMMA GivenUpGood ==
    ASSUME DtlsGood, NEW o \in {"send", "receive"},
           at' = Cancelled(at, o), waiters' = Unlinked(waiters, o),
           UNCHANGED <<reply, holder, verdict, out, in, ssl, dtlsClosed, started>>,
           sender' # "busy" => sender # "busy" \/ at'["send"] = "idle"
    PROVE  DtlsGood'
<1>1. o \in Ops
  BY DEF Ops
<1>2. /\ MutexGood(at', holder', waiters')
      /\ OpsGood(at', reply, ssl, dtlsClosed, started, sender)
      /\ BuffersGood(at', holder', verdict', out', in')
  BY <1>1, CancelledGood
<1>3. OpsGood(at', reply', ssl', dtlsClosed', started', sender')
  BY <1>2 DEF OpsGood
<1> QED
  BY <1>2, <1>3, DtlsAssembled

LEMMA StopGood == ASSUME IInv, DtlsGood, Stop PROVE DtlsGood'
<1> DEFINE given == sender = "busy" /\ at["send"] = "lock"
<1>1. /\ UNCHANGED <<reply, holder, verdict, out, in, ssl, dtlsClosed, started>>
      /\ at' = IF given THEN Cancelled(at, "send") ELSE at
      /\ waiters' = IF given THEN Unlinked(waiters, "send") ELSE waiters
      /\ sender' = IF given THEN "done"
                   ELSE IF sender = "wait" THEN "hop" ELSE sender
  BY DEF Stop, StopEffects
<1>2. CASE given
  <2>1. Cancelled(at, "send")["send"] = "idle"
    BY <1>2 DEF DtlsGood, MutexGood, Cancelled, Ops
  <2> QED
    BY <1>1, <1>2, <2>1, GivenUpGood
<1>3. CASE ~given
  <2> HIDE DEF given
  <2> QED
    BY <1>1, <1>3, DtlsSame DEF dtlsVars
<1> QED
  BY <1>2, <1>3

LEMMA ReadLoopStoppedGood == ASSUME DtlsGood, ReadLoopStopped PROVE DtlsGood'
BY GivenUpGood DEF ReadLoopStopped

\* read_loop(), with the result of its receive.
LEMMA ReceiveTaken ==
    ASSUME DtlsGood, reply["receive"] # "none"
    PROVE  /\ started /\ at["receive"] = "idle"
           /\ OpsGood(at, [reply EXCEPT !["receive"] = "none"], ssl, dtlsClosed,
                      started, sender)
           /\ [reply EXCEPT !["receive"] = "none"]["receive"] = "none"
<1>1. OpsGood(at, reply, ssl, dtlsClosed, started, sender) /\ "receive" \in Awaited
  BY DEF DtlsGood, Awaited
<1>2. started /\ at["receive"] = "idle"
  BY <1>1 DEF OpsGood
<1> QED
  BY <1>1, <1>2, ReplyTaken

LEMMA ReadLoopPacketGood == ASSUME DtlsGood, ReadLoopPacket PROVE DtlsGood'
<1> DEFINE r == [reply EXCEPT !["receive"] = "none"]
<1>1. /\ reply["receive"] # "none" /\ reply' = r /\ Lock(at, "receive")
      /\ "receive" \in Ops /\ UNCHANGED <<verdict, out, in, ssl, dtlsClosed>>
  BY DEF ReadLoopPacket, Start, Ops
<1>2. UNCHANGED started /\ (sender' # "busy" => sender # "busy")
  <2>1. CASE ~running
    BY <2>1 DEF ReadLoopPacket, sctpVars
  <2>2. CASE running
    BY <2>2, NotifiedBusy DEF ReadLoopPacket
  <2> QED
    BY <2>1, <2>2
<1>3. /\ started /\ at["receive"] = "idle" /\ r["receive"] = "none"
      /\ OpsGood(at, r, ssl, dtlsClosed, started, sender)
  BY ZenonT(30), <1>1, ReceiveTaken
<1> HIDE DEF r
<1>4. /\ MutexGood(at', holder', waiters')
      /\ BuffersGood(at', holder', verdict', out', in')
      /\ \A p \in Ops \ {"receive"} : at'[p] = at[p]
  BY <1>1, <1>3, StartGood
<1>5. OpsGood(at', reply', ssl', dtlsClosed', started', sender')
  BY <1>1, <1>2, <1>3, <1>4 DEF OpsGood, Ops, Awaited
<1> QED
  BY <1>4, <1>5, DtlsAssembled

LEMMA ReadLoopEndsGood ==
    ASSUME DtlsGood, ReadLoopEnds \/ ReplyDropped PROVE DtlsGood'
<1> DEFINE r == [reply EXCEPT !["receive"] = "none"]
<1>1. /\ reply["receive"] # "none" /\ reply' = r /\ UNCHANGED started
      /\ UNCHANGED <<at, holder, waiters, verdict, out, in, ssl, dtlsClosed>>
  BY DEF ReadLoopEnds, ReplyDropped, sctpVars
<1>2. sender' # "busy" => sender # "busy"
  <2>1. CASE ReplyDropped
    BY <2>1 DEF ReplyDropped, sctpVars
  <2>2. CASE ReadLoopEnds
    BY <2>2, NotifiedBusy DEF ReadLoopEnds
  <2> QED
    BY <2>1, <2>2
<1>3. OpsGood(at, r, ssl, dtlsClosed, started, sender)
  BY <1>1, ReceiveTaken
<1> HIDE DEF r
<1>4. OpsGood(at', reply', ssl', dtlsClosed', started', sender')
  BY <1>1, <1>2, <1>3 DEF OpsGood
<1> QED
  BY <1>1, <1>4, DtlsReplies

\* start() by the application, when the handshake has succeeded.
LEMMA HandshakeReturnedGood == ASSUME DtlsGood, HandshakeReturned PROVE DtlsGood'
<1> DEFINE r == [reply EXCEPT !["handshake"] = "none"]
<1>1. reply["handshake"] # "none" /\ reply' = r
  BY DEF HandshakeReturned
<1>2. OpsGood(at, reply, ssl, dtlsClosed, started, sender) /\ "handshake" \in Awaited
  BY DEF DtlsGood, Awaited
<1>3. ~started /\ ssl # "new" /\ at["handshake"] = "idle"
  BY <1>1, <1>2 DEF OpsGood
<1>4. /\ OpsGood(at, r, ssl, dtlsClosed, started, sender) /\ r["handshake"] = "none"
  BY SMT, <1>2, ReplyTaken
<1> HIDE DEF r
<1>5. CASE reply["handshake"] = "ok"
  <2>1. /\ started' = TRUE /\ sender' = "posted" /\ Lock(at, "receive")
        /\ "receive" \in Ops /\ UNCHANGED <<verdict, out, in, ssl, dtlsClosed>>
    BY <1>5 DEF HandshakeReturned, Start, Ops
  <2>2. at["receive"] = "idle" /\ at["send"] = "idle"
    BY <1>3, <1>4 DEF OpsGood
  <2>3. /\ MutexGood(at', holder', waiters')
        /\ BuffersGood(at', holder', verdict', out', in')
        /\ \A p \in Ops \ {"receive"} : at'[p] = at[p]
    BY <2>1, <2>2, StartGood
  <2>4. OpsGood(at', reply', ssl', dtlsClosed', started', sender')
    BY <1>1, <1>3, <1>4, <2>1, <2>2, <2>3 DEF OpsGood, Ops, Awaited
  <2> QED
    BY SMT, <2>3, <2>4, DtlsAssembled
<1>6. CASE reply["handshake"] # "ok"
  <2>1. UNCHANGED <<at, holder, waiters, verdict, out, in, ssl, dtlsClosed, started,
                    sender>>
    BY <1>6 DEF HandshakeReturned
  <2>2. OpsGood(at', reply', ssl', dtlsClosed', started', sender')
    BY <1>1, <1>4, <2>1
  <2> QED
    BY <2>1, <2>2, DtlsReplies
<1> QED
  BY <1>5, <1>6

-----------------------------------------------------------------------------
(* All of them.                                                            *)

\* The socket and the calls leave the transport below alone.
LEMMA CallsDtls ==
    ASSUME DtlsGood,
           \/ \E c \in Calls : \/ CallTurn(c) \/ Send(c) \/ Read(c) \/ Connect(c)
                               \/ Accept(c) \/ Shutdown(c)
           \/ Close \/ HandlerTurn \/ Tick
           \/ \E t \in Timers : StopTimeout(t) \/ \E d \in 1 .. Horizon :
                                                    StartTimeout(t, d)
           \/ UNCHANGED vars
    PROVE  DtlsGood'
<1>1. UNCHANGED <<dtlsVars, started>> /\ (sender' = sender \/ \E k : sender' = Notified(k))
  <2>1. ASSUME NEW c \in Calls, SendTurn(c)
        PROVE  UNCHANGED <<dtlsVars, started>>
               /\ (sender' = sender \/ \E k : sender' = Notified(k))
    BY ZenonT(30), <2>1 DEF SendTurn, Keep
  <2>2. ASSUME NEW c \in Calls, ReadTurn(c) \/ AwaitTurn(c) \/ Send(c) \/ Read(c)
        PROVE  UNCHANGED <<dtlsVars, started, sender>>
    BY <2>2 DEF ReadTurn, AwaitTurn, Send, Read, Keep
  <2>3. ASSUME NEW c \in Calls, Connect(c) \/ Accept(c) \/ Shutdown(c)
        PROVE  UNCHANGED <<dtlsVars, started>> /\ \E k : sender' = Notified(k)
    <3>1. PICK op, there, s, k : Await(c, op, there, s, k)
      BY ZenonT(30), <2>3 DEF Connect, Accept, Shutdown
    <3> QED
      BY <3>1 DEF Await, Keep
  <2>4. ASSUME Close PROVE UNCHANGED <<dtlsVars, started>> /\ \E k : sender' = Notified(k)
    BY <2>4 DEF Close, Keep
  <2>5. ASSUME HandlerTurn
        PROVE  UNCHANGED <<dtlsVars, started>>
               /\ (sender' = sender \/ \E k : sender' = Notified(k))
    BY ZenonT(30), <2>5 DEF HandlerTurn, Expire
  <2>6. ASSUME \/ Tick
               \/ \E t \in Timers : StopTimeout(t) \/ \E d \in 1 .. Horizon :
                                                        StartTimeout(t, d)
               \/ UNCHANGED vars
        PROVE  UNCHANGED <<dtlsVars, started, sender>>
    BY <2>6 DEF Tick, StopTimeout, StartTimeout, vars, sctpVars
  <2> QED
    BY <2>1, <2>2, <2>3, <2>4, <2>5, <2>6 DEF CallTurn
<1>2. sender' # "busy" => sender # "busy"
  BY <1>1, NotifiedBusy
<1> QED
  BY <1>1, <1>2, DtlsSame

LEMMA NextDtls == ASSUME IInv, DtlsGood, Next \/ UNCHANGED vars PROVE DtlsGood'
<1>1. CASE InlineStep
  <2>1. ASSUME NEW o \in Ops, DtlsStep(o) PROVE DtlsGood'
    BY <2>1, RunGood, RecheckGood DEF DtlsStep
  <2> QED
    BY <1>1, <2>1, HandshakeReturnedGood, SenderSentGood, ReadLoopPacketGood,
       ReadLoopEndsGood, CallsDtls DEF InlineStep
<1>2. CASE PostedStep
  BY <1>2, SenderTurnGood, ReadLoopStoppedGood, CallsDtls DEF PostedStep
<1>3. CASE ApplicationStep
  BY <1>3, HandshakeGood, StopGood, CallsDtls DEF ApplicationStep
<1>4. CASE OutsideStep
  <2>1. ASSUME NEW o \in Ops, NEW ok \in BOOLEAN, FlushedStep(o, ok) PROVE DtlsGood'
    BY <2>1, FlushedGood DEF FlushedStep
  <2> QED
    BY <1>4, <2>1, DatagramReceivedGood, RetransmitTimerGood, DtlsCloseGood, CallsDtls
       DEF OutsideStep
<1> QED
  BY <1>1, <1>2, <1>3, <1>4, CallsDtls DEF Next

-----------------------------------------------------------------------------
(* The transport above the mutexes.                                        *)


LEMMA Assembled ==
    ASSUME CallsGood(call', sock', buffered', inbox', started'),
           QueueGood(call', queue', batch', sender', started', running'),
           TimersGood(timer', handler', deadline')
    PROVE  IInv'
<1>1. CallsGood(call, sock, buffered, inbox, started)'
  BY DEF CallsGood, Shape, Waits, Begun
<1>2. QueueGood(call, queue, batch, sender, started, running)'
  BY DEF QueueGood, Lows, High
<1>3. TimersGood(timer, handler, deadline)'
  BY DEF TimersGood, First
<1> QED
  BY <1>1, <1>2, <1>3 DEF IInv

-----------------------------------------------------------------------------
(* The calls.                                                              *)

LEMMA MoveWakes ==
    ASSUME NEW cl, Shape(cl), NEW from \in {"low", "room", "wait"},
           NEW to \in {"hop", "hop2"}
    PROVE  /\ Woken(cl, Move(cl, from, to))
           /\ \A c \in Calls : Move(cl, from, to)[c].at # from
<1> DEFINE dl == Move(cl, from, to)
<1>1. DOMAIN dl = Calls /\ \A c \in Calls :
        dl[c] = IF cl[c].at = from THEN [cl[c] EXCEPT !.at = to] ELSE cl[c]
  BY DEF Move
<1>2. ASSUME NEW c \in Calls
      PROVE  /\ dl[c] \in Call /\ dl[c].at # from
             /\ \/ dl[c] = cl[c]
                \/ /\ cl[c].at \in {"low", "room", "wait"}
                   /\ dl[c].op = cl[c].op /\ dl[c].at \in {"hop", "hop2"}
  <2>1. cl[c] \in Call
    BY DEF Shape
  <2> HIDE DEF dl
  <2> QED
    BY <1>1, <2>1 DEF Call
<1> HIDE DEF dl
<1> QED
  BY <1>1, <1>2 DEF Woken, Shape, dl

LEMMA WokenTwice ==
    ASSUME NEW cl, NEW dl, NEW el, Woken(cl, dl), Woken(dl, el)
    PROVE  Woken(cl, el)
BY DEF Woken

LEMMA StateChangedWakes ==
    ASSUME NEW cl, Shape(cl)
    PROVE  /\ Woken(cl, StateChanged(cl))
           /\ \A c \in Calls : StateChanged(cl)[c].at \notin {"low", "room", "wait"}
<1> DEFINE c1 == TotalLow(cl)
           c2 == QueueLow(c1)
           c3 == Move(c2, "wait", "hop")
<1>1. Woken(cl, c1) /\ \A c \in Calls : c1[c].at # "room"
  BY MoveWakes DEF TotalLow
<1> HIDE DEF c1
<1>2. Woken(c1, c2) /\ \A c \in Calls : c2[c].at # "low"
  BY <1>1, MoveWakes DEF QueueLow, Woken
<1> HIDE DEF c2
<1>3. Woken(c2, c3) /\ \A c \in Calls : c3[c].at # "wait"
  BY <1>2, MoveWakes DEF Woken
<1>4. StateChanged(cl) = c3
  BY DEF StateChanged, c1, c2
<1> HIDE DEF c3
<1>5. \A c \in Calls : c3[c].at \notin {"low", "room", "wait"}
  BY SMT, <1>1, <1>2, <1>3 DEF Woken
<1>6. Woken(cl, c3)
  BY <1>1, <1>2, <1>3, WokenTwice
<1> QED
  BY <1>4, <1>5, <1>6

LEMMA MessageReadyWakes ==
    ASSUME NEW cl, Shape(cl)
    PROVE  /\ Woken(cl, MessageReady(cl))
           /\ \A c \in Calls : ~(MessageReady(cl)[c].op = "read"
                                 /\ MessageReady(cl)[c].at = "wait")
<1> DEFINE dl == MessageReady(cl)
<1>1. DOMAIN dl = Calls /\ \A c \in Calls :
        dl[c] = IF cl[c].op = "read" /\ cl[c].at = "wait"
                THEN [cl[c] EXCEPT !.at = "hop"] ELSE cl[c]
  BY DEF MessageReady
<1>2. ASSUME NEW c \in Calls
      PROVE  /\ dl[c] \in Call /\ ~(dl[c].op = "read" /\ dl[c].at = "wait")
             /\ \/ dl[c] = cl[c]
                \/ /\ cl[c].at \in {"low", "room", "wait"}
                   /\ dl[c].op = cl[c].op /\ dl[c].at \in {"hop", "hop2"}
  <2>1. cl[c] \in Call
    BY DEF Shape
  <2> HIDE DEF dl
  <2> QED
    BY <1>1, <2>1 DEF Call
<1> HIDE DEF dl
<1> QED
  BY <1>1, <1>2 DEF Woken, Shape, dl

\* A call into the socket wakes whoever waited for what it did.
LEMMA SocketWakes ==
    ASSUME NEW cl, NEW q, NEW s, NEW b \in Nat, NEW i \in Nat, NEW k,
           CallsGood(cl, sock, buffered, inbox, started),
           Socket(cl, q, s, b, i, k)
    PROVE  /\ Woken(cl, call')
           /\ CallsGood(call', sock', buffered', inbox', started)
<1> DEFINE c1 == IF s # sock /\ s \in {"closed", "connected"}
                 THEN StateChanged(cl) ELSE cl
           c2 == IF buffered > BufferLow /\ b <= BufferLow
                 THEN TotalLow(c1) ELSE c1
           c3 == IF i > inbox THEN MessageReady(c2) ELSE c2
<1>1. call' = c3 /\ sock' = s /\ buffered' = b /\ inbox' = i
  BY DEF Socket
<1>2. Shape(cl) /\ Waits(cl, sock, buffered, inbox) /\ Begun(cl, started)
      /\ buffered \in Nat /\ inbox \in Nat
  BY DEF CallsGood
<1>3. /\ Woken(cl, c1)
      /\ s = "closed" /\ sock # "closed"
           => \A c \in Calls : c1[c].at \notin {"low", "room", "wait"}
  BY SMT, <1>2, StateChangedWakes DEF Woken
<1> HIDE DEF c1
<1>4. /\ Woken(c1, c2)
      /\ buffered > BufferLow /\ b <= BufferLow => \A c \in Calls : c2[c].at # "room"
  BY SMT, <1>3, MoveWakes DEF Woken, TotalLow
<1> HIDE DEF c2
<1>5. /\ Woken(c2, c3)
      /\ i > inbox => \A c \in Calls : ~(c3[c].op = "read" /\ c3[c].at = "wait")
  BY SMT, <1>4, MessageReadyWakes DEF Woken
<1> HIDE DEF c3
<1>6. Woken(cl, c3)
  BY <1>3, <1>4, <1>5, WokenTwice
<1>7. ASSUME NEW c \in Calls
      PROVE  /\ c3[c].at = "room" => b > BufferLow
             /\ c3[c].op = "read" /\ c3[c].at = "wait" => i = 0
             /\ c3[c].op \in {"send", "read"}
                  /\ c3[c].at \in {"low", "room", "wait"} => s # "closed"
             /\ c3[c].at # "idle" => started
  <2>1. c3[c].at \in {"low", "room", "wait"}
          => c3[c] = cl[c] /\ c3[c] = c1[c] /\ c3[c] = c2[c]
    BY SMT, <1>3, <1>4, <1>5, <1>6 DEF Woken
  <2>2. c3[c].at = "room" => b > BufferLow
    BY SMT, <1>2, <1>4, <2>1, SctpAssumption DEF Waits
  <2>3. c3[c].op = "read" /\ c3[c].at = "wait" => i = 0
    BY SMT, <1>2, <1>5, <2>1 DEF Waits
  <2>4. c3[c].op \in {"send", "read"}
          /\ c3[c].at \in {"low", "room", "wait"} => s # "closed"
    BY <1>2, <1>3, <2>1 DEF Waits
  <2>5. c3[c].at # "idle" => started
    BY <1>2, <1>6 DEF Woken, Begun
  <2> QED
    BY <2>2, <2>3, <2>4, <2>5
<1> QED
  BY <1>1, <1>6, <1>7 DEF CallsGood, Waits, Begun, Woken
\* Some of the calls go on, and none of those waits.
MovedOn(cl, dl) ==
    /\ Shape(dl)
    /\ \A c \in Calls : dl[c] = cl[c] \/ dl[c].at \notin {"low", "room", "wait"}

LEMMA WokenMovedOn == ASSUME NEW cl, NEW dl, Woken(cl, dl) PROVE MovedOn(cl, dl)
BY DEF Woken, MovedOn

LEMMA MovedOnGood ==
    ASSUME NEW cl, NEW dl, NEW s, NEW b, NEW i, CallsGood(cl, s, b, i, started),
           started, MovedOn(cl, dl)
    PROVE  /\ CallsGood(dl, s, b, i, started)
           /\ \A c \in Calls : dl[c].at = "low" => cl[c].at = "low"
BY DEF CallsGood, MovedOn, Waits, Begun

\* A call returns, or is given the mutex, or goes to another place.
LEMMA SetMovesOn ==
    ASSUME NEW cl, Shape(cl), NEW c, NEW o \in Call, o.at \notin {"low", "room", "wait"}
    PROVE  MovedOn(cl, [cl EXCEPT ![c] = o])
<1> DEFINE dl == [cl EXCEPT ![c] = o]
<1>1. DOMAIN dl = Calls /\ \A d \in Calls : dl[d] = IF d = c THEN o ELSE cl[d]
  BY DEF Shape
<1> HIDE DEF dl
<1> QED
  BY <1>1 DEF MovedOn, Shape, dl

LEMMA DoneCall == Done \in Call /\ Done.at = "done"
BY DEF Done, Call

LEMMA ReleasedMovesOn ==
    ASSUME NEW cl, Shape(cl), NEW mtx
    PROVE  MovedOn(cl, Released(cl, mtx))
<1>1. CASE Len(mtx) > 1 /\ mtx[2] \in Calls
  <2> DEFINE x == mtx[2]
             o == [cl[x] EXCEPT !.at = "turn"]
  <2>1. cl[x] \in Call
    BY <1>1 DEF Shape
  <2>2. Released(cl, mtx) = [cl EXCEPT ![x] = o]
    BY <1>1 DEF Released
  <2> HIDE DEF x
  <2>3. o \in Call /\ o.at = "turn"
    BY <2>1 DEF Call
  <2> HIDE DEF o
  <2>4. MovedOn(cl, [cl EXCEPT ![x] = o])
    BY <2>3, SetMovesOn
  <2> QED
    BY <2>2, <2>4
<1>2. CASE Len(mtx) > 1 /\ mtx[2] \notin Calls
  <2> DEFINE dl == Released(cl, mtx)
  <2>1. DOMAIN dl = Calls /\ \A c \in Calls : dl[c] = cl[c]
    BY <1>2 DEF Released, Shape
  <2> HIDE DEF dl
  <2> QED
    BY <2>1 DEF MovedOn, Shape, dl
<1>3. CASE ~(Len(mtx) > 1)
  BY <1>3 DEF Released, MovedOn
<1> QED
  BY <1>1, <1>2, <1>3

LEMMA ReturnedMovesOn ==
    ASSUME NEW cl, Shape(cl), NEW c \in Calls, NEW mtx
    PROVE  MovedOn(cl, Returns(cl, c)) /\ MovedOn(cl, Released(Returns(cl, c), mtx))
<1>1. MovedOn(cl, Returns(cl, c))
  BY DoneCall, SetMovesOn DEF Returns
<1>2. MovedOn(Returns(cl, c), Released(Returns(cl, c), mtx))
  BY <1>1, ReleasedMovesOn DEF MovedOn
<1> QED
  BY <1>1, <1>2 DEF MovedOn

-----------------------------------------------------------------------------
(* The queue of packets.                                                   *)

LEMMA PutMore ==
    ASSUME NEW q \in Nat, NEW k \in {0, 1}
    PROVE  Put(q, k) \in Nat /\ Put(q, k) >= q /\ Put(q, 0) = q
BY SMT, SctpAssumption DEF Put

\* A packet is queued, and the sender hears of it.
LEMMA QueuedGood ==
    ASSUME NEW cl, NEW dl, QueueGood(cl, queue, batch, sender, started, running),
           \A c \in Calls : dl[c].at = "low" => cl[c].at = "low", NEW k \in {0, 1}
    PROVE  QueueGood(dl, Put(queue, k), batch, Notified(k), started, running)
<1> DEFINE q == Put(queue, k)
           sd == Notified(k)
<1>1. queue \in Nat /\ batch \in Nat /\ batch <= queue
  BY DEF QueueGood
<1>2. q \in Nat /\ q >= queue /\ (k = 0 => q = queue)
  BY <1>1, PutMore
<1>3. /\ sd = sender \/ (sender = "wait" /\ sd = "hop")
      /\ sd = "wait" => queue # 0 \/ k = 0
  BY SMT DEF Notified
<1>4. running => (sd = "wait" => q = 0)
  BY <1>2, <1>3 DEF QueueGood
<1>5. running => Lows(dl, q, sd)
  <2>1. High(queue) => High(q)
    BY SMT, <1>1, <1>2, SctpAssumption DEF High
  <2> HIDE DEF q, sd
  <2> QED
    BY <2>1, <1>3 DEF QueueGood, Lows, Active
<1>6. (running /\ started => sd \in Active \cup {"wait"}) /\ (sd # "none" => started)
  BY <1>3 DEF QueueGood, Active
<1> HIDE DEF q, sd
<1> QED
  BY SMT, <1>1, <1>2, <1>4, <1>5, <1>6 DEF QueueGood, q, sd

\* The calls go on and the queue stays as it is.
LEMMA QueueKept ==
    ASSUME NEW cl, NEW dl, QueueGood(cl, queue, batch, sender, started, running),
           \A c \in Calls : dl[c].at = "low" => cl[c].at = "low"
    PROVE  QueueGood(dl, queue, batch, sender, started, running)
BY DEF QueueGood, Lows
-----------------------------------------------------------------------------
(* The timeouts.                                                           *)

Expiries(tm) == {tm[t] : t \in Timers} \ {Unset}

\* The first expiry is the least, when there is one.
LEMMA FirstExists ==
    ASSUME NEW tm \in [Timers -> Unset .. Horizon], Expiries(tm) # {}
    PROVE  First(tm) \in Expiries(tm) /\ \A y \in Expiries(tm) : First(tm) <= y
<1> DEFINE S == Expiries(tm)
           R == OpToRel(<, Nat)
<1>1. S \subseteq Nat
  BY SMT, SctpAssumption DEF Expiries, Unset
<1>2. IsWellFoundedOn(R, Nat)
  BY NatLessThanWellFounded
<1>3. PICK x \in S : \A y \in S : ~(<<y, x>> \in R)
  BY <1>1, <1>2, WFMin
<1>4. \A y \in S : x <= y
  <2> SUFFICES ASSUME NEW y \in S PROVE x <= y
    BY SMT
  <2>1. x \in Nat /\ y \in Nat
    BY <1>1
  <2>2. ~(y < x)
    BY SMT, <1>3, <2>1, Zenon DEF OpToRel
  <2> QED
    BY SMT, <2>1, <2>2
<1>5. First(tm) = CHOOSE z \in S : \A y \in S : z <= y
  BY DEF First, Expiries
<1> HIDE DEF S
<1> QED
  BY <1>4, <1>5 DEF S

LEMMA FirstIs ==
    ASSUME NEW tm \in [Timers -> Unset .. Horizon], NEW x \in Expiries(tm),
           \A y \in Expiries(tm) : x <= y
    PROVE  First(tm) = x
<1>1. First(tm) \in Expiries(tm) /\ \A y \in Expiries(tm) : First(tm) <= y
  BY FirstExists
<1>2. Expiries(tm) \subseteq Nat
  BY SMT, SctpAssumption DEF Expiries, Unset
<1> QED
  BY SMT, <1>1, <1>2

LEMMA AllUnset == [t \in Timers |-> Unset] \in [Timers -> Unset .. Horizon]
BY SMT, SctpAssumption DEF Unset

\* The handler is woken, or is not asleep.
LEMMA TimersWoken ==
    ASSUME NEW tm \in [Timers -> Unset .. Horizon], NEW h, h # "wait", NEW d
    PROVE  TimersGood(tm, h, d)
BY DEF TimersGood

LEMMA TimersAfterGood ==
    ASSUME IInv, NEW s, TimersAfter(s)
    PROVE  TimersGood(timer', handler', deadline')
<1>1. CASE s = "closed" /\ Linked # {}
  <2>1. timer' = [t \in Timers |-> Unset] /\ handler' # "wait"
    BY <1>1 DEF TimersAfter, WakeHandler
  <2> QED
    BY <2>1, AllUnset, TimersWoken
<1>2. CASE ~(s = "closed" /\ Linked # {})
  BY <1>2 DEF TimersAfter, IInv
<1> QED
  BY <1>1, <1>2

\* A timeout starts: if it is the first the handler is woken, and if not the
\* first one stays the first.
LEMMA StartTimeoutGood ==
    ASSUME IInv, NEW t \in Timers, NEW d \in 1 .. Horizon, StartTimeout(t, d)
    PROVE  TimersGood(timer', handler', deadline')
<1>1. /\ timer[t] = Unset /\ timer' = [timer EXCEPT ![t] = d]
      /\ timer \in [Timers -> Unset .. Horizon]
      /\ handler = "wait" => deadline = First(timer)
  BY DEF StartTimeout, IInv, TimersGood
<1>2. timer' \in [Timers -> Unset .. Horizon] /\ d \in Nat
  BY SMT, <1>1, SctpAssumption DEF Unset
<1>3. Expiries(timer') = Expiries(timer) \cup {d}
  <2>1. d # Unset
    BY SMT, <1>2 DEF Unset
  <2>2. \A u \in Timers : timer'[u] = IF u = t THEN d ELSE timer[u]
    BY <1>1
  <2> QED
    BY <1>1, <2>1, <2>2 DEF Expiries
<1>4. CASE First(timer') = d
  <2>1. handler' # "wait"
    BY <1>4 DEF StartTimeout, WakeHandler
  <2> QED
    BY <1>2, <2>1, TimersWoken
<1>5. CASE First(timer') # d
  <2>1. handler' = handler /\ (handler' = "wait" => deadline' = deadline)
    BY <1>5 DEF StartTimeout
  <2>2. First(timer') \in Expiries(timer')
        /\ \A y \in Expiries(timer') : First(timer') <= y
    BY <1>2, <1>3, FirstExists
  <2>3. First(timer') \in Expiries(timer)
        /\ \A y \in Expiries(timer) : First(timer') <= y
    BY <1>3, <1>5, <2>2
  <2>4. First(timer) = First(timer')
    BY <1>1, <2>3, FirstIs
  <2> QED
    BY <1>1, <1>2, <2>1, <2>4 DEF TimersGood
<1> QED
  BY <1>4, <1>5

\* A timeout stops: if it was the first the handler is woken.
LEMMA StopTimeoutGood ==
    ASSUME IInv, NEW t \in Timers, StopTimeout(t)
    PROVE  TimersGood(timer', handler', deadline')
<1>1. /\ timer[t] # Unset /\ timer' = [timer EXCEPT ![t] = Unset]
      /\ timer \in [Timers -> Unset .. Horizon]
      /\ handler = "wait" => deadline = First(timer)
  BY DEF StopTimeout, IInv, TimersGood
<1>2. timer' \in [Timers -> Unset .. Horizon]
  BY SMT, <1>1, SctpAssumption DEF Unset
<1>3. CASE First(timer) = timer[t]
  <2>1. handler' # "wait"
    BY <1>3 DEF StopTimeout, WakeHandler
  <2> QED
    BY <1>2, <2>1, TimersWoken
<1>4. CASE First(timer) # timer[t]
  <2>1. handler' = handler /\ (handler' = "wait" => deadline' = deadline)
    BY <1>4 DEF StopTimeout
  <2>2. timer[t] \in Expiries(timer)
    BY <1>1 DEF Expiries
  <2>3. First(timer) \in Expiries(timer) /\ \A y \in Expiries(timer) : First(timer) <= y
    BY <1>1, <2>2, FirstExists
  <2>4. PICK u \in Timers : timer[u] = First(timer) /\ timer[u] # Unset
    BY <2>3 DEF Expiries
  <2>5. \A v \in Timers : timer'[v] = IF v = t THEN Unset ELSE timer[v]
    BY <1>1
  <2>6. First(timer) \in Expiries(timer')
    BY <1>4, <2>4, <2>5 DEF Expiries
  <2>7. Expiries(timer') \subseteq Expiries(timer)
    BY <2>5 DEF Expiries
  <2>8. First(timer') = First(timer)
    BY <1>2, <2>3, <2>6, <2>7, FirstIs
  <2> QED
    BY <1>1, <1>2, <2>1, <2>8 DEF TimersGood
<1> QED
  BY <1>3, <1>4

\* Time brings every timeout nearer, the first one and the handler's alike.
LEMMA TickGood ==
    ASSUME IInv, Tick PROVE TimersGood(timer', handler', deadline')
<1> DEFINE down(x) == IF x > 0 THEN x - 1 ELSE x
<1>1. /\ timer' = [t \in Timers |-> down(timer[t])] /\ deadline' = down(deadline)
      /\ timer \in [Timers -> Unset .. Horizon] /\ handler' = handler
      /\ handler = "wait" => deadline = First(timer)
  BY DEF Tick, IInv, TimersGood
<1>2. timer' \in [Timers -> Unset .. Horizon]
  BY SMT, <1>1, SctpAssumption DEF Unset
<1>3. PICK a \in Timers : timer[a] > 0
  BY DEF Tick
<1>4. timer[a] \in Expiries(timer)
  BY SMT, <1>1, <1>3 DEF Expiries, Unset
<1>5. First(timer) \in Expiries(timer) /\ \A y \in Expiries(timer) : First(timer) <= y
  BY <1>1, <1>4, FirstExists
<1>6. PICK u \in Timers : timer[u] = First(timer) /\ timer[u] # Unset
  BY <1>5 DEF Expiries
<1>7. timer[u] \in Nat /\ down(timer[u]) \in Nat
  BY SMT, <1>1, <1>6, SctpAssumption DEF Unset
<1>8. down(First(timer)) \in Expiries(timer')
  BY SMT, <1>1, <1>6, <1>7 DEF Expiries, Unset
<1>9. ASSUME NEW y \in Expiries(timer') PROVE down(First(timer)) <= y
  <2>1. PICK v \in Timers : y = down(timer[v]) /\ y # Unset
    BY <1>1 DEF Expiries
  <2>2. timer[v] # Unset /\ timer[v] \in Nat
    BY SMT, <1>1, <2>1, SctpAssumption DEF Unset
  <2>3. First(timer) <= timer[v]
    BY <1>5, <2>2 DEF Expiries
  <2> QED
    BY SMT, <1>6, <1>7, <2>1, <2>2, <2>3
<1>10. First(timer') = down(First(timer))
  BY <1>2, <1>8, <1>9, FirstIs
<1> QED
  BY <1>1, <1>2, <1>10 DEF TimersGood
-----------------------------------------------------------------------------
(* What the steps have in common.                                          *)

\* Steps of the DTLS transport.
LEMMA NothingChanged == ASSUME IInv, UNCHANGED sctpVars PROVE IInv'
<1>1. UNCHANGED <<call, sock, buffered, inbox, started, queue, batch, sender,
                  running, timer, handler, deadline>>
  BY DEF sctpVars
<1> QED
  BY <1>1, Assembled DEF IInv

\* A call into the socket, from calls that are cl by then.
LEMMA SocketStep ==
    ASSUME IInv, NEW cl, CallsGood(cl, sock, buffered, inbox, started),
           \A c \in Calls : cl[c].at = "low" => call[c].at = "low",
           NEW s, NEW b \in Nat, NEW i \in Nat, NEW k \in {0, 1},
           Socket(cl, queue, s, b, i, k), sender' = Notified(k),
           TimersGood(timer', handler', deadline'),
           UNCHANGED <<started, running, batch>>
    PROVE  IInv'
<1>1. Woken(cl, call') /\ CallsGood(call', sock', buffered', inbox', started)
  BY SocketWakes
<1>2. \A c \in Calls : call'[c].at = "low" => call[c].at = "low"
  BY <1>1 DEF Woken
<1>3. queue' = Put(queue, k)
  BY DEF Socket
<1>4. QueueGood(call', queue', batch', sender', started', running')
  BY <1>2, <1>3, QueuedGood DEF IInv
<1> QED
  BY <1>1, <1>4, Assembled

\* The calls go on, and nothing else changes but what was received.
LEMMA CallStep ==
    ASSUME IInv, CallsGood(call', sock, buffered, inbox', started),
           \A c \in Calls : call'[c].at = "low" => call[c].at = "low",
           UNCHANGED <<sock, buffered, started, queue, batch, sender, running,
                       timer, handler, deadline>>
    PROVE  IInv'
<1>1. QueueGood(call', queue', batch', sender', started', running')
  BY QueueKept DEF IInv
<1>2. TimersGood(timer', handler', deadline')
  BY DEF IInv
<1> QED
  BY <1>1, <1>2, Assembled

LEMMA MovedOnStep ==
    ASSUME IInv, started, MovedOn(call, call'),
           UNCHANGED <<sock, buffered, inbox, started, queue, batch, sender,
                       running, timer, handler, deadline>>
    PROVE  IInv'
<1>1. CallsGood(call', sock, buffered, inbox, started)
      /\ \A c \in Calls : call'[c].at = "low" => call[c].at = "low"
  BY MovedOnGood DEF IInv
<1> QED
  BY <1>1, CallStep

\* Close() of the socket is such a call.
LEMMA CloseIsSocket ==
    ASSUME IInv, NEW cl, NEW q, SocketClose(cl, q)
    PROVE  \E s, i, k : /\ i \in Nat /\ k \in {0, 1}
                        /\ k = IF sock = "closed" THEN 0 ELSE Aborts
                        /\ Socket(cl, q, s, buffered, i, k)
<1>1. inbox \in Nat /\ Aborts \in {0, 1}
  BY DEF IInv, CallsGood, Aborts
<1>2. CASE sock = "closed"
  BY <1>1, <1>2 DEF SocketClose
<1>3. CASE sock # "closed"
  <2>1. PICK i \in {0, inbox} : Socket(cl, q, "closed", buffered, i, Aborts)
    BY <1>3 DEF SocketClose
  <2> QED
    BY <1>1, <1>3, <2>1
<1> QED
  BY <1>2, <1>3

-----------------------------------------------------------------------------
(* The tasks.                                                              *)

LEMMA SenderTurnStep == ASSUME IInv, SenderTurn PROVE IInv'
<1>1. /\ sender \in {"posted", "hop"} /\ SenderLoop(queue)
      /\ UNCHANGED <<call, sock, buffered, inbox, started, queue, running, timer,
                     handler, deadline>>
  BY DEF SenderTurn
<1>2. QueueGood(call', queue', batch', sender', started', running')
  <2>1. queue \in Nat
    BY DEF IInv, QueueGood
  <2>2. /\ batch' \in Nat /\ batch' <= queue
        /\ running => sender' \in {"busy", "wait"} /\ (sender' = "wait" <=> queue = 0)
    BY SMT, <1>1, <2>1, SctpAssumption DEF SenderLoop
  <2>3. running => Lows(call, queue, sender')
    <3>1. High(queue) => queue # 0
      BY SMT, <2>1, SctpAssumption DEF High
    <3> QED
      BY <2>2, <3>1 DEF IInv, QueueGood, Lows, Active
  <2>4. started
    BY <1>1 DEF IInv, QueueGood
  <2> QED
    BY <1>1, <2>1, <2>2, <2>3, <2>4 DEF QueueGood, Active
<1> QED
  BY <1>1, <1>2, Assembled DEF IInv

\* stop(): the queue only has to keep its batch.
LEMMA StopEffectsStep ==
    ASSUME IInv, started, NEW q \in Nat, StopEffects(q), batch' \in Nat, batch' <= q
    PROVE  IInv'
<1>1. /\ SocketClose(StateChanged(call), q) /\ ~running' /\ started' = started
      /\ timer' = [t \in Timers |-> Unset] /\ handler' # "wait"
  BY DEF StopEffects, WakeHandler
<1>2. MovedOn(call, StateChanged(call))
  BY StateChangedWakes, WokenMovedOn DEF IInv, CallsGood
<1>3. CallsGood(StateChanged(call), sock, buffered, inbox, started)
  BY <1>2, MovedOnGood DEF IInv
<1>4. PICK s, i, k : /\ i \in Nat /\ k \in {0, 1}
                     /\ Socket(StateChanged(call), q, s, buffered, i, k)
  BY <1>1, CloseIsSocket
<1>5. buffered \in Nat
  BY DEF IInv, CallsGood
<1>6. CallsGood(call', sock', buffered', inbox', started')
  BY <1>1, <1>3, <1>4, <1>5, SocketWakes
<1>7. queue' \in Nat /\ queue' >= q
  BY <1>4, PutMore DEF Socket
<1>8. QueueGood(call', queue', batch', sender', started', running')
  <2>1. batch' <= queue'
    BY SMT, <1>7
  <2> QED
    BY <1>1, <1>7, <2>1 DEF QueueGood
<1>9. TimersGood(timer', handler', deadline')
  BY <1>1, AllUnset, TimersWoken
<1> QED
  BY <1>6, <1>8, <1>9, Assembled
LEMMA SenderSentStep == ASSUME IInv, SenderSent PROVE IInv'
<1> DEFINE q == queue - batch
<1>1. started /\ sender = "busy" /\ q \in Nat
  BY SMT DEF SenderSent, IInv, QueueGood
<1>2. CASE StopEffects(q) /\ batch' = 0
  BY SMT, <1>1, <1>2, StopEffectsStep
<1>3. CASE ~(StopEffects(q) /\ batch' = 0)
  <2>1. /\ SenderLoop(q) /\ queue' = q
        /\ call' = IF High(q) THEN call ELSE QueueLow(call)
        /\ UNCHANGED <<sock, buffered, inbox, started, running, timer, handler,
                       deadline>>
    BY <1>3 DEF SenderSent
  <2> HIDE DEF q
  <2>2. /\ Woken(call, QueueLow(call))
        /\ \A c \in Calls : QueueLow(call)[c].at # "low"
    BY MoveWakes DEF QueueLow, IInv, CallsGood
  <2>3. MovedOn(call, call')
    BY <2>1, <2>2, WokenMovedOn DEF IInv, CallsGood, MovedOn
  <2>4. CallsGood(call', sock', buffered', inbox', started')
    BY <1>1, <2>1, <2>3, MovedOnGood DEF IInv
  <2>5. /\ batch' \in Nat /\ batch' <= q
        /\ running => sender' \in {"busy", "wait"} /\ (sender' = "wait" <=> q = 0)
    BY SMT, <1>1, <2>1, SctpAssumption DEF SenderLoop
  <2>6. running => Lows(call', q, sender')
    <3>1. High(q) => q # 0
      BY SMT, <1>1, SctpAssumption DEF High
    <3> QED
      BY <2>1, <2>2, <2>5, <3>1 DEF Lows, Active
  <2>7. QueueGood(call', queue', batch', sender', started', running')
    BY <1>1, <2>1, <2>5, <2>6 DEF QueueGood, Active
  <2>8. TimersGood(timer', handler', deadline')
    BY <2>1 DEF IInv
  <2> QED
    BY <2>4, <2>7, <2>8, Assembled
<1> QED
  BY <1>2, <1>3

LEMMA StopStep == ASSUME IInv, Stop PROVE IInv'
<1> DEFINE given == sender = "busy" /\ at["send"] = "lock"
<1>1. /\ started
      /\ StopEffects(IF given THEN queue - batch ELSE queue)
      /\ batch' = IF given THEN 0 ELSE batch
  BY DEF Stop
<1>2. queue \in Nat /\ batch \in Nat /\ batch <= queue
  BY DEF IInv, QueueGood
<1> HIDE DEF given
<1>3. CASE given
  BY SMT, <1>1, <1>2, <1>3, StopEffectsStep
<1>4. CASE ~given
  BY <1>1, <1>2, <1>4, StopEffectsStep
<1> QED
  BY <1>3, <1>4

\* The three ways ReceivePacket() may change the numbers.
LEMMA ReceivedNumbers ==
    ASSUME IInv, NEW e \in ReceiveEffects PROVE e.buf \in Nat /\ e.inbox \in Nat
<1>1. buffered \in Nat /\ inbox \in Nat
  BY DEF IInv, CallsGood
<1> QED
  BY SMT, <1>1 DEF ReceiveEffects

LEMMA ReadLoopPacketStep == ASSUME IInv, ReadLoopPacket PROVE IInv'
<1>1. CASE running
  <2>1. PICK e \in ReceiveEffects, k \in {0, 1} :
          /\ Socket(call, queue, e.sock, e.buf, e.inbox, k)
          /\ sender' = Notified(k)
          /\ TimersAfter(e.sock)
          /\ UNCHANGED <<started, running, batch>>
    BY <1>1 DEF ReadLoopPacket
  <2>2. e.buf \in Nat /\ e.inbox \in Nat
    BY ReceivedNumbers
  <2>3. TimersGood(timer', handler', deadline')
    BY <2>1, TimersAfterGood
  <2> QED
    BY <2>1, <2>2, <2>3, SocketStep DEF IInv
<1>2. CASE ~running
  BY <1>2, NothingChanged DEF ReadLoopPacket
<1> QED
  BY <1>1, <1>2

LEMMA ClosedStep ==
    ASSUME IInv, SocketClose(call, queue),
           sender' = Notified(IF sock = "closed" THEN 0 ELSE Aborts),
           TimersAfter("closed"), UNCHANGED <<started, running, batch>>
    PROVE  IInv'
<1>1. PICK s, i, k : /\ i \in Nat /\ k \in {0, 1}
                     /\ k = IF sock = "closed" THEN 0 ELSE Aborts
                     /\ Socket(call, queue, s, buffered, i, k)
  BY CloseIsSocket
<1>2. buffered \in Nat /\ CallsGood(call, sock, buffered, inbox, started)
  BY DEF IInv, CallsGood
<1>3. TimersGood(timer', handler', deadline')
  BY TimersAfterGood
<1>4. sender' = Notified(k)
  BY <1>1
<1> QED
  BY <1>1, <1>2, <1>3, <1>4, SocketStep

LEMMA ReadLoopEndsStep == ASSUME IInv, ReadLoopEnds PROVE IInv'
<1>1. CASE running
  <2>1. /\ SocketClose(call, queue) /\ TimersAfter("closed")
        /\ sender' = IF sock = "closed" THEN sender ELSE Notified(Aborts)
        /\ UNCHANGED <<started, running, batch>>
    BY <1>1 DEF ReadLoopEnds
  <2>2. Notified(0) = sender
    BY SMT DEF Notified
  <2>3. sender' = Notified(IF sock = "closed" THEN 0 ELSE Aborts)
    BY <2>1, <2>2
  <2> QED
    BY <2>1, <2>3, ClosedStep
<1>2. CASE ~running
  <2>1. UNCHANGED <<call, sock, buffered, inbox, started, queue, batch, sender,
                    running, timer, handler, deadline>>
    BY <1>2 DEF ReadLoopEnds
  <2> QED
    BY <2>1, Assembled DEF IInv
<1> QED
  BY SMT, <1>1, <1>2

LEMMA CloseStep == ASSUME IInv, Close PROVE IInv'
BY ClosedStep DEF Close, Keep

\* HandleTimeout() of what is due, and the next sleep.
LEMMA HandlerTurnStep == ASSUME IInv, HandlerTurn PROVE IInv'
<1>1. CASE running
  <2> DEFINE due == {t \in Timers : timer[t] = 0}
  <2>1. /\ Expire(due) /\ handler' = "wait" /\ deadline' = First(timer')
        /\ UNCHANGED <<started, running, batch>>
    BY <1>1 DEF HandlerTurn
  <2> HIDE DEF due
  <2>2. PICK again \in [due -> (Unset .. Horizon) \ {0}], s \in {sock, "closed"},
             k \in {0, 1} :
          /\ Socket(call, queue, s, buffered, inbox, k)
          /\ sender' = Notified(k)
          /\ timer' = IF s = "closed" THEN [t \in Timers |-> Unset]
                      ELSE [t \in Timers |-> IF t \in due THEN again[t] ELSE timer[t]]
    BY ZenonT(30), <2>1 DEF Expire
  <2>3. timer' \in [Timers -> Unset .. Horizon]
    BY <2>2, AllUnset DEF IInv, TimersGood
  <2>4. TimersGood(timer', handler', deadline')
    BY <2>1, <2>3 DEF TimersGood
  <2>5. buffered \in Nat /\ inbox \in Nat
        /\ CallsGood(call, sock, buffered, inbox, started)
    BY DEF IInv, CallsGood
  <2> QED
    BY <2>1, <2>2, <2>4, <2>5, SocketStep
<1>2. CASE ~running
  <2>1. /\ UNCHANGED <<call, sock, buffered, inbox, started, queue, batch, sender,
                       running, timer>>
        /\ handler' = "done"
    BY <1>2 DEF HandlerTurn
  <2>2. TimersGood(timer', handler', deadline')
    BY <2>1 DEF IInv, TimersGood
  <2> QED
    BY <2>1, <2>2, Assembled DEF IInv
<1> QED
  BY SMT, <1>1, <1>2

\* Timeouts start, stop and come nearer.
LEMMA TimeStep ==
    ASSUME IInv, TimersGood(timer', handler', deadline'),
           UNCHANGED <<call, sock, buffered, inbox, started, queue, batch, sender,
                       running>>
    PROVE  IInv'
BY Assembled DEF IInv
-----------------------------------------------------------------------------
(* The calls.                                                              *)

LEMMA SendStep == ASSUME IInv, NEW c \in Calls, Send(c) PROVE IInv'
<1> DEFINE o == [op |-> "send", at |-> IF sendMtx = <<>> THEN "turn" ELSE "lock"]
<1>1. /\ started /\ UNCHANGED <<sock, buffered, inbox, started, queue, batch, sender,
                                running, timer, handler, deadline>>
      /\ call' = Returns(call, c) \/ call' = [call EXCEPT ![c] = o]
  BY DEF Send, MayCall, Keep
<1>2. o \in Call /\ o.at \in {"turn", "lock"}
  BY DEF Call, CallOps
<1> HIDE DEF o
<1>3. MovedOn(call, call')
  BY SMT, <1>1, <1>2, SetMovesOn, ReturnedMovesOn DEF IInv, CallsGood
<1> QED
  BY <1>1, <1>3, MovedOnStep

LEMMA ReadStep == ASSUME IInv, NEW c \in Calls, Read(c) PROVE IInv'
<1> DEFINE o == [op |-> "read", at |-> IF readMtx = <<>> THEN "turn" ELSE "lock"]
<1>1. /\ started /\ UNCHANGED <<sock, buffered, inbox, started, queue, batch, sender,
                                running, timer, handler, deadline>>
      /\ call' = [call EXCEPT ![c] = o]
  BY DEF Read, MayCall, Keep
<1>2. o \in Call /\ o.at \in {"turn", "lock"}
  BY DEF Call, CallOps
<1> HIDE DEF o
<1>3. MovedOn(call, call')
  BY <1>1, <1>2, SetMovesOn DEF IInv, CallsGood
<1> QED
  BY <1>1, <1>3, MovedOnStep

\* A call that has been made goes to wait.
LEMMA GoesToWait ==
    ASSUME IInv, NEW c \in Calls, NEW w \in {"low", "room", "wait"},
           call' = [call EXCEPT ![c].at = w]
    PROVE  /\ Shape(call') /\ call'[c].op = call[c].op /\ call'[c].at = w
           /\ \A d \in Calls : d # c => call'[d] = call[d]
<1> DEFINE o == [call[c] EXCEPT !.at = w]
<1>1. call[c] \in Call /\ DOMAIN call = Calls
  BY DEF IInv, CallsGood, Shape
<1>2. call' = [call EXCEPT ![c] = o]
  BY <1>1
<1>3. o \in Call /\ o.op = call[c].op /\ o.at = w
  BY <1>1 DEF Call
<1> HIDE DEF o
<1>4. DOMAIN call' = Calls /\ call'[c] = o /\ \A d \in Calls : d # c => call'[d] = call[d]
  BY <1>1, <1>2
<1> QED
  BY <1>3, <1>4 DEF Shape, IInv, CallsGood

\* send() waits for a low queue, on a queue that is high and with a sender at
\* work.
LEMMA SendWaitsLow ==
    ASSUME IInv, NEW c \in Calls, call[c].op = "send", started, High(queue),
           sock # "closed", call' = [call EXCEPT ![c].at = "low"],
           UNCHANGED <<sock, buffered, inbox, started, queue, batch, sender,
                       running, timer, handler, deadline>>
    PROVE  IInv'
<1>1. /\ Shape(call') /\ call'[c].op = "send" /\ call'[c].at = "low"
      /\ \A d \in Calls : d # c => call'[d] = call[d]
  BY GoesToWait
<1>2. CallsGood(call', sock', buffered', inbox', started')
  BY <1>1 DEF IInv, CallsGood, Waits, Begun
<1>3. running => sender \in Active
  <2>1. queue # 0 /\ queue \in Nat
    BY SMT, SctpAssumption DEF High, IInv, QueueGood
  <2> QED
    BY <2>1 DEF IInv, QueueGood
<1>4. running => Lows(call', queue, sender)
  BY <1>1, <1>3 DEF IInv, QueueGood, Lows
<1>5. QueueGood(call', queue', batch', sender', started', running')
  BY <1>4 DEF IInv, QueueGood
<1>6. TimersGood(timer', handler', deadline')
  BY DEF IInv
<1> QED
  BY <1>2, <1>5, <1>6, Assembled

LEMMA SendTurnStep == ASSUME IInv, NEW c \in Calls, SendTurn(c) PROVE IInv'
<1> DEFINE cl == Released(Returns(call, c), sendMtx)
<1>1. /\ call[c].op = "send" /\ started
      /\ UNCHANGED <<started, running, batch, timer, handler, deadline>>
  BY DEF SendTurn, Keep, IInv, CallsGood, Begun
<1>2. MovedOn(call, cl)
  BY ReturnedMovesOn DEF IInv, CallsGood
<1>3. /\ CallsGood(cl, sock, buffered, inbox, started)
      /\ \A d \in Calls : cl[d].at = "low" => call[d].at = "low"
  BY <1>1, <1>2, MovedOnGood DEF IInv
<1>4. \/ /\ High(queue) /\ sock # "closed" /\ call' = [call EXCEPT ![c].at = "low"]
         /\ UNCHANGED <<sock, buffered, inbox, queue, sender>>
      \/ call' = cl /\ UNCHANGED <<sock, buffered, inbox, queue, sender>>
      \/ /\ sock # "closed" /\ buffered = BufferMax
         /\ call' = [call EXCEPT ![c].at = "room"]
         /\ UNCHANGED <<sock, buffered, inbox, queue, sender>>
      \/ \E k \in {0, 1} : /\ Socket(cl, queue, sock, buffered + 1, inbox, k)
                           /\ sender' = Notified(k)
  BY DEF SendTurn
<1> HIDE DEF cl
<1>5. CASE /\ High(queue) /\ sock # "closed" /\ call' = [call EXCEPT ![c].at = "low"]
           /\ UNCHANGED <<sock, buffered, inbox, queue, sender>>
  BY <1>1, <1>5, SendWaitsLow
<1>6. CASE call' = cl /\ UNCHANGED <<sock, buffered, inbox, queue, sender>>
  BY <1>1, <1>2, <1>6, MovedOnStep
<1>7. CASE /\ sock # "closed" /\ buffered = BufferMax
           /\ call' = [call EXCEPT ![c].at = "room"]
           /\ UNCHANGED <<sock, buffered, inbox, queue, sender>>
  <2>1. /\ Shape(call') /\ call'[c].op = "send" /\ call'[c].at = "room"
        /\ \A d \in Calls : d # c => call'[d] = call[d]
    BY <1>1, <1>7, GoesToWait
  <2>2. buffered > BufferLow
    BY SMT, <1>7, SctpAssumption
  <2>3. CallsGood(call', sock, buffered, inbox', started)
    BY <1>1, <1>7, <2>1, <2>2 DEF IInv, CallsGood, Waits, Begun
  <2> QED
    BY <1>1, <1>7, <2>1, <2>3, CallStep
<1>8. ASSUME NEW k \in {0, 1}, Socket(cl, queue, sock, buffered + 1, inbox, k),
             sender' = Notified(k)
      PROVE  IInv'
  <2>1. buffered + 1 \in Nat /\ inbox \in Nat
    BY SMT DEF IInv, CallsGood
  <2>2. TimersGood(timer', handler', deadline')
    BY <1>1 DEF IInv
  <2> QED
    BY <1>1, <1>3, <1>8, <2>1, <2>2, SocketStep
<1> QED
  BY <1>4, <1>5, <1>6, <1>7, <1>8

LEMMA ReadTurnStep == ASSUME IInv, NEW c \in Calls, ReadTurn(c) PROVE IInv'
<1>1. /\ call[c].op = "read" /\ started
      /\ UNCHANGED <<sock, buffered, started, queue, batch, sender, running, timer,
                     handler, deadline>>
  BY DEF ReadTurn, Keep, IInv, CallsGood, Begun
<1>2. CASE inbox > 0 \/ sock = "closed"
  <2>1. /\ call' = Released(Returns(call, c), readMtx)
        /\ inbox' = IF inbox > 0 THEN inbox - 1 ELSE 0
    BY <1>2 DEF ReadTurn
  <2>2. MovedOn(call, call')
    BY <2>1, ReturnedMovesOn DEF IInv, CallsGood
  <2>3. /\ CallsGood(call', sock, buffered, inbox, started)
        /\ \A d \in Calls : call'[d].at = "low" => call[d].at = "low"
    BY <1>1, <2>2, MovedOnGood DEF IInv
  <2>4. inbox' \in Nat /\ (inbox = 0 => inbox' = 0)
    BY SMTT(30), <2>1 DEF IInv, CallsGood
  <2>5. CallsGood(call', sock, buffered, inbox', started)
    BY ZenonT(30), <2>3, <2>4 DEF CallsGood, Waits
  <2> QED
    BY <1>1, <2>3, <2>5, CallStep
<1>3. CASE ~(inbox > 0 \/ sock = "closed")
  <2>1. call' = [call EXCEPT ![c].at = "wait"] /\ inbox' = inbox
    BY <1>3 DEF ReadTurn
  <2>2. inbox = 0
    BY SMT, <1>3 DEF IInv, CallsGood
  <2>3. /\ Shape(call') /\ call'[c].op = "read" /\ call'[c].at = "wait"
        /\ \A d \in Calls : d # c => call'[d] = call[d]
    BY <1>1, <2>1, GoesToWait
  <2>4. CallsGood(call', sock, buffered, inbox', started)
    BY <1>1, <1>3, <2>1, <2>2, <2>3 DEF IInv, CallsGood, Waits, Begun
  <2> QED
    BY <1>1, <2>3, <2>4, CallStep
<1> QED
  BY <1>2, <1>3
\* connect(), accept() and shutdown().
LEMMA AwaitStep ==
    ASSUME IInv, NEW c \in Calls, NEW op \in CallOps \ {"send", "read"}, NEW there,
           NEW s, NEW k \in {0, 1}, Await(c, op, there, s, k)
    PROVE  IInv'
<1> DEFINE o == [op |-> op, at |-> "wait"]
           cl == IF there THEN Returns(call, c) ELSE [call EXCEPT ![c] = o]
<1>1. /\ started /\ Socket(cl, queue, s, buffered, inbox, k)
      /\ sender' = Notified(k) /\ TimersAfter(s)
      /\ UNCHANGED <<started, running, batch>>
  BY DEF Await, MayCall, Keep
<1>2. CallsGood(call, sock, buffered, inbox, started)
      /\ buffered \in Nat /\ inbox \in Nat
  BY DEF IInv, CallsGood
<1>3. /\ CallsGood(cl, sock, buffered, inbox, started)
      /\ \A d \in Calls : cl[d].at = "low" => call[d].at = "low"
  <2>1. CASE there
    <3>1. cl = Returns(call, c) /\ MovedOn(call, Returns(call, c))
      BY <1>2, <2>1, ReturnedMovesOn DEF CallsGood
    <3> HIDE DEF cl
    <3> QED
      BY <1>1, <1>2, <3>1, MovedOnGood
  <2>2. CASE ~there
    <3>1. o \in Call /\ o.at = "wait" /\ o.op \notin {"send", "read"}
      BY DEF Call
    <3> HIDE DEF o
    <3>2. /\ DOMAIN cl = Calls /\ cl[c] = o
          /\ \A d \in Calls : d # c => cl[d] = call[d]
      BY <1>2, <2>2 DEF CallsGood, Shape
    <3> HIDE DEF cl
    <3>3. Shape(cl)
      BY <1>2, <3>1, <3>2 DEF CallsGood, Shape
    <3> QED
      BY ZenonT(30), <1>1, <1>2, <3>1, <3>2, <3>3 DEF CallsGood, Waits, Begun
  <2> QED
    BY <2>1, <2>2
<1> HIDE DEF cl
<1>4. TimersGood(timer', handler', deadline')
  BY <1>1, TimersAfterGood
<1> QED
  BY ZenonT(30), <1>1, <1>2, <1>3, <1>4, SocketStep

LEMMA ConnectStep == ASSUME IInv, NEW c \in Calls, Connect(c) PROVE IInv'
<1>1. "connect" \in CallOps \ {"send", "read"}
  BY DEF CallOps
<1> QED
  BY <1>1, AwaitStep DEF Connect

LEMMA AcceptStep == ASSUME IInv, NEW c \in Calls, Accept(c) PROVE IInv'
<1>1. "accept" \in CallOps \ {"send", "read"}
  BY DEF CallOps
<1> QED
  BY <1>1, AwaitStep DEF Accept

LEMMA ShutdownStep == ASSUME IInv, NEW c \in Calls, Shutdown(c) PROVE IInv'
<1>1. "shutdown" \in CallOps \ {"send", "read"}
  BY DEF CallOps
<1>2. \/ Await(c, "shutdown", FALSE, "shutting", 1)
      \/ Await(c, "shutdown", TRUE, "closed", 0)
      \/ Await(c, "shutdown", sock = "closed", sock, 0)
  BY DEF Shutdown
<1> QED
  BY <1>1, <1>2, AwaitStep

LEMMA AwaitTurnStep == ASSUME IInv, NEW c \in Calls, AwaitTurn(c) PROVE IInv'
<1>1. /\ started /\ call' = Returns(call, c)
      /\ UNCHANGED <<sock, buffered, inbox, started, queue, batch, sender, running,
                     timer, handler, deadline>>
  BY DEF AwaitTurn, Keep, IInv, CallsGood, Begun
<1>2. MovedOn(call, call')
  BY <1>1, ReturnedMovesOn DEF IInv, CallsGood
<1> QED
  BY <1>1, <1>2, MovedOnStep

\* start() launches the tasks.
LEMMA HandshakeReturnedStep == ASSUME IInv, HandshakeReturned PROVE IInv'
<1>1. UNCHANGED <<call, sock, buffered, inbox, queue, batch, running, timer, deadline>>
  BY DEF HandshakeReturned
<1>2. CASE UNCHANGED <<started, sender, handler>>
  BY <1>1, <1>2, Assembled DEF IInv
<1>3. CASE started' = TRUE /\ sender' = "posted" /\ handler' = "posted"
  <2>1. CallsGood(call', sock', buffered', inbox', started')
    BY ZenonT(30), <1>1, <1>3 DEF IInv, CallsGood, Begun
  <2>2. QueueGood(call', queue', batch', sender', started', running')
    BY <1>1, <1>3 DEF IInv, QueueGood, Lows, Active
  <2>3. TimersGood(timer', handler', deadline')
    BY <1>1, <1>3 DEF IInv, TimersGood
  <2> QED
    BY SMT, <2>1, <2>2, <2>3, Assembled
<1> QED
  BY ZenonT(30), <1>2, <1>3 DEF HandshakeReturned

-----------------------------------------------------------------------------
(* The invariant.                                                          *)

LEMMA InitHolds == Init => IInv
<1> SUFFICES ASSUME Init PROVE IInv
  BY SMT
<1>1. /\ call = [c \in Calls |-> NoCall] /\ NoCall \in Call /\ NoCall.at = "idle"
      /\ buffered = 0 /\ inbox = 0 /\ queue = 0 /\ batch = 0 /\ sender = "none"
      /\ started = FALSE /\ handler = "none" /\ timer = [t \in Timers |-> Unset]
  BY DEF Init, NoCall, Call
<1>2. CallsGood(call, sock, buffered, inbox, started)
  BY <1>1 DEF CallsGood, Shape, Waits, Begun
<1>3. QueueGood(call, queue, batch, sender, started, running)
  BY SMT, <1>1 DEF QueueGood, Lows
<1>4. TimersGood(timer, handler, deadline)
  BY <1>1, AllUnset DEF TimersGood
<1> QED
  BY <1>2, <1>3, <1>4 DEF IInv

LEMMA CallTurnKeeps == ASSUME IInv, NEW c \in Calls, CallTurn(c) PROVE IInv'
BY SendTurnStep, ReadTurnStep, AwaitTurnStep DEF CallTurn

LEMMA InlineKeeps == ASSUME IInv, InlineStep PROVE IInv'
<1>1. ASSUME ReplyDropped PROVE IInv'
  BY <1>1, NothingChanged DEF ReplyDropped, sctpVars
<1>2. ASSUME NEW o \in Ops, DtlsStep(o) PROVE IInv'
  BY <1>2, NothingChanged DEF DtlsStep
<1> QED
  BY <1>1, <1>2, HandshakeReturnedStep, SenderSentStep, ReadLoopPacketStep,
     ReadLoopEndsStep, CallTurnKeeps DEF InlineStep

LEMMA PostedKeeps == ASSUME IInv, PostedStep PROVE IInv'
<1>1. ASSUME ReadLoopStopped PROVE IInv'
  <2>1. UNCHANGED <<call, sock, buffered, inbox, started, queue, batch, sender,
                    running, timer, handler, deadline>>
    BY <1>1 DEF ReadLoopStopped
  <2> QED
    BY SMT, <2>1, Assembled DEF IInv
<1> QED
  BY <1>1, SenderTurnStep, HandlerTurnStep, CallTurnKeeps DEF PostedStep

LEMMA ApplicationKeeps == ASSUME IInv, ApplicationStep PROVE IInv'
BY NothingChanged, SendStep, ReadStep, ConnectStep, AcceptStep, ShutdownStep,
   CloseStep, StopStep DEF ApplicationStep

LEMMA OutsideKeeps == ASSUME IInv, OutsideStep PROVE IInv'
<1>1. ASSUME Tick PROVE IInv'
  BY <1>1, TickGood, TimeStep DEF Tick
<1>2. ASSUME NEW t \in Timers, StopTimeout(t) PROVE IInv'
  BY <1>2, StopTimeoutGood, TimeStep DEF StopTimeout
<1>3. ASSUME NEW t \in Timers, NEW d \in 1 .. Horizon, StartTimeout(t, d) PROVE IInv'
  BY <1>3, StartTimeoutGood, TimeStep DEF StartTimeout
<1> QED
  BY <1>1, <1>2, <1>3, NothingChanged DEF OutsideStep, FlushedStep

\* The calls, the queue of packets and the timeouts of the transport stay as
\* their waits need them, whatever the socket and the DTLS transport do and in
\* whatever order posted work, timers, datagrams and calls come.
THEOREM Inductive == Spec => []IInv
<1>1. IInv /\ UNCHANGED vars => IInv'
  BY NothingChanged DEF vars
<1>2. IInv /\ Next => IInv'
  BY InlineKeeps, PostedKeeps, ApplicationKeeps, OutsideKeeps DEF Next
<1> QED
  BY InitHolds, <1>1, <1>2, PTL DEF Spec

\* packet_sender() never sleeps on a packet that SendPacketWithStatus() queued,
\* and no send() waits for a queue that is low already.
THEOREM SenderWakesAlways == Spec => []SenderWakes
<1>1. IInv => SenderWakes
  BY DEF IInv, QueueGood, Lows, Active, SenderWakes
<1> QED
  BY Inductive, <1>1, PTL

\* No send() and no read() misses room in the socket, a message or its close.
THEOREM CallsWaitForReasonAlways == Spec => []CallsWaitForReason
<1>1. IInv => CallsWaitForReason
  BY DEF IInv, CallsGood, Waits, CallsWaitForReason
<1> QED
  BY Inductive, <1>1, PTL

\* timeout_handler() sleeps until the first timeout, however many there are.
THEOREM HandlerSleepsToFirstAlways == Spec => []HandlerSleepsToFirst
<1>1. IInv => HandlerSleepsToFirst
  BY DEF IInv, TimersGood, HandlerSleepsToFirst
<1> QED
  BY Inductive, <1>1, PTL

-----------------------------------------------------------------------------
(* _send_mtx and _read_mtx.                                                *)

\* A call into the socket, from calls that are cl by then.
LEMMA SocketQueues ==
    ASSUME NEW cl, CallsGood(cl, sock, buffered, inbox, started), NEW q, NEW s,
           NEW b \in Nat, NEW i \in Nat, NEW k, Socket(cl, q, s, b, i, k),
           QueueOf("send", cl, sendMtx'), QueueOf("read", cl, readMtx')
    PROVE  CallsQueue'
<1>1. Woken(cl, call')
  BY SocketWakes
<1>2. QueueOf("send", call', sendMtx') /\ QueueOf("read", call', readMtx')
  BY <1>1, QueueWoken
<1> QED
  BY <1>2, QueuesAssembled

LEMMA QueuesSame ==
    ASSUME CallsQueue, UNCHANGED <<call, sendMtx, readMtx>> PROVE CallsQueue'
BY QueuesAssembled DEF CallsQueue

LEMMA WokenQueues ==
    ASSUME CallsQueue, Woken(call, call'), UNCHANGED <<sendMtx, readMtx>>
    PROVE  CallsQueue'
BY QueueWoken, QueuesAssembled DEF CallsQueue

\* The socket is called with the calls as they are.
LEMMA TaskQueues ==
    ASSUME IInv, CallsQueue, NEW q, NEW s, NEW b \in Nat, NEW i \in Nat, NEW k,
           Socket(call, q, s, b, i, k), UNCHANGED <<sendMtx, readMtx>>
    PROVE  CallsQueue'
BY SocketQueues DEF IInv, CallsQueue

LEMMA CloseQueues ==
    ASSUME IInv, CallsQueue, NEW q, SocketClose(call, q),
           UNCHANGED <<sendMtx, readMtx>>
    PROVE  CallsQueue'
<1>1. PICK s, i, k : /\ i \in Nat /\ k \in {0, 1}
                     /\ Socket(call, q, s, buffered, i, k)
  BY CloseIsSocket
<1>2. buffered \in Nat
  BY DEF IInv, CallsGood
<1> QED
  BY <1>1, <1>2, TaskQueues

LEMMA StopQueues ==
    ASSUME IInv, started, CallsQueue, NEW q, StopEffects(q) PROVE CallsQueue'
<1>1. SocketClose(StateChanged(call), q) /\ UNCHANGED <<sendMtx, readMtx>>
  BY DEF StopEffects
<1>2. Woken(call, StateChanged(call))
  BY StateChangedWakes DEF IInv, CallsGood
<1>3. CallsGood(StateChanged(call), sock, buffered, inbox, started)
  BY <1>2, WokenMovedOn, MovedOnGood DEF IInv
<1>4. PICK s, i, k : /\ i \in Nat /\ k \in {0, 1}
                     /\ Socket(StateChanged(call), q, s, buffered, i, k)
  BY <1>1, CloseIsSocket
<1>5. buffered \in Nat
  BY DEF IInv, CallsGood
<1>6. /\ QueueOf("send", StateChanged(call), sendMtx')
      /\ QueueOf("read", StateChanged(call), readMtx')
  BY <1>1, <1>2, QueueWoken DEF CallsQueue
<1> QED
  BY <1>3, <1>4, <1>5, <1>6, SocketQueues

LEMMA SenderQueues ==
    ASSUME IInv, CallsQueue, SenderSent \/ Stop PROVE CallsQueue'
<1> DEFINE q == queue - batch
<1>1. started
  BY DEF SenderSent, Stop, IInv, QueueGood
<1>2. CASE \E p : StopEffects(p)
  BY <1>1, <1>2, StopQueues
<1>3. CASE ~\E p : StopEffects(p)
  <2>1. /\ call' = IF High(q) THEN call ELSE QueueLow(call)
        /\ UNCHANGED <<sendMtx, readMtx>>
    BY <1>3 DEF SenderSent, Stop
  <2>2. Woken(call, QueueLow(call)) /\ Woken(call, call)
    BY MoveWakes DEF QueueLow, IInv, CallsGood, Woken
  <2> QED
    BY <2>1, <2>2, WokenQueues
<1> QED
  BY <1>2, <1>3

LEMMA ReadLoopQueues ==
    ASSUME IInv, CallsQueue, ReadLoopPacket \/ ReadLoopEnds PROVE CallsQueue'
<1>1. CASE ReadLoopPacket /\ running
  <2>1. PICK e \in ReceiveEffects, k \in {0, 1} :
          /\ Socket(call, queue, e.sock, e.buf, e.inbox, k)
          /\ UNCHANGED <<sendMtx, readMtx>>
    BY <1>1 DEF ReadLoopPacket
  <2>2. e.buf \in Nat /\ e.inbox \in Nat
    BY ReceivedNumbers
  <2> QED
    BY <2>1, <2>2, TaskQueues
<1>2. CASE ReadLoopEnds /\ running
  BY <1>2, CloseQueues DEF ReadLoopEnds
<1>3. CASE ~running
  BY <1>3, QueuesSame DEF ReadLoopPacket, ReadLoopEnds, sctpVars
<1> QED
  BY <1>1, <1>2, <1>3

LEMMA HandlerQueues == ASSUME IInv, CallsQueue, HandlerTurn PROVE CallsQueue'
<1>1. CASE running
  <2> DEFINE due == {t \in Timers : timer[t] = 0}
  <2>1. Expire(due) /\ UNCHANGED <<sendMtx, readMtx>>
    BY <1>1 DEF HandlerTurn
  <2> HIDE DEF due
  <2>2. PICK s, k : Socket(call, queue, s, buffered, inbox, k)
    BY ZenonT(30), <2>1 DEF Expire
  <2>3. buffered \in Nat /\ inbox \in Nat
    BY DEF IInv, CallsGood
  <2> QED
    BY <2>1, <2>2, <2>3, TaskQueues
<1>2. CASE ~running
  BY <1>2, QueuesSame DEF HandlerTurn
<1> QED
  BY <1>1, <1>2

\* A call of another kind is made, or returns.
LEMMA OtherCall ==
    ASSUME IInv, CallsQueue, NEW c \in Calls, NEW o, o.op \notin {"send", "read"},
           call[c].at = "idle" \/ call[c].op \notin {"send", "read"}
    PROVE  /\ QueueOf("send", [call EXCEPT ![c] = o], sendMtx)
           /\ QueueOf("read", [call EXCEPT ![c] = o], readMtx)
<1> DEFINE dl == [call EXCEPT ![c] = o]
<1>1. DOMAIN call = Calls
  BY DEF IInv, CallsGood, Shape
<1>2. \A d \in Calls : dl[d] = IF d = c THEN o ELSE call[d]
  BY <1>1
<1> HIDE DEF dl
<1>3. QueueOf("send", dl, sendMtx)
  BY <1>2, QueueElsewhere DEF CallsQueue
<1>4. QueueOf("read", dl, readMtx)
  BY <1>2, QueueElsewhere DEF CallsQueue
<1> QED
  BY <1>3, <1>4 DEF dl

LEMMA AwaitQueues ==
    ASSUME IInv, CallsQueue, NEW c \in Calls, NEW op \in CallOps \ {"send", "read"},
           NEW there, NEW s, NEW k, Await(c, op, there, s, k)
    PROVE  CallsQueue'
<1> DEFINE o == [op |-> op, at |-> "wait"]
           cl == IF there THEN Returns(call, c) ELSE [call EXCEPT ![c] = o]
<1>1. /\ started /\ call[c].at = "idle" /\ Socket(cl, queue, s, buffered, inbox, k)
      /\ UNCHANGED <<sendMtx, readMtx>>
  BY DEF Await, MayCall
<1>2. /\ CallsGood(call, sock, buffered, inbox, started)
      /\ buffered \in Nat /\ inbox \in Nat
  BY DEF IInv, CallsGood
<1>3. o \in Call /\ o.at = "wait" /\ o.op \notin {"send", "read"}
  BY DEF Call
<1>4. Done.op \notin {"send", "read"}
  BY DEF Done
<1> HIDE DEF o
<1>5. QueueOf("send", cl, sendMtx') /\ QueueOf("read", cl, readMtx')
  BY <1>1, <1>3, <1>4, OtherCall DEF Returns
<1>6. CallsGood(cl, sock, buffered, inbox, started)
  <2>1. CASE there
    <3>1. cl = Returns(call, c) /\ MovedOn(call, Returns(call, c))
      BY <1>2, <2>1, ReturnedMovesOn DEF CallsGood
    <3> HIDE DEF cl
    <3> QED
      BY <1>1, <1>2, <3>1, MovedOnGood
  <2>2. CASE ~there
    <3>1. /\ DOMAIN cl = Calls /\ cl[c] = o
          /\ \A d \in Calls : d # c => cl[d] = call[d]
      BY <1>2, <2>2 DEF CallsGood, Shape
    <3> HIDE DEF cl
    <3>2. Shape(cl)
      BY <1>2, <1>3, <3>1 DEF CallsGood, Shape
    <3> QED
      BY ZenonT(30), <1>1, <1>2, <1>3, <3>1, <3>2 DEF CallsGood, Waits, Begun
  <2> QED
    BY <2>1, <2>2
<1> HIDE DEF cl
<1> QED
  BY <1>1, <1>2, <1>5, <1>6, SocketQueues

LEMMA OtherQueues ==
    ASSUME IInv, CallsQueue, NEW c \in Calls,
           Connect(c) \/ Accept(c) \/ Shutdown(c) \/ AwaitTurn(c)
    PROVE  CallsQueue'
<1>1. {"connect", "accept", "shutdown"} \subseteq CallOps \ {"send", "read"}
  BY DEF CallOps
<1>2. CASE \E op \in {"connect", "accept", "shutdown"} :
             \E there, s, k : Await(c, op, there, s, k)
  BY <1>1, <1>2, AwaitQueues
<1>3. CASE AwaitTurn(c)
  <2>1. /\ call[c].op \notin {"send", "read"} /\ call' = [call EXCEPT ![c] = Done]
        /\ UNCHANGED <<sendMtx, readMtx>> /\ Done.op = "none"
    BY <1>3 DEF AwaitTurn, Returns, Done
  <2>2. QueueOf("send", call', sendMtx') /\ QueueOf("read", call', readMtx')
    BY <2>1, OtherCall
  <2> QED
    BY <2>2, QueuesAssembled
<1> QED
  BY ZenonT(30), <1>2, <1>3 DEF Connect, Accept, Shutdown

LEMMA SendQueues == ASSUME IInv, CallsQueue, NEW c \in Calls, Send(c) PROVE CallsQueue'
<1> DEFINE o == [op |-> "send", at |-> IF sendMtx = <<>> THEN "turn" ELSE "lock"]
<1>1. call[c].at = "idle" /\ readMtx' = readMtx /\ DOMAIN call = Calls
  BY DEF Send, MayCall, IInv, CallsGood, Shape
<1>2. CASE sock = "closed"
  <2>1. call' = [call EXCEPT ![c] = Done] /\ sendMtx' = sendMtx /\ Done.op = "none"
    BY <1>2 DEF Send, Returns, Done
  <2>2. QueueOf("send", call', sendMtx') /\ QueueOf("read", call', readMtx')
    BY <1>1, <2>1, OtherCall
  <2> QED
    BY <2>2, QueuesAssembled
<1>3. CASE sock # "closed"
  <2>1. call' = [call EXCEPT ![c] = o] /\ sendMtx' = Append(sendMtx, c)
    BY <1>3 DEF Send
  <2>2. o.op = "send" /\ o.at = IF sendMtx = <<>> THEN "turn" ELSE "lock"
    BY SMT
  <2> HIDE DEF o
  <2>3. call'[c] = o /\ \A d \in Calls : d # c => call'[d] = call[d]
    BY <1>1, <2>1
  <2>4. QueueOf("send", call', sendMtx')
    BY <1>1, <2>1, <2>2, <2>3, QueueJoined DEF CallsQueue
  <2>5. QueueOf("read", call', readMtx')
    BY <1>1, <2>2, <2>3, QueueElsewhere DEF CallsQueue
  <2> QED
    BY <2>4, <2>5, QueuesAssembled
<1> QED
  BY <1>2, <1>3

LEMMA ReadQueues == ASSUME IInv, CallsQueue, NEW c \in Calls, Read(c) PROVE CallsQueue'
<1> DEFINE o == [op |-> "read", at |-> IF readMtx = <<>> THEN "turn" ELSE "lock"]
<1>1. /\ call[c].at = "idle" /\ sendMtx' = sendMtx /\ DOMAIN call = Calls
      /\ call' = [call EXCEPT ![c] = o] /\ readMtx' = Append(readMtx, c)
  BY DEF Read, MayCall, IInv, CallsGood, Shape
<1>2. o.op = "read" /\ o.at = IF readMtx = <<>> THEN "turn" ELSE "lock"
  BY SMT
<1> HIDE DEF o
<1>3. call'[c] = o /\ \A d \in Calls : d # c => call'[d] = call[d]
  BY <1>1
<1>4. QueueOf("read", call', readMtx')
  BY <1>1, <1>2, <1>3, QueueJoined DEF CallsQueue
<1>5. QueueOf("send", call', sendMtx')
  BY <1>1, <1>2, <1>3, QueueElsewhere DEF CallsQueue
<1> QED
  BY <1>4, <1>5, QueuesAssembled

\* A call at the head goes to wait.
LEMMA WaitQueues ==
    ASSUME IInv, CallsQueue, NEW c \in Calls, NEW w \in {"low", "room", "wait"},
           call[c].op \in {"send", "read"}, call[c].at \in {"turn", "hop", "hop2"},
           call' = [call EXCEPT ![c].at = w], UNCHANGED <<sendMtx, readMtx>>
    PROVE  CallsQueue'
<1>1. /\ call'[c].op = call[c].op /\ call'[c].at = w
      /\ \A d \in Calls : d # c => call'[d] = call[d]
  BY GoesToWait
<1>2. QueueOf("send", call', sendMtx')
  <2>1. CASE call[c].op = "send"
    BY <1>1, <2>1, QueueAt DEF CallsQueue
  <2>2. CASE call[c].op # "send"
    BY <1>1, <2>2, QueueElsewhere DEF CallsQueue
  <2> QED
    BY <2>1, <2>2
<1>3. QueueOf("read", call', readMtx')
  <2>1. CASE call[c].op = "read"
    BY <1>1, <2>1, QueueAt DEF CallsQueue
  <2>2. CASE call[c].op # "read"
    BY <1>1, <2>2, QueueElsewhere DEF CallsQueue
  <2> QED
    BY <2>1, <2>2
<1> QED
  BY <1>2, <1>3, QueuesAssembled

LEMMA SendTurnQueues ==
    ASSUME IInv, CallsQueue, NEW c \in Calls, SendTurn(c) PROVE CallsQueue'
<1> DEFINE cl == Released(Returns(call, c), sendMtx)
<1>1. /\ call[c].op = "send" /\ call[c].at \in {"turn", "hop", "hop2"} /\ started
      /\ readMtx' = readMtx /\ Shape(call)
  BY DEF SendTurn, Keep, IInv, CallsGood, Begun
<1>2. MovedOn(call, cl)
  BY ReturnedMovesOn DEF IInv, CallsGood
<1>3. CallsGood(cl, sock, buffered, inbox, started)
  BY <1>1, <1>2, MovedOnGood DEF IInv
<1>4. QueueOf("send", cl, Tail(sendMtx)) /\ QueueOf("read", cl, readMtx)
  BY <1>1, QueueReleased DEF CallsQueue
<1>5. \/ /\ \E w \in {"low", "room"} : call' = [call EXCEPT ![c].at = w]
         /\ UNCHANGED sendMtx
      \/ call' = cl /\ sendMtx' = Tail(sendMtx)
      \/ /\ \E k \in {0, 1} : Socket(cl, queue, sock, buffered + 1, inbox, k)
         /\ sendMtx' = Tail(sendMtx)
  BY DEF SendTurn
<1> HIDE DEF cl
<1>6. CASE \E w \in {"low", "room"} : call' = [call EXCEPT ![c].at = w]
           /\ UNCHANGED sendMtx
  BY <1>1, <1>6, WaitQueues
<1>7. CASE call' = cl /\ sendMtx' = Tail(sendMtx)
  BY <1>1, <1>4, <1>7, QueuesAssembled
<1>8. CASE /\ \E k \in {0, 1} : Socket(cl, queue, sock, buffered + 1, inbox, k)
           /\ sendMtx' = Tail(sendMtx)
  <2>1. buffered + 1 \in Nat /\ inbox \in Nat
    BY SMT DEF IInv, CallsGood
  <2> QED
    BY <1>1, <1>3, <1>4, <1>8, <2>1, SocketQueues
<1> QED
  BY <1>5, <1>6, <1>7, <1>8

LEMMA ReadTurnQueues ==
    ASSUME IInv, CallsQueue, NEW c \in Calls, ReadTurn(c) PROVE CallsQueue'
<1> DEFINE cl == Released(Returns(call, c), readMtx)
<1>1. /\ call[c].op = "read" /\ call[c].at \in {"turn", "hop"}
      /\ sendMtx' = sendMtx /\ Shape(call)
  BY DEF ReadTurn, Keep, IInv, CallsGood
<1>2. QueueOf("read", cl, Tail(readMtx)) /\ QueueOf("send", cl, sendMtx)
  BY <1>1, QueueReleased DEF CallsQueue
<1>3. CASE inbox > 0 \/ sock = "closed"
  <2>1. call' = cl /\ readMtx' = Tail(readMtx)
    BY <1>3 DEF ReadTurn
  <2> HIDE DEF cl
  <2> QED
    BY <1>1, <1>2, <2>1, QueuesAssembled
<1>4. CASE ~(inbox > 0 \/ sock = "closed")
  BY <1>1, <1>4, WaitQueues DEF ReadTurn
<1> QED
  BY <1>3, <1>4

LEMMA NextQueues == ASSUME IInv, CallsQueue, Next \/ UNCHANGED vars PROVE CallsQueue'
<1>1. ASSUME UNCHANGED sctpVars PROVE CallsQueue'
  BY <1>1, QueuesSame DEF sctpVars
<1>2. ASSUME NEW c \in Calls, CallTurn(c) PROVE CallsQueue'
  BY <1>2, SendTurnQueues, ReadTurnQueues, OtherQueues DEF CallTurn
<1>3. CASE InlineStep
  <2>1. ASSUME \/ HandshakeReturned \/ ReplyDropped \/ \E o \in Ops : DtlsStep(o)
        PROVE  CallsQueue'
    BY <1>1, <2>1, QueuesSame DEF HandshakeReturned, ReplyDropped, DtlsStep
  <2> QED
    BY <1>2, <1>3, <2>1, SenderQueues, ReadLoopQueues DEF InlineStep
<1>4. CASE PostedStep
  <2>1. ASSUME SenderTurn \/ ReadLoopStopped PROVE CallsQueue'
    BY <2>1, QueuesSame DEF SenderTurn, ReadLoopStopped
  <2> QED
    BY <1>2, <1>4, <2>1, HandlerQueues DEF PostedStep
<1>5. CASE ApplicationStep
  <2>1. ASSUME Close PROVE CallsQueue'
    BY <2>1, CloseQueues DEF Close
  <2> QED
    BY <1>1, <1>5, <2>1, SendQueues, ReadQueues, OtherQueues, SenderQueues
       DEF ApplicationStep
<1>6. CASE OutsideStep
  <2>1. ASSUME \/ Tick
               \/ \E t \in Timers : StopTimeout(t) \/ \E d \in 1 .. Horizon :
                                                        StartTimeout(t, d)
        PROVE  CallsQueue'
    BY <2>1, QueuesSame DEF Tick, StopTimeout, StartTimeout
  <2> QED
    BY <1>1, <1>6, <2>1 DEF OutsideStep, FlushedStep
<1> QED
  BY <1>1, <1>3, <1>4, <1>5, <1>6 DEF Next, vars

LEMMA InitLocks == Init => LocksGood
<1> SUFFICES ASSUME Init PROVE LocksGood
  BY SMT
<1>1. /\ at = [o \in Ops |-> "idle"] /\ reply = [o \in Awaited |-> "none"]
      /\ holder = NoOp /\ waiters = <<>> /\ out = 0 /\ in = 0 /\ started = FALSE
      /\ NoOp \notin Ops
  BY DEF Init, DtlsInit, NoOp, Ops
<1>2. waiters \in Seq(Ops) /\ Distinct(waiters) /\ \A o \in Ops : ~In(o, waiters)
  BY SMT, <1>1 DEF Distinct, In
<1>3. MutexGood(at, holder, waiters)
  BY <1>1, <1>2 DEF MutexGood
<1>4. OpsGood(at, reply, ssl, dtlsClosed, started, sender)
  BY <1>1 DEF OpsGood, Ops, Awaited
<1>5. BuffersGood(at, holder, verdict, out, in)
  BY SMT, <1>1, DtlsAssumption DEF BuffersGood
<1>6. \A c \in Calls : call[c].op = "none"
  BY DEF Init, NoCall
<1>7. sendMtx = <<>> /\ readMtx = <<>>
  BY DEF Init
<1>8. QueueOf("send", call, sendMtx) /\ QueueOf("read", call, readMtx)
  BY SMT, <1>6, <1>7 DEF QueueOf, Distinct
<1> QED
  BY <1>3, <1>4, <1>5, <1>8 DEF LocksGood, DtlsGood, CallsQueue

\* The mutexes are held by who works under them, and waited for in queues
\* without repetition, in every state.
THEOREM LocksAlways == Spec => []LocksGood
<1>1. IInv /\ LocksGood /\ [Next]_vars => LocksGood'
  BY NextDtls, NextQueues DEF LocksGood
<1> QED
  BY <1>1, InitLocks, Inductive, PTL DEF Spec

\* assert(_bio.out.empty()) of perform(): whoever gets _ssl_mutex finds no record
\* of another operation, whatever was sent, failed, stopped or waited for before.
THEOREM OutBelongsToHolderAlways == Spec => []OutBelongsToHolder
<1>1. LocksGood => OutBelongsToHolder
  BY DEF LocksGood, DtlsGood, MutexGood, BuffersGood, OutBelongsToHolder
<1> QED
  BY <1>1, LocksAlways, PTL

\* No wake-up of the DTLS transport is lost: an operation waits for a datagram
\* only while there is none, and for _ssl_mutex only while another has it.
THEOREM DtlsWaitsForReasonAlways == Spec => []DtlsWaitsForReason
<1>1. LocksGood => DtlsWaitsForReason
  <2> SUFFICES ASSUME LocksGood PROVE DtlsWaitsForReason
    BY SMT
  <2>1. MutexGood(at, holder, waiters) /\ BuffersGood(at, holder, verdict, out, in)
    BY DEF LocksGood, DtlsGood
  <2>2. \A o \in Ops : at[o] = "wait" => in = 0
    BY <2>1 DEF BuffersGood
  <2>3. \A o \in Ops : at[o] = "lock" <=> \E i \in DOMAIN waiters : waiters[i] = o
    BY <2>1 DEF MutexGood, In
  <2>4. waiters # <<>> => holder # NoOp /\ at[holder] \in {"run", "flush"}
    BY <2>1 DEF MutexGood
  <2> QED
    BY <2>2, <2>3, <2>4 DEF DtlsWaitsForReason
<1> QED
  BY <1>1, LocksAlways, PTL

\* _send_mtx and _read_mtx are handed on: the call at the head is at work under
\* the mutex, and the others wait for it.
THEOREM MutexesHandedOnAlways == Spec => []MutexesHandedOn
<1>1. LocksGood => MutexesHandedOn
  BY DEF LocksGood, CallsQueue, QueueOf, MutexesHandedOn
<1> QED
  BY <1>1, LocksAlways, PTL
==============================================================================
