------------------------- MODULE DataChannelsRecords -------------------------
(***************************************************************************)
(* What a data channel manager records of its channels is true of them,    *)
(* whatever the applications, read_loop() and the association do:          *)
(* _cache_bytes is the sum of the bytes in their queues, and _channels     *)
(* leads to every channel that lives.  And with that, an open channel has  *)
(* another end.                                                            *)
(*                                                                         *)
(* The first part is about the sums, and about what each kind of change    *)
(* does to the table and to the cache.  The sums are recursive functions.  *)
(* That they exist, and what they are of an appended, shifted or changed   *)
(* function, is proved by induction.                                       *)
(***************************************************************************)
EXTENDS DataChannelsProofs

\* The leaves that name no prover are Zenon's.
USE Zenon


LEMMA NoneApart == None \notin Objs
BY SMT, DataChannelsAssumption DEF None, Objs

LEMMA TwoLevels ==
    ASSUME NEW S, NEW f \in [Nodes -> [Ids -> S]], NEW n \in Nodes, NEW i \in Ids,
           NEW v \in S
    PROVE  /\ [f EXCEPT ![n][i] = v] \in [Nodes -> [Ids -> S]]
           /\ \A m \in Nodes, j \in Ids :
                [f EXCEPT ![n][i] = v][m][j] =
                    IF m = n /\ j = i THEN v ELSE f[m][j]
BY SMT
-----------------------------------------------------------------------------
(* Sums.                                                                   *)

LEMMA SetInduction ==
    ASSUME NEW S, 0 \in S, \A n \in Nat : n \in S => n + 1 \in S
    PROVE  Nat \subseteq S
<1> DEFINE R == OpToRel(<, Nat)
           B == Nat \ S
<1>1. \A x, y \in Nat : <<y, x>> \in R <=> y < x
  BY DEF OpToRel
<1>2. IsWellFoundedOn(R, Nat)
  BY NatLessThanWellFounded
<1> HIDE DEF R
<1> SUFFICES ASSUME B # {} PROVE FALSE
  BY SMT
<1>3. PICK x \in B : \A y \in B : ~(<<y, x>> \in R)
  BY <1>2, WFMin
<1>4. x \in Nat \ {0} /\ x - 1 \in Nat /\ x - 1 < x
  BY SMT, <1>3
<1>5. x - 1 \notin B
  BY <1>1, <1>3, <1>4
<1>6. x - 1 \in S /\ (x - 1) + 1 = x
  BY SMT, <1>4, <1>5
<1> QED
  BY <1>3, <1>4, <1>6

\* The partial sums of f up to n.
Partial(f, n, g) == g = [i \in 0 .. n |-> IF i = 0 THEN 0 ELSE g[i - 1] + f[i]]

LEMMA PartialExists == ASSUME NEW f PROVE \A n \in Nat : \E g : Partial(f, n, g)
<1> DEFINE S == {n \in Nat : \E g : Partial(f, n, g)}
<1>1. 0 \in S
  <2> DEFINE g == [i \in 0 .. 0 |-> 0]
  <2>1. g = [i \in 0 .. 0 |-> IF i = 0 THEN 0 ELSE g[i - 1] + f[i]]
    BY SMT
  <2> QED
    BY <2>1 DEF Partial
<1>2. ASSUME NEW n \in Nat, n \in S PROVE n + 1 \in S
  <2>1. PICK g : Partial(f, n, g)
    BY <1>2
  <2> DEFINE h == [i \in 0 .. n + 1 |-> IF i = n + 1 THEN g[n] + f[n + 1] ELSE g[i]]
  <2>2. ASSUME NEW i \in 0 .. n + 1
        PROVE  h[i] = IF i = 0 THEN 0 ELSE h[i - 1] + f[i]
    <3>1. CASE i = n + 1
      BY SMT, <3>1
    <3>2. CASE i # n + 1
      <4>1. i \in 0 .. n /\ h[i] = g[i] /\ (i # 0 => h[i - 1] = g[i - 1])
        BY SMT, <3>2
      <4> QED
        BY <2>1, <4>1 DEF Partial
    <3> QED
      BY <3>1, <3>2
  <2>3. Partial(f, n + 1, h)
    BY <2>2 DEF Partial
  <2> QED
    BY SMT, <2>3
<1> HIDE DEF S
<1>3. Nat \subseteq S
  BY <1>1, <1>2, SetInduction
<1> QED
  BY <1>3 DEF S

LEMMA PartialUnique ==
    ASSUME NEW f, NEW n \in Nat, NEW m \in Nat, NEW g, NEW h,
           Partial(f, n, g), Partial(f, m, h)
    PROVE  \A i \in Nat : i <= n /\ i <= m => g[i] = h[i]
<1> DEFINE S == {i \in Nat : i <= n /\ i <= m => g[i] = h[i]}
<1>1. 0 \in S
  BY SMT DEF Partial
<1>2. ASSUME NEW i \in Nat, i \in S PROVE i + 1 \in S
  <2> SUFFICES ASSUME i + 1 <= n, i + 1 <= m PROVE g[i + 1] = h[i + 1]
    BY SMT
  <2>1. g[i] = h[i] /\ i + 1 \in 0 .. n /\ i + 1 \in 0 .. m /\ i + 1 # 0
        /\ (i + 1) - 1 = i
    BY SMT, <1>2
  <2>2. g[i + 1] = g[i] + f[i + 1]
    BY <2>1 DEF Partial
  <2>3. h[i + 1] = h[i] + f[i + 1]
    BY <2>1 DEF Partial
  <2> QED
    BY <2>1, <2>2, <2>3
<1> HIDE DEF S
<1>3. Nat \subseteq S
  BY <1>1, <1>2, SetInduction
<1> QED
  BY <1>3 DEF S

LEMMA SumPartial ==
    ASSUME NEW f, NEW n \in Nat
    PROVE  \E g : Partial(f, n, g) /\ SumTo(f, n) = g[n]
<1> DEFINE g == CHOOSE h : h = [i \in 0 .. n |-> IF i = 0 THEN 0 ELSE h[i - 1] + f[i]]
<1>1. SumTo(f, n) = g[n]
  BY DEF SumTo
<1>2. \E h : h = [i \in 0 .. n |-> IF i = 0 THEN 0 ELSE h[i - 1] + f[i]]
  BY PartialExists DEF Partial
<1>3. Partial(f, n, g)
  BY <1>2 DEF Partial
<1> QED
  BY <1>1, <1>3

\* What SumTo computes.
LEMMA SumRec ==
    ASSUME NEW f
    PROVE  /\ SumTo(f, 0) = 0
           /\ \A n \in Nat : SumTo(f, n + 1) = SumTo(f, n) + f[n + 1]
<1>1. SumTo(f, 0) = 0
  <2>1. PICK g : Partial(f, 0, g) /\ SumTo(f, 0) = g[0]
    BY SumPartial
  <2> QED
    BY SMT, <2>1 DEF Partial
<1>2. ASSUME NEW n \in Nat PROVE SumTo(f, n + 1) = SumTo(f, n) + f[n + 1]
  <2>1. PICK g : Partial(f, n, g) /\ SumTo(f, n) = g[n]
    BY SumPartial
  <2>2. PICK h : Partial(f, n + 1, h) /\ SumTo(f, n + 1) = h[n + 1]
    BY SMT, SumPartial
  <2>3. h[n] = g[n]
    BY SMT, <2>1, <2>2, PartialUnique
  <2>4. h[n + 1] = h[n] + f[n + 1]
    BY SMT, <2>2 DEF Partial
  <2> QED
    BY <2>1, <2>2, <2>3, <2>4
<1> QED
  BY <1>1, <1>2

LEMMA SumNat ==
    ASSUME NEW f, NEW n \in Nat, \A i \in 1 .. n : f[i] \in Nat
    PROVE  \A k \in 0 .. n : SumTo(f, k) \in Nat
<1> DEFINE S == {k \in Nat : k <= n => SumTo(f, k) \in Nat}
<1>1. 0 \in S
  BY SMT, SumRec
<1>2. ASSUME NEW k \in Nat, k \in S PROVE k + 1 \in S
  BY SMT, <1>2, SumRec
<1> HIDE DEF S
<1>3. Nat \subseteq S
  BY <1>1, <1>2, SetInduction
<1> QED
  BY SMT, <1>3 DEF S

LEMMA SumSame ==
    ASSUME NEW f, NEW g, NEW n \in Nat, \A i \in 1 .. n : f[i] = g[i]
    PROVE  SumTo(f, n) = SumTo(g, n)
<1> DEFINE S == {k \in Nat : k <= n => SumTo(f, k) = SumTo(g, k)}
<1>1. 0 \in S
  BY SumRec
<1>2. ASSUME NEW k \in Nat, k \in S PROVE k + 1 \in S
  <2> SUFFICES ASSUME k + 1 <= n PROVE SumTo(f, k + 1) = SumTo(g, k + 1)
    BY SMT
  <2>1. SumTo(f, k) = SumTo(g, k) /\ f[k + 1] = g[k + 1]
    BY SMT, <1>2
  <2>2. SumTo(f, k + 1) = SumTo(f, k) + f[k + 1]
    BY SumRec
  <2>3. SumTo(g, k + 1) = SumTo(g, k) + g[k + 1]
    BY SumRec
  <2> QED
    BY <2>1, <2>2, <2>3
<1> HIDE DEF S
<1>3. Nat \subseteq S
  BY <1>1, <1>2, SetInduction
<1> QED
  BY SMT, <1>3 DEF S

\* g is what is left of f, up to n, without the first k values.
Left(g, f, k, n) == /\ \A i \in 1 .. n : f[i] \in Nat
                    /\ \A j \in 1 .. n - k : g[j] = f[k + j]

LEMMA SumShift ==
    ASSUME NEW f, NEW g, NEW k \in Nat, NEW n \in Nat, k <= n,
           Left(g, f, k, n)
    PROVE  SumTo(f, n) = SumTo(f, k) + SumTo(g, n - k)
<1> DEFINE m == n - k
           S == {j \in Nat : j <= m => SumTo(f, k + j) = SumTo(f, k) + SumTo(g, j)}
<1> USE DEF Left
<1>1. \A j \in 0 .. n : SumTo(f, j) \in Nat
  BY SumNat
<1>2. \A j \in 0 .. m : SumTo(g, j) \in Nat
  <2>1. m \in Nat /\ \A j \in 1 .. m : g[j] \in Nat
    BY SMT
  <2> QED
    BY <2>1, SumNat
<1>3. 0 \in S
  BY SMT, <1>1, SumRec
<1>4. ASSUME NEW j \in Nat, j \in S PROVE j + 1 \in S
  <2> SUFFICES ASSUME j + 1 <= m
               PROVE  SumTo(f, k + (j + 1)) = SumTo(f, k) + SumTo(g, j + 1)
    BY SMT
  <2>1. /\ SumTo(f, k + j) = SumTo(f, k) + SumTo(g, j)
        /\ g[j + 1] = f[k + (j + 1)] /\ f[k + (j + 1)] \in Nat
        /\ k + (j + 1) = (k + j) + 1 /\ k + j \in Nat
    BY SMT, <1>4
  <2>2. SumTo(f, (k + j) + 1) = SumTo(f, k + j) + f[(k + j) + 1]
    BY <2>1, SumRec
  <2>3. SumTo(g, j + 1) = SumTo(g, j) + g[j + 1]
    BY SumRec
  <2>4. SumTo(f, k) \in Nat /\ SumTo(g, j) \in Nat
    BY SMT, <1>1, <1>2
  <2> QED
    BY SMT, <2>1, <2>2, <2>3, <2>4
<1> HIDE DEF S
<1>5. Nat \subseteq S
  BY <1>3, <1>4, SetInduction
<1>6. m \in Nat /\ k + m = n
  BY SMT
<1> QED
  BY SMT, <1>5, <1>6 DEF S

\* The sum of a function that has changed at o.
LEMMA SumChanged ==
    ASSUME NEW f, NEW g, NEW n \in Nat, NEW o \in 1 .. n,
           \A i \in 1 .. n : f[i] \in Nat /\ g[i] \in Nat,
           \A i \in 1 .. n : i # o => f[i] = g[i]
    PROVE  SumTo(g, n) = SumTo(f, n) - (f[o] - g[o])
<1> DEFINE S == {k \in Nat : k <= n =>
                   SumTo(g, k) = IF k < o THEN SumTo(f, k)
                                 ELSE SumTo(f, k) - (f[o] - g[o])}
<1>1. \A k \in 0 .. n : SumTo(f, k) \in Nat /\ SumTo(g, k) \in Nat
  BY SumNat
<1>2. 0 \in S
  BY SMT, SumRec
<1>3. ASSUME NEW k \in Nat, k \in S PROVE k + 1 \in S
  <2> SUFFICES ASSUME k + 1 <= n
               PROVE  SumTo(g, k + 1) = IF k + 1 < o THEN SumTo(f, k + 1)
                                        ELSE SumTo(f, k + 1) - (f[o] - g[o])
    BY SMT
  <2>1. /\ SumTo(f, k + 1) = SumTo(f, k) + f[k + 1]
        /\ SumTo(g, k + 1) = SumTo(g, k) + g[k + 1]
    BY SumRec
  <2>2. /\ SumTo(f, k) \in Nat /\ SumTo(g, k) \in Nat /\ k + 1 \in 1 .. n
        /\ SumTo(g, k) = IF k < o THEN SumTo(f, k)
                         ELSE SumTo(f, k) - (f[o] - g[o])
    BY SMT, <1>1, <1>3
  <2> QED
    BY SMT, <2>1, <2>2
<1> HIDE DEF S
<1>4. Nat \subseteq S
  BY <1>2, <1>3, SetInduction
<1> QED
  BY SMT, <1>4 DEF S

-----------------------------------------------------------------------------
(* The bytes of a queue.                                                   *)

LEMMA BytesNat ==
    ASSUME NEW q \in Seq(Nat)
    PROVE  Bytes(q) \in Nat
<1>1. /\ Len(q) \in Nat /\ Len(q) \in 0 .. Len(q)
      /\ \A i \in 1 .. Len(q) : q[i] \in Nat
  BY SMT
<1> QED
  BY <1>1, SumNat DEF Bytes

LEMMA BytesEmpty == Bytes(<<>>) = 0
BY SumRec DEF Bytes

LEMMA BytesAppend ==
    ASSUME NEW q \in Seq(Nat), NEW s \in Nat
    PROVE  Bytes(Append(q, s)) = Bytes(q) + s
<1> DEFINE p == Append(q, s)
           n == Len(q)
<1>1. n \in Nat /\ Len(p) = n + 1 /\ p[n + 1] = s /\ \A i \in 1 .. n : q[i] = p[i]
  BY SMT
<1> HIDE DEF p
<1>2. SumTo(p, n + 1) = SumTo(p, n) + s
  BY <1>1, SumRec
<1>3. SumTo(q, n) = SumTo(p, n)
  BY <1>1, SumSame
<1> QED
  BY <1>1, <1>2, <1>3 DEF Bytes, p

\* What is left of a queue has no more bytes than the queue.
LEMMA BytesLeft ==
    ASSUME NEW q \in Seq(Nat), NEW p \in Seq(Nat), NEW k \in 0 .. Len(q),
           Len(p) = Len(q) - k, \A j \in 1 .. Len(p) : p[j] = q[k + j]
    PROVE  Bytes(p) <= Bytes(q)
<1> DEFINE m == Len(p)
           n == Len(q)
<1>1. /\ k \in Nat /\ m \in Nat /\ n \in Nat /\ k <= n /\ m = n - k
      /\ \A i \in 1 .. k : q[i] \in Nat
      /\ \A i \in 1 .. m : p[i] \in Nat
      /\ k \in 0 .. k /\ m \in 0 .. m
      /\ Left(p, q, k, n)
  BY SMTT(30) DEF Left
<1> HIDE DEF m, n
<1>2. k \in Nat /\ n \in Nat /\ k <= n /\ Left(p, q, k, n)
  BY <1>1
<1>3. SumTo(q, n) = SumTo(q, k) + SumTo(p, n - k)
  BY ONLY <1>2, SumShift
<1>4. SumTo(q, k) \in Nat /\ SumTo(p, m) \in Nat
  BY <1>1, SumNat
<1> QED
  BY SMT, <1>1, <1>3, <1>4 DEF Bytes, m, n

-----------------------------------------------------------------------------
(* The cache: what each channel adds to it.                                *)

\* What channel o adds to the cache of n.
Held(ob, n) == [o \in Objs |-> IF ob[o].node = n THEN Bytes(ob[o].q) ELSE 0]

LEMMA HeldNat ==
    ASSUME NEW ob \in [Objs -> Channel], NEW n \in Nodes
    PROVE  /\ ObjMax \in Nat
           /\ \A o \in 1 .. ObjMax : Held(ob, n)[o] \in Nat
<1>1. ObjMax \in Nat /\ Sizes \cup {0} \subseteq Nat
  BY SMT, DataChannelsAssumption
<1>2. ASSUME NEW o \in Objs PROVE Bytes(ob[o].q) \in Nat
  <2>1. ob[o].q \in Seq(Nat)
    BY SMT, <1>1 DEF Channel
  <2> QED
    BY <2>1, BytesNat
<1> QED
  BY <1>1, <1>2 DEF Held, Objs

LEMMA CacheParts ==
    CacheAccounted <=> \A n \in Nodes : /\ cache[n] = SumTo(Held(obj, n), ObjMax)
                                        /\ cache[n] <= CacheMax
BY DEF CacheAccounted, Held

\* Nothing enters or leaves a queue.
LEMMA QueuesSame ==
    ASSUME obj \in [Objs -> Channel], CacheAccounted, UNCHANGED cache,
           \A o \in Objs : /\ obj'[o].q = obj[o].q
                           /\ obj'[o].node = obj[o].node \/ obj[o].q = <<>>
    PROVE  CacheAccounted'
<1>1. ASSUME NEW n \in Nodes PROVE Held(obj', n) = Held(obj, n)
  BY BytesEmpty DEF Held
<1> QED
  BY <1>1 DEF CacheAccounted, Held

\* One queue changes, and the cache with it.
LEMMA QueueChanged ==
    ASSUME obj \in [Objs -> Channel], DOMAIN cache = Nodes, CacheAccounted,
           NEW o \in Objs, NEW d \in Channel, obj' = [obj EXCEPT ![o] = d],
           d.node = obj[o].node,
           NEW b \in Int, b = Bytes(obj[o].q) - Bytes(d.q),
           cache' = [cache EXCEPT ![d.node] = @ - b],
           cache[d.node] - b <= CacheMax
    PROVE  CacheAccounted'
<1> SUFFICES ASSUME NEW n \in Nodes
             PROVE  /\ cache'[n] = SumTo(Held(obj', n), ObjMax)
                    /\ cache'[n] <= CacheMax
  BY DEF CacheAccounted, Held
<1>1. /\ obj' \in [Objs -> Channel]
      /\ \A p \in Objs : obj'[p] = IF p = o THEN d ELSE obj[p]
  BY SMT
<1>2. /\ ObjMax \in Nat /\ o \in 1 .. ObjMax
      /\ \A p \in 1 .. ObjMax : Held(obj, n)[p] \in Nat /\ Held(obj', n)[p] \in Nat
  <2>1. \A p \in 1 .. ObjMax : Held(obj', n)[p] \in Nat
    BY <1>1, HeldNat
  <2> QED
    BY <2>1, HeldNat DEF Objs
<1>3. cache[n] = SumTo(Held(obj, n), ObjMax) /\ cache[n] <= CacheMax
  BY CacheParts
<1>4. CASE n # d.node
  <2>1. Held(obj', n) = Held(obj, n) /\ cache'[n] = cache[n]
    BY <1>1, <1>4 DEF Held
  <2> QED
    BY <1>3, <2>1
<1>5. CASE n = d.node
  <2>1. /\ \A p \in 1 .. ObjMax : p # o => Held(obj, n)[p] = Held(obj', n)[p]
        /\ Held(obj, n)[o] = Bytes(obj[o].q) /\ Held(obj', n)[o] = Bytes(d.q)
    BY <1>1, <1>5 DEF Held, Objs
  <2>2. SumTo(Held(obj', n), ObjMax) =
            SumTo(Held(obj, n), ObjMax) - (Held(obj, n)[o] - Held(obj', n)[o])
    BY ONLY <1>2, <2>1, SumChanged
  <2> QED
    BY <1>3, <1>5, <2>1, <2>2
<1> QED
  BY <1>4, <1>5

-----------------------------------------------------------------------------
(* The table: which channels it leads to.                                  *)

\* To the table, d is what c was.
Alike(c, d) == /\ d.node = c.node /\ d.id = c.id /\ d.negotiated = c.negotiated
               /\ Live(c) <=> Live(d)
               /\ d.state = "none" => d = c

AckKept == \A n \in Nodes :
    /\ loop'[n].at = "ack" <=> loop[n].at = "ack"
    /\ loop[n].at = "ack" => loop'[n].o = loop[n].o

Forgets(n) == ended'[n] # "no" /\ \A i \in Ids : channels'[n][i] = None

Quiet == /\ \A o \in Objs : Alike(obj[o], obj'[o])
         /\ AckKept
         /\ \A n \in Nodes : channels'[n] = channels[n] \/ Forgets(n)
         /\ \A n \in Nodes : ended'[n] = "no" => ended[n] = "no"
         /\ next' = next

LEMMA PendingKept ==
    ASSUME AckKept, NEW o
    PROVE  Pending(o)' <=> Pending(o)
BY DEF AckKept, Pending

LEMMA TwinKept ==
    ASSUME \A p \in Objs : obj[p].negotiated =>
               /\ obj'[p].node = obj[p].node /\ obj'[p].id = obj[p].id
               /\ obj'[p].negotiated
    PROVE  \A n, i : Twin(obj, n, i) => Twin(obj', n, i)
BY DEF Twin

LEMMA QuietTable ==
    ASSUME IInv, Table, Quiet
    PROVE  Table'
<1>1. UnmadeYet'
  BY DEF Table, UnmadeYet, Quiet, Alike
<1>2. NextOwn'
  BY DEF Table, NextOwn, Quiet
<1>3. Answering'
  <2> SUFFICES ASSUME NEW n \in Nodes, loop'[n].at = "ack"
               PROVE  /\ ~Own(n, obj'[loop'[n].o].id)
                      /\ channels'[n][obj'[loop'[n].o].id] # None =>
                             obj'[channels'[n][obj'[loop'[n].o].id]].negotiated
    BY ZenonT(30) DEF Answering
  <2> DEFINE o == loop[n].o
  <2>1. /\ loop'[n].o = o /\ o \in Objs /\ obj'[o].id = obj[o].id
        /\ loop[n].at = "ack" /\ obj[o].id \in Ids
    BY DEF Quiet, AckKept, Alike, IInv, Core, AckPending, Channel
  <2>2. ~Own(n, obj[o].id)
    BY ZenonT(30), <2>1 DEF Table, Answering
  <2>3. ASSUME channels'[n][obj[o].id] # None
        PROVE  obj'[channels'[n][obj[o].id]].negotiated
    <3>1. channels'[n] = channels[n]
      BY <2>1, <2>3 DEF Quiet, Forgets
    <3>2. channels[n][obj[o].id] \in Objs
      BY SMT, <2>1, <2>3, <3>1 DEF IInv, Core
    <3> QED
      BY ZenonT(30), <2>1, <2>3, <3>1, <3>2 DEF Quiet, Alike, Table, Answering
  <2> QED
    BY ZenonT(30), <2>1, <2>2, <2>3
<1>4. Listed'
  <2> SUFFICES ASSUME NEW o \in Objs, Live(obj'[o]), ended'[obj'[o].node] = "no"
               PROVE  \/ channels'[obj'[o].node][obj'[o].id] = o
                      \/ Pending(o)'
                      \/ Twin(obj', obj'[o].node, obj'[o].id)
    BY DEF Listed
  <2> DEFINE n == obj[o].node
             i == obj[o].id
  <2>1. /\ obj'[o].node = n /\ obj'[o].id = i /\ Live(obj[o])
        /\ n \in Nodes /\ i \in Ids
    BY DEF Quiet, Alike, IInv, Core, Channel
  <2>2. ended[n] = "no" /\ channels'[n] = channels[n]
    BY <2>1 DEF Quiet, Forgets
  <2>3. channels[n][i] = o \/ Pending(o) \/ Twin(obj, n, i)
    BY <2>1, <2>2 DEF Table, Listed
  <2>4. Twin(obj, n, i) => Twin(obj', n, i)
    BY TwinKept DEF Quiet, Alike
  <2>5. Pending(o) => Pending(o)'
    BY PendingKept DEF Quiet
  <2> HIDE DEF n, i
  <2> QED
    BY <2>1, <2>2, <2>3, <2>4, <2>5
<1> QED
  BY <1>1, <1>2, <1>3, <1>4 DEF Table

\* A channel is registered under a free id, its own or a negotiated one.
LEMMA RegisteredTable ==
    ASSUME IInv, Table, NEW n \in Nodes, NEW o \in Objs, NEW i \in Ids, NEW d,
           obj[o].state = "none", obj' = [obj EXCEPT ![o] = d],
           d.node = n, d.id = i, d.state = "connecting", d.negotiated \/ Own(n, i),
           channels[n][i] = None, channels' = [channels EXCEPT ![n][i] = o],
           UNCHANGED <<loop, ended>>, NextOwn'
    PROVE  Table'
<1>1. UnmadeYet'
  BY DEF Table, UnmadeYet, IInv, Core
<1>2. /\ \A p \in Objs : p # o => obj'[p] = obj[p]
      /\ obj'[o] = d /\ ~obj[o].negotiated
  BY SMT DEF IInv, Core, Table, UnmadeYet, Unmade
<1>3. \A m \in Nodes, j \in Ids :
        channels'[m][j] = IF m = n /\ j = i THEN o ELSE channels[m][j]
  BY SMTT(30), TwoLevels DEF IInv, Core
<1>4. Answering'
  <2> SUFFICES ASSUME NEW m \in Nodes, loop[m].at = "ack"
               PROVE  /\ ~Own(m, obj'[loop[m].o].id)
                      /\ channels'[m][obj'[loop[m].o].id] # None =>
                             obj'[channels'[m][obj'[loop[m].o].id]].negotiated
    BY ZenonT(30) DEF Answering
  <2> DEFINE p == loop[m].o
             j == obj[p].id
  <2>1. p \in Objs /\ p # o /\ obj'[p] = obj[p] /\ j \in Ids
    BY <1>2 DEF IInv, Core, AckPending, Channel
  <2>2. ~Own(m, j) /\ (channels[m][j] # None => obj[channels[m][j]].negotiated)
    BY DEF Table, Answering
  <2>3. channels[m][j] \in Objs \cup {None}
    BY SMTT(30), <2>1 DEF IInv, Core
  <2>4. CASE m = n /\ j = i
    <3>1. channels'[m][j] = o /\ obj'[o].negotiated
      BY SMTT(30), <2>1, <2>2, <2>4, <1>2, <1>3
    <3> QED
      BY ZenonT(30), <2>1, <2>2, <3>1
  <2>5. CASE ~(m = n /\ j = i)
    <3>1. channels'[m][j] = channels[m][j]
      BY SMTT(30), <2>1, <2>5, <1>3
    <3>2. ASSUME channels[m][j] # None PROVE obj'[channels[m][j]].negotiated
      <4> DEFINE x == channels[m][j]
      <4>1. x \in Objs /\ obj[x].negotiated
        BY ZenonT(30), <2>2, <2>3, <3>2
      <4> HIDE DEF x
      <4> QED
        BY ZenonT(30), <4>1, <1>2 DEF x
    <3> QED
      BY ZenonT(30), <2>1, <2>2, <3>1, <3>2
  <2> QED
    BY ZenonT(30), <2>4, <2>5
<1>5. Listed'
  <2> SUFFICES ASSUME NEW p \in Objs, Live(obj'[p]), ended[obj'[p].node] = "no"
               PROVE  \/ channels'[obj'[p].node][obj'[p].id] = p
                      \/ Pending(p)'
                      \/ Twin(obj', obj'[p].node, obj'[p].id)
    BY ZenonT(30) DEF Listed
  <2>1. CASE p = o
    BY SMT, <2>1, <1>2, <1>3
  <2>2. CASE p # o
    <3>1. obj'[p] = obj[p] /\ obj[p].node \in Nodes /\ obj[p].id \in Ids
      BY <2>2, <1>2 DEF IInv, Core, Channel
    <3>2. \/ channels[obj[p].node][obj[p].id] = p
          \/ Pending(p)
          \/ Twin(obj, obj[p].node, obj[p].id)
      BY <3>1 DEF Table, Listed
    <3>3. \A m, j : Twin(obj, m, j) => Twin(obj', m, j)
      BY <1>2, TwinKept
    <3>4. Pending(p) => Pending(p)'
      BY DEF Pending
    <3>5. channels[obj[p].node][obj[p].id] = p => channels'[obj[p].node][obj[p].id] = p
      BY SMT, <3>1, <1>3, NoneApart
    <3> QED
      BY <3>1, <3>2, <3>3, <3>4, <3>5
  <2> QED
    BY <2>1, <2>2
<1> QED
  BY <1>1, <1>4, <1>5 DEF Table

\* handle_dcep() makes a channel under a free id of the other side.
LEMMA AskedTable ==
    ASSUME IInv, Table, NEW n \in Nodes, NEW o \in Objs, NEW i \in Ids, NEW d,
           obj[o].state = "none", obj' = [obj EXCEPT ![o] = d],
           d.node = n, d.id = i, d.state = "connecting", ~Own(n, i),
           channels[n][i] = None, loop[n].at # "ack",
           loop' = [loop EXCEPT ![n] = [Idle EXCEPT !.at = "ack", !.o = o]],
           UNCHANGED <<channels, ended, next>>
    PROVE  Table'
<1>1. UnmadeYet'
  BY DEF Table, UnmadeYet, IInv, Core
<1>2. /\ \A p \in Objs : p # o => obj'[p] = obj[p]
      /\ obj'[o] = d /\ ~obj[o].negotiated
  BY SMT DEF IInv, Core, Table, UnmadeYet, Unmade
<1>3. /\ loop'[n].at = "ack" /\ loop'[n].o = o
      /\ \A m \in Nodes : m # n => loop'[m] = loop[m]
  BY DEF IInv, Core, Idle
<1>4. Answering'
  <2> SUFFICES ASSUME NEW m \in Nodes, loop'[m].at = "ack"
               PROVE  /\ ~Own(m, obj'[loop'[m].o].id)
                      /\ channels[m][obj'[loop'[m].o].id] # None =>
                             obj'[channels[m][obj'[loop'[m].o].id]].negotiated
    BY ZenonT(30) DEF Answering
  <2>1. CASE m = n
    BY ZenonT(60), <2>1, <1>2, <1>3
  <2>2. CASE m # n
    <3> DEFINE p == loop[m].o
               j == obj[p].id
    <3>1. /\ loop'[m] = loop[m] /\ p \in Objs /\ p # o /\ obj'[p] = obj[p]
          /\ j \in Ids
      BY <2>2, <1>2, <1>3 DEF IInv, Core, AckPending, Channel
    <3>2. ~Own(m, j) /\ (channels[m][j] # None => obj[channels[m][j]].negotiated)
      BY <3>1 DEF Table, Answering
    <3>3. channels[m][j] \in Objs \cup {None}
      BY SMT, <3>1 DEF IInv, Core
    <3> QED
      BY ZenonT(30), <3>1, <3>2, <3>3, <1>2
  <2> QED
    BY ZenonT(30), <2>1, <2>2
<1>5. Listed'
  <2> SUFFICES ASSUME NEW p \in Objs, Live(obj'[p]), ended[obj'[p].node] = "no"
               PROVE  \/ channels[obj'[p].node][obj'[p].id] = p
                      \/ Pending(p)'
                      \/ Twin(obj', obj'[p].node, obj'[p].id)
    BY DEF Listed
  <2>1. CASE p = o
    BY <2>1, <1>3 DEF Pending
  <2>2. CASE p # o
    <3>1. obj'[p] = obj[p] /\ obj[p].node \in Nodes /\ obj[p].id \in Ids
      BY <2>2, <1>2 DEF IInv, Core, Channel
    <3>2. \/ channels[obj[p].node][obj[p].id] = p
          \/ Pending(p)
          \/ Twin(obj, obj[p].node, obj[p].id)
      BY <3>1 DEF Table, Listed
    <3>3. \A m, j : Twin(obj, m, j) => Twin(obj', m, j)
      BY ZenonT(30), <1>2, TwinKept
    <3>4. Pending(p) => Pending(p)'
      BY <1>3 DEF Pending
    <3> QED
      BY <3>1, <3>2, <3>3, <3>4
  <2> QED
    BY <2>1, <2>2
<1> QED
  BY <1>1, <1>4, <1>5 DEF Table, NextOwn

\* A live channel is destroyed: whatever else has its id is negotiated or shares
\* it with a negotiated one.
LEMMA DestroyedTable ==
    ASSUME IInv, Table, NEW o \in Objs, Live(obj[o]), NEW g,
           obj' = [obj EXCEPT ![o] = g], g.state = "gone", g.node = obj[o].node,
           g.id = obj[o].id, g.negotiated = obj[o].negotiated,
           channels' = [channels EXCEPT ![obj[o].node][obj[o].id] = None],
           LoopMoves,
           \A m \in Nodes : loop[m].at = "ack" /\ loop[m].o # o => loop'[m] = loop[m],
           \A m \in Nodes : loop'[m].at = "ack" => loop'[m].o # o,
           \A m \in Nodes : ended'[m] = "no" => ended[m] = "no", NextOwn'
    PROVE  Table'
<1> DEFINE n == obj[o].node
           i == obj[o].id
<1>1. UnmadeYet'
  BY DEF Table, UnmadeYet, IInv, Core
<1>2. /\ \A p \in Objs : p # o => obj'[p] = obj[p]
      /\ obj'[o] = g /\ n \in Nodes /\ i \in Ids
      /\ \A p \in Objs : obj'[p].negotiated = obj[p].negotiated
  BY DEF IInv, Core, Channel
<1>3. \A m \in Nodes, j \in Ids :
        channels'[m][j] = IF m = n /\ j = i THEN None ELSE channels[m][j]
  BY SMTT(30), <1>2, TwoLevels DEF IInv, Core
<1>4. Answering'
  <2> SUFFICES ASSUME NEW m \in Nodes, loop'[m].at = "ack"
               PROVE  /\ ~Own(m, obj'[loop'[m].o].id)
                      /\ channels'[m][obj'[loop'[m].o].id] # None =>
                             obj'[channels'[m][obj'[loop'[m].o].id]].negotiated
    BY DEF Answering
  <2> DEFINE p == loop[m].o
             j == obj[p].id
             x == channels[m][j]
  <2>1. loop[m].at = "ack" /\ loop'[m].o = p /\ p # o
    BY DEF LoopMoves
  <2>2. p \in Objs /\ j \in Ids /\ obj'[p] = obj[p]
    BY <2>1, <1>2 DEF IInv, Core, AckPending, Channel
  <2>3. x \in Objs \cup {None} /\ ~Own(m, j) /\ (x # None => obj[x].negotiated)
    BY ZenonT(30), <2>1, <2>2 DEF Table, Answering, IInv, Core
  <2>4. channels'[m][j] \in {x, None}
    BY SMTT(60), <2>2, <1>3
  <2> HIDE DEF x
  <2>5. channels'[m][j] # None => obj'[channels'[m][j]].negotiated
    BY ZenonT(30), <2>3, <2>4, <1>2
  <2> QED
    BY ZenonT(30), <2>1, <2>2, <2>3, <2>5
<1>5. Listed'
  <2> SUFFICES ASSUME NEW p \in Objs, Live(obj'[p]), ended'[obj'[p].node] = "no"
               PROVE  \/ channels'[obj'[p].node][obj'[p].id] = p
                      \/ Pending(p)'
                      \/ Twin(obj', obj'[p].node, obj'[p].id)
    BY ZenonT(30) DEF Listed
  <2> DEFINE m == obj[p].node
             j == obj[p].id
  <2>1. p # o /\ obj'[p] = obj[p] /\ m \in Nodes /\ j \in Ids /\ ended[m] = "no"
    BY <1>2 DEF IInv, Core, Channel, Live
  <2>2. channels[m][j] = p \/ Pending(p) \/ Twin(obj, m, j)
    BY <2>1 DEF Table, Listed
  <2>3. Twin(obj, m, j) => Twin(obj', m, j)
    <3>1. \A k \in Objs : obj[k].negotiated =>
             /\ obj'[k].node = obj[k].node /\ obj'[k].id = obj[k].id
             /\ obj'[k].negotiated
      BY ZenonT(60), <1>2
    <3> QED
      BY <3>1, TwinKept
  <2>4. Pending(p) => Pending(p)'
    BY <2>1 DEF Pending
  <2>5. ASSUME channels[m][j] = p, m = n, j = i PROVE Twin(obj, m, j)
    <3>1. CASE Pending(o)
      <4>1. PICK k \in Nodes : loop[k].at = "ack" /\ loop[k].o = o
        BY <3>1 DEF Pending
      <4>2. channels[k][i] # None => obj[channels[k][i]].negotiated
        BY ZenonT(30), <4>1 DEF Table, Answering
      <4>3. k = n /\ p # None
        BY <4>1, NoneApart DEF IInv, Core, AckPending
      <4> QED
        BY <2>5, <4>2, <4>3 DEF Twin
    <3>2. CASE ~Pending(o)
      <4>1. channels[n][i] = o \/ Twin(obj, n, i)
        BY <2>1, <2>5, <3>2 DEF Table, Listed
      <4> QED
        BY <2>1, <2>5, <4>1
    <3> QED
      BY <3>1, <3>2
  <2>6. channels[m][j] = p => channels'[m][j] = p \/ Twin(obj, m, j)
    BY SMTT(60), <2>1, <2>5, <1>3
  <2> QED
    BY <2>1, <2>2, <2>3, <2>4, <2>6
<1> QED
  BY <1>1, <1>4, <1>5 DEF Table

\* The answer has been sent: the channel takes the place of a negotiated one, or
\* a free one.
LEMMA AnsweredTable ==
    ASSUME IInv, Table, NEW n \in Nodes, loop[n].at = "ack", NEW h,
           obj' = [obj EXCEPT ![loop[n].o] = h], h.state = "open", h.node = n,
           h.id = obj[loop[n].o].id, h.negotiated = obj[loop[n].o].negotiated,
           channels' = [channels EXCEPT ![n][h.id] = loop[n].o],
           LoopMoves, loop'[n].at # "ack",
           \A m \in Nodes : m # n => loop'[m] = loop[m],
           UNCHANGED ended, NextOwn'
    PROVE  Table'
<1> DEFINE o == loop[n].o
           i == obj[o].id
<1>1. o \in Objs /\ obj[o].node = n /\ obj[o].state = "connecting" /\ i \in Ids
  BY DEF IInv, Core, AckPending, Channel
<1>2. /\ \A p \in Objs : p # o => obj'[p] = obj[p]
      /\ obj'[o] = h
      /\ \A p \in Objs : /\ obj'[p].negotiated = obj[p].negotiated
                         /\ obj'[p].node = obj[p].node /\ obj'[p].id = obj[p].id
  BY <1>1 DEF IInv, Core
<1>3. UnmadeYet'
  BY SMTT(30), <1>1, <1>2 DEF Table, UnmadeYet
<1>4. \A m \in Nodes, j \in Ids :
        channels'[m][j] = IF m = n /\ j = i THEN o ELSE channels[m][j]
  BY SMTT(30), <1>1, TwoLevels DEF IInv, Core
<1>5. channels[n][i] # None => obj[channels[n][i]].negotiated
  BY ZenonT(30) DEF Table, Answering
<1>6. Answering'
  <2> SUFFICES ASSUME NEW m \in Nodes, loop'[m].at = "ack"
               PROVE  /\ ~Own(m, obj'[loop'[m].o].id)
                      /\ channels'[m][obj'[loop'[m].o].id] # None =>
                             obj'[channels'[m][obj'[loop'[m].o].id]].negotiated
    BY DEF Answering
  <2> DEFINE p == loop[m].o
             j == obj[p].id
             x == channels[m][j]
  <2>1. m # n /\ loop[m].at = "ack" /\ loop'[m] = loop[m]
    BY DEF LoopMoves
  <2>2. p \in Objs /\ j \in Ids /\ obj'[p].id = j
    BY <2>1, <1>2 DEF IInv, Core, AckPending, Channel
  <2>3. x \in Objs \cup {None} /\ ~Own(m, j) /\ (x # None => obj[x].negotiated)
    BY ZenonT(30), <2>1, <2>2 DEF Table, Answering, IInv, Core
  <2>4. channels'[m][j] = x
    BY SMTT(30), <2>1, <2>2, <1>4
  <2> HIDE DEF x
  <2>5. x # None => obj'[x].negotiated
    BY <2>3, <1>2
  <2> QED
    BY ZenonT(30), <2>1, <2>2, <2>3, <2>4, <2>5
<1>7. Listed'
  <2> SUFFICES ASSUME NEW p \in Objs, Live(obj'[p]), ended[obj'[p].node] = "no"
               PROVE  \/ channels'[obj'[p].node][obj'[p].id] = p
                      \/ Pending(p)'
                      \/ Twin(obj', obj'[p].node, obj'[p].id)
    BY DEF Listed
  <2>1. CASE p = o
    <3>1. obj'[o].node = n /\ obj'[o].id = i /\ channels'[n][i] = o
      BY SMT, <1>1, <1>2, <1>4
    <3> QED
      BY <2>1, <3>1
  <2>2. CASE p # o
    <3> DEFINE m == obj[p].node
               j == obj[p].id
    <3>1. obj'[p] = obj[p] /\ m \in Nodes /\ j \in Ids
      BY <2>2, <1>2 DEF IInv, Core, Channel
    <3>2. channels[m][j] = p \/ Pending(p) \/ Twin(obj, m, j)
      BY <3>1 DEF Table, Listed
    <3>3. Twin(obj, m, j) => Twin(obj', m, j)
      <4>1. \A k \in Objs : obj[k].negotiated =>
               /\ obj'[k].node = obj[k].node /\ obj'[k].id = obj[k].id
               /\ obj'[k].negotiated
        BY SMT, <1>2
      <4> QED
        BY ZenonT(30), <4>1, TwinKept
    <3>4. Pending(p) => Pending(p)'
      BY <2>2 DEF Pending
    <3>5. ASSUME channels[m][j] = p, m = n, j = i PROVE Twin(obj, m, j)
      <4>1. obj[p].negotiated
        BY ZenonT(30), <3>5, <1>5, NoneApart
      <4> QED
        BY <4>1 DEF Twin
    <3>6. channels[m][j] = p => channels'[m][j] = p \/ Twin(obj, m, j)
      BY SMT, <3>1, <3>5, <1>4
    <3> QED
      BY <3>1, <3>2, <3>3, <3>4, <3>6
  <2> QED
    BY ZenonT(30), <2>1, <2>2
<1> QED
  BY <1>3, <1>6, <1>7 DEF Table

-----------------------------------------------------------------------------
(* The ids of the two sides.                                               *)

LEMMA Half ==
    ASSUME NEW x \in Nat, x % 2 = 0
    PROVE  \E k \in Nat : x = 2 * k
<1>1. x = 2 * (x \div 2) + (x % 2) /\ x \div 2 \in Nat
  BY SMTT(30)
<1>2. QED BY SMT, <1>1

\* The remainder by an even number keeps the parity.
LEMMA EvenModulus ==
    ASSUME NEW x \in Nat, NEW m \in Nat \ {0}, m % 2 = 0
    PROVE  (x % m) % 2 = x % 2
<1>1. PICK k \in Nat : m = 2 * k
  BY Half
<1> DEFINE q == x \div m
           r == x % m
<1>2. x = m * q + r /\ q \in Nat /\ r \in Nat
  BY SMTT(30)
<1> HIDE DEF q, r
<1> DEFINE p == k * q
<1>3. p \in Nat /\ m * q = 2 * p
  BY SMTT(30), <1>1, <1>2
<1> HIDE DEF p
<1>4. x % 2 = r % 2
  BY SMTT(30), <1>2, <1>3
<1>5. QED BY <1>4 DEF r

LEMMA Parity ==
    ASSUME NEW n \in Nodes, NEW i \in Ids
    PROVE  /\ Own(n, After(i)) <=> ~Own(n, i)
           /\ Own(n, (i + 2) % MaxStreams) <=> Own(n, i)
<1>1. /\ i \in Nat /\ MaxStreams \in Nat \ {0} /\ MaxStreams % 2 = 0
      /\ i + 2 \in Nat /\ IdMax \in Nat /\ IdMax % 2 = 1
  BY SMT, DataChannelsAssumption DEF Ids
<1>2. /\ (i + 1) % 2 = 0 <=> ~(i % 2 = 0)
      /\ (i + 2) % 2 = 0 <=> i % 2 = 0
  BY SMT, <1>1
<1>3. After(i) % 2 = 0 <=> ~(i % 2 = 0)
  BY SMT, <1>1, <1>2 DEF After
<1>4. ((i + 2) % MaxStreams) % 2 = (i + 2) % 2
  BY <1>1, EvenModulus
<1> QED
  BY <1>2, <1>3, <1>4 DEF Own

-----------------------------------------------------------------------------
(* The table and the cache together.                                       *)

LEMMA CacheNat ==
    ASSUME IInv, CacheAccounted, NEW n \in Nodes
    PROVE  cache[n] \in Nat /\ CacheMax \in Nat
<1>1. ObjMax \in Nat /\ \A o \in 1 .. ObjMax : Held(obj, n)[o] \in Nat
  BY HeldNat DEF IInv, Core
<1>2. ObjMax \in 0 .. ObjMax
  BY SMT, <1>1
<1>3. SumTo(Held(obj, n), ObjMax) \in Nat
  BY ONLY <1>1, <1>2, SumNat
<1> QED
  BY <1>3, CacheParts, DataChannelsAssumption

LEMMA QueueNat ==
    ASSUME NEW c \in Channel
    PROVE  c.q \in Seq(Nat) /\ Bytes(c.q) \in Nat
<1>1. Sizes \cup {0} \subseteq Nat
  BY SMT, DataChannelsAssumption
<1>2. c.q \in Seq(Nat)
  BY SMT, <1>1 DEF Channel
<1> QED
  BY <1>2, BytesNat

LEMMA QuietBooks ==
    ASSUME IInv, Books, Quiet, UNCHANGED cache, \A o \in Objs : obj'[o].q = obj[o].q
    PROVE  Books'
<1>1. Table'
  BY QuietTable DEF Books
<1>2. CacheAccounted'
  BY QueuesSame DEF Books, IInv, Core, Quiet, Alike
<1>3. PendingEmpty'
  BY SMT DEF Books, PendingEmpty, Quiet, AckKept, IInv, Core, AckPending
<1> QED
  BY <1>1, <1>2, <1>3 DEF Books

LEMMA OneAlike ==
    ASSUME obj \in [Objs -> Channel], NEW o \in Objs, NEW d, Alike(obj[o], d),
           obj' = [obj EXCEPT ![o] = d]
    PROVE  \A p \in Objs : Alike(obj[p], obj'[p])
BY DEF Alike

\* One channel changes, but not what is in its queue.
LEMMA QuietOne ==
    ASSUME IInv, Books, NEW o \in Objs, NEW d, Alike(obj[o], d), d.q = obj[o].q,
           obj' = [obj EXCEPT ![o] = d], AckKept,
           UNCHANGED <<channels, cache, ended, next>>
    PROVE  Books'
<1>1. \A p \in Objs : Alike(obj[p], obj'[p])
  BY OneAlike DEF IInv, Core
<1>2. \A p \in Objs : obj'[p].q = obj[p].q
  BY DEF IInv, Core
<1>3. Quiet
  BY <1>1 DEF Quiet
<1> QED
  BY <1>2, <1>3, QuietBooks

\* Nothing happens to the channels.
LEMMA QuietRest ==
    ASSUME IInv, Books, AckKept, UNCHANGED <<obj, channels, cache, ended, next>>
    PROVE  Books'
<1>1. Quiet
  BY DEF Quiet, Alike
<1> QED
  BY <1>1, QuietBooks

\* A channel whose queue is empty is made or destroyed.
LEMMA EmptyQueue ==
    ASSUME IInv, Books, NEW o \in Objs, NEW d, obj' = [obj EXCEPT ![o] = d],
           obj[o].q = <<>>, d.q = <<>>, UNCHANGED cache,
           \A n \in Nodes : loop'[n].at = "ack" =>
               \/ loop'[n].o = o
               \/ loop[n].at = "ack" /\ loop'[n].o = loop[n].o
    PROVE  CacheAccounted' /\ PendingEmpty'
<1>1. \A p \in Objs : /\ obj'[p].q = obj[p].q
                      /\ obj'[p].node = obj[p].node \/ obj[p].q = <<>>
  BY DEF IInv, Core
<1>2. CacheAccounted'
  BY <1>1, QueuesSame DEF Books, IInv, Core
<1>3. PendingEmpty'
  BY SMT, <1>1 DEF Books, PendingEmpty, IInv, Core, AckPending
<1> QED
  BY <1>2, <1>3

\* The queue of a channel changes, and the cache with it.
LEMMA ChangedBooks ==
    ASSUME IInv, Books, NEW o \in Objs, NEW d \in Channel, Alike(obj[o], d),
           obj' = [obj EXCEPT ![o] = d], AckKept,
           UNCHANGED <<channels, ended, next>>,
           NEW b \in Int, b = Bytes(obj[o].q) - Bytes(d.q),
           cache' = [cache EXCEPT ![d.node] = @ - b],
           cache[d.node] - b <= CacheMax,
           d.q = <<>> \/ ~Pending(o)
    PROVE  Books'
<1>1. Table'
  <2>1. \A p \in Objs : Alike(obj[p], obj'[p])
    BY OneAlike DEF IInv, Core
  <2> QED
    BY <2>1, QuietTable DEF Quiet, Books
<1>2. CacheAccounted'
  BY QueueChanged DEF Books, IInv, Core, Room, Alike
<1>3. PendingEmpty'
  BY SMT DEF Books, PendingEmpty, AckKept, Pending, IInv, Core, AckPending
<1> QED
  BY <1>1, <1>2, <1>3 DEF Books

LEMMA AckKeptIf ==
    ASSUME IInv, NEW n \in Nodes, NEW l, l.at # "ack", loop[n].at # "ack",
           loop' = loop \/ loop' = [loop EXCEPT ![n] = l]
    PROVE  AckKept
BY DEF IInv, Core, AckKept

\* A read() takes messages out of a queue.
LEMMA FreedBooks ==
    ASSUME IInv, Books, NEW o \in Objs, NEW d \in Channel, Alike(obj[o], d),
           obj' = [obj EXCEPT ![o] = d], Freed(obj[o].node, obj[o], d),
           Bytes(d.q) <= Bytes(obj[o].q), d.q = <<>> \/ ~Pending(o),
           UNCHANGED <<channels, ended, next>>
    PROVE  Books'
<1> DEFINE n == obj[o].node
           b == Bytes(obj[o].q) - Bytes(d.q)
<1>1. obj[o] \in Channel /\ n \in Nodes /\ d.node = n
  BY DEF IInv, Core, Channel, Alike
<1>2. CASE d.q = obj[o].q
  <2>1. UNCHANGED <<cache, loop>>
    BY <1>2 DEF Freed
  <2>2. AckKept
    BY <2>1 DEF AckKept
  <2> QED
    BY <1>2, <2>1, <2>2, QuietOne
<1>3. CASE d.q # obj[o].q
  <2>1. /\ cache' = [cache EXCEPT ![d.node] = @ - b]
        /\ loop' = IF loop[n].at = "full" THEN [loop EXCEPT ![n].at = "hop"] ELSE loop
    BY <1>1, <1>3 DEF Freed
  <2>2. AckKept
    BY <1>1, <2>1 DEF AckKept, IInv, Core, LoopAt
  <2>3. b \in Int /\ cache[n] - b <= CacheMax
    <3>1. Bytes(d.q) \in Nat /\ Bytes(obj[o].q) \in Nat
      BY <1>1, QueueNat
    <3>2. cache[n] \in Nat /\ CacheMax \in Nat /\ cache[n] <= CacheMax
      BY <1>1, CacheNat DEF Books, CacheAccounted
    <3> QED
      BY SMTT(30), <3>1, <3>2
  <2> HIDE DEF b, n
  <2> QED
    BY <1>1, <2>1, <2>2, <2>3, ChangedBooks DEF b
<1> QED
  BY <1>2, <1>3


-----------------------------------------------------------------------------
(* The application's calls.                                                *)

LEMMA AckSame == loop' = loop => AckKept
BY DEF AckKept

LEMMA CreateBooks ==
    ASSUME IInv, Books, NEW n \in Nodes, NEW o \in Objs, Create(n, o)
    PROVE  Books'
<1> DEFINE Chosen(i) ==
             /\ obj' = [obj EXCEPT ![o] = [Make(n, i) EXCEPT !.held = TRUE]]
             /\ channels' = [channels EXCEPT ![n][i] = o]
             /\ \/ next' = next
                \/ next' = [next EXCEPT ![n] = (i + 2) % MaxStreams]
<1>0. PICK i \in Allocable(n) : Chosen(i)
  BY DEF Create
<1> DEFINE d == [Make(n, i) EXCEPT !.held = TRUE]
<1>1. i \in Ids /\ Own(n, i) /\ channels[n][i] = None
  <2>1. CASE channels[n][next[n]] = None
    BY <1>0, <2>1 DEF Allocable, IInv, Traffic, Books, Table, NextOwn
  <2>2. CASE channels[n][next[n]] # None
    BY <1>0, <2>2 DEF Allocable, FreeIds
  <2> QED
    BY <2>1, <2>2
<1>2. /\ obj' = [obj EXCEPT ![o] = d] /\ channels' = [channels EXCEPT ![n][i] = o]
      /\ UNCHANGED <<loop, ended, cache>>
      /\ next' = next \/ next' = [next EXCEPT ![n] = (i + 2) % MaxStreams]
  BY <1>0 DEF Create
<1>3. d.node = n /\ d.id = i /\ d.state = "connecting" /\ d.q = <<>>
  BY DEF Make, Unmade
<1>4. obj[o].state = "none" /\ obj[o].q = <<>>
  BY FreshEmpty DEF Create
<1>5. NextOwn'
  <2> DEFINE x == (i + 2) % MaxStreams
  <2>1. Own(n, x)
    BY <1>1, Parity
  <2>2. next' = next \/ next' = [next EXCEPT ![n] = x]
    BY <1>2
  <2> HIDE DEF x
  <2> QED
    BY <2>1, <2>2 DEF Books, Table, NextOwn, IInv, Traffic
<1> HIDE DEF d
<1>6. Table'
  BY <1>1, <1>2, <1>3, <1>4, <1>5, RegisteredTable DEF Books
<1>7. CacheAccounted' /\ PendingEmpty'
  BY <1>2, <1>3, <1>4, EmptyQueue
<1> QED
  BY <1>6, <1>7 DEF Books

LEMMA CreateNegotiatedBooks ==
    ASSUME IInv, Books, NEW n \in Nodes, NEW o \in Objs, NEW i \in Ids,
           CreateNegotiated(n, o, i)
    PROVE  Books'
<1> DEFINE d == [Make(n, i) EXCEPT !.negotiated = TRUE, !.held = TRUE]
<1>1. /\ obj' = [obj EXCEPT ![o] = d] /\ channels' = [channels EXCEPT ![n][i] = o]
      /\ UNCHANGED <<loop, ended, cache>> /\ channels[n][i] = None
      /\ next' = [next EXCEPT ![n] = IF Own(n, After(i)) THEN After(i)
                                    ELSE After(After(i))]
  BY DEF CreateNegotiated
<1>2. /\ d.node = n /\ d.id = i /\ d.state = "connecting" /\ d.q = <<>>
      /\ d.negotiated
  BY DEF Make, Unmade
<1>3. obj[o].state = "none" /\ obj[o].q = <<>>
  BY FreshEmpty DEF CreateNegotiated
<1>4. NextOwn'
  <2> DEFINE x == IF Own(n, After(i)) THEN After(i) ELSE After(After(i))
  <2>1. Own(n, x)
    BY AfterId, Parity
  <2>2. next' = [next EXCEPT ![n] = x]
    BY <1>1
  <2> HIDE DEF x
  <2> QED
    BY <2>1, <2>2 DEF Books, Table, NextOwn, IInv, Traffic
<1> HIDE DEF d
<1>5. Table'
  BY <1>1, <1>2, <1>3, <1>4, RegisteredTable DEF Books
<1>6. CacheAccounted' /\ PendingEmpty'
  BY <1>1, <1>2, <1>3, EmptyQueue
<1> QED
  BY <1>5, <1>6 DEF Books

\* What read() leaves in the queue.
LEMMA ServeLeft ==
    ASSUME NEW c \in Channel, NEW m \in Nat
    PROVE  /\ Bytes(Serve(c, m).q) <= Bytes(c.q)
           /\ c.q = <<>> => Serve(c, m).q = <<>>
           /\ Serve(c, m).negotiated = c.negotiated
<1> DEFINE k == IF m < Len(c.q) THEN m ELSE Len(c.q)
           q == c.q
           r == SubSeq(q, k + 1, Len(q))
<1>1. q \in Seq(Nat) /\ Len(q) \in Nat /\ k \in 0 .. Len(q)
  BY SMT, QueueNat
<1>2. Serve(c, m).q = r /\ Serve(c, m).negotiated = c.negotiated
  BY DEF Serve, Channel
<1> HIDE DEF k, q
<1>3. /\ r \in Seq(Nat) /\ Len(r) = Len(q) - k
      /\ \A j \in 1 .. Len(r) : r[j] = q[k + j]
  <2>1. CASE k = Len(q)
    <3>1. r = <<>>
      BY SMT, <1>1, <2>1, SubSeqEmpty
    <3> QED
      BY SMT, <1>1, <2>1, <3>1
  <2>2. CASE k # Len(q)
    <3> DEFINE a == k + 1
               z == Len(q)
    <3>1. a \in Int /\ z \in Int /\ a <= z /\ \A j \in a .. z : q[j] \in Nat
      BY SMT, <1>1, <2>2
    <3> HIDE DEF a, z
    <3>2. /\ SubSeq(q, a, z) \in Seq(Nat)
          /\ Len(SubSeq(q, a, z)) = IF a <= z THEN z - a + 1 ELSE 0
          /\ \A j \in 1 .. z - a + 1 : SubSeq(q, a, z)[j] = q[a + j - 1]
      BY ONLY <3>1, SubSeqProperties
    <3>3. r \in Seq(Nat) /\ Len(r) = z - a + 1
      BY <3>1, <3>2 DEF a, z
    <3>4. \A j \in 1 .. Len(r) : r[j] = q[k + j]
      <4>1. r = SubSeq(q, a, z)
        BY DEF a, z
      <4>2. \A j \in 1 .. z - a + 1 : a + j - 1 = k + j
        BY SMT, <1>1 DEF a, z
      <4> HIDE DEF r
      <4> QED
        BY <3>2, <3>3, <4>1, <4>2
    <3>5. z - a + 1 = Len(q) - k
      BY SMT, <1>1 DEF a, z
    <3> HIDE DEF r
    <3> QED
      BY <3>3, <3>4, <3>5
  <2> QED
    BY <2>1, <2>2
<1> HIDE DEF r
<1>4. Bytes(r) <= Bytes(q)
  BY <1>1, <1>3, BytesLeft
<1>5. q = <<>> => r = <<>>
  BY SMT, <1>1, <1>3
<1> QED
  BY <1>2, <1>4, <1>5 DEF q

LEMMA ReadBooks ==
    ASSUME IInv, Books, NEW o \in Objs, Read(o)
    PROVE  Books'
<1> DEFINE c == obj[o]
           d == IF c.reader = "idle" THEN Serve(c, 1)
                ELSE [c EXCEPT !.readers = @ + 1]
<1>1. c \in Channel /\ Sound(c) /\ c.held
  BY DEF IInv, Core, Read, InHand
<1>2. d \in Channel /\ Alike(c, d) /\ Bytes(d.q) <= Bytes(c.q)
  <2>1. c.state \notin {"none", "gone"}
    BY <1>1 DEF Sound
  <2>2. CASE c.reader = "idle"
    <3>1. d = Serve(c, 1)
      BY <2>2
    <3> HIDE DEF c, d
    <3> QED
      BY <1>1, <2>1, <3>1, ServeLeft, ServeSound DEF Sound, Alike, Live
  <2>3. CASE c.reader # "idle"
    <3>1. d = [c EXCEPT !.readers = @ + 1]
      BY <2>3
    <3>2. Bytes(c.q) \in Nat
      BY <1>1, QueueNat
    <3> HIDE DEF c, d
    <3>3. d \in Channel /\ d.q = c.q /\ Alike(c, d)
      BY SMT, <1>1, <2>1, <3>1 DEF Channel, Alike, Live
    <3> QED
      BY SMT, <3>2, <3>3
  <2> QED
    BY <2>2, <2>3
<1>3. /\ obj' = [obj EXCEPT ![o] = d] /\ Freed(c.node, c, d)
      /\ UNCHANGED <<channels, ended, next>>
  BY DEF Read
<1>4. ~Pending(o)
  BY <1>1, NotPending DEF IInv
<1> HIDE DEF d
<1> QED
  BY ZenonT(30), <1>2, <1>3, <1>4, FreedBooks

LEMMA ReadTurnBooks ==
    ASSUME IInv, Books, NEW o \in Objs, ReadTurn(o)
    PROVE  Books'
<1> DEFINE c == obj[o]
           d == IF c.reader = "hop" THEN [c EXCEPT !.q = Tail(@)] ELSE c
           e == Serve(d, c.readers)
<1>1. /\ c \in Channel /\ Sound(c) /\ c.readers \in Nat
      /\ Bytes(c.q) \in Nat /\ c.q \in Seq(Nat)
  BY QueueNat DEF IInv, Core, Channel
<1>2. /\ obj' = [obj EXCEPT ![o] = e] /\ Freed(c.node, c, e)
      /\ UNCHANGED <<channels, ended, next>> /\ c.reader \in {"hop", "stop"}
  BY DEF ReadTurn
<1>3. /\ d \in Channel /\ Bytes(d.q) <= Bytes(c.q) /\ (c.q = <<>> => d.q = <<>>)
      /\ Alike(c, d) /\ d.closer = c.closer /\ d.state = c.state /\ d.held = c.held
  <2>1. CASE c.reader = "hop"
    <3>1. c.q \in Seq(Sizes \cup {0}) /\ c.q # <<>>
      BY <2>1, <1>1 DEF Sound, Channel
    <3>2. Tail(c.q) \in Seq(Sizes \cup {0}) /\ Tail(c.q) \in Seq(Nat)
      BY <1>1, <3>1, HeadTailProperties
    <3>3. Bytes(Tail(c.q)) <= Bytes(c.q)
      <4> DEFINE q == c.q
                 t == Tail(q)
      <4>1. /\ q \in Seq(Nat) /\ t \in Seq(Nat) /\ 1 \in 0 .. Len(q)
            /\ Len(t) = Len(q) - 1 /\ \A j \in 1 .. Len(t) : t[j] = q[1 + j]
        BY SMT, <1>1, <3>1, <3>2
      <4> HIDE DEF q, t
      <4> QED
        BY <4>1, BytesLeft DEF q, t
    <3>4. d = [c EXCEPT !.q = Tail(c.q)]
      BY <2>1
    <3>5. Sound(c) /\ c.state # "none"
      BY SMTT(30), <1>1, <2>1, <3>1 DEF Books, Table, UnmadeYet, Unmade
    <3> HIDE DEF c, d
    <3> QED
      BY <1>1, <3>1, <3>2, <3>3, <3>4, <3>5 DEF Channel, Alike, Live
  <2>2. CASE c.reader # "hop"
    <3>1. d = c
      BY <2>2
    <3> HIDE DEF c, d
    <3> QED
      BY SMT, <1>1, <3>1 DEF Alike
  <2> QED
    BY <2>1, <2>2
<1>4. c.state # "none"
  BY SMT, <1>2 DEF Books, Table, UnmadeYet, Unmade
<1> HIDE DEF d
<1>5. /\ e \in Channel /\ Alike(c, e) /\ Bytes(e.q) <= Bytes(c.q)
      /\ c.q = <<>> => e.q = <<>>
  <2>1. /\ Bytes(e.q) <= Bytes(d.q) /\ (d.q = <<>> => e.q = <<>>)
        /\ e.negotiated = d.negotiated
    BY <1>1, <1>3, ServeLeft
  <2>2. /\ e \in Channel /\ e.node = d.node /\ e.id = d.id /\ e.state = d.state
    <3>1. /\ d.closer = "wait" => d.state = "closing"
          /\ d.closer = "hop" => d.state = "closed"
          /\ d.held => d.state \notin {"none", "gone"}
      BY <1>1, <1>3 DEF Sound
    <3> QED
      BY <1>1, <1>3, <3>1, ServeSound
  <2>3. Bytes(e.q) \in Nat /\ Bytes(d.q) \in Nat
    BY <1>3, <2>2, QueueNat
  <2> HIDE DEF c, e
  <2>4. Bytes(e.q) <= Bytes(c.q)
    BY SMTT(30), <1>1, <1>3, <2>1, <2>3
  <2>5. Alike(c, e)
    BY <1>3, <1>4, <2>1, <2>2 DEF Alike, Live
  <2> QED
    BY <1>3, <2>1, <2>2, <2>4, <2>5
<1> HIDE DEF e
<1>6. e.q = <<>> \/ ~Pending(o)
  BY <1>5 DEF Pending, Books, PendingEmpty
<1> QED
  BY <1>2, <1>5, <1>6, FreedBooks

LEMMA RequestCloseBooks ==
    ASSUME IInv, Books, NEW o \in Objs, Live(obj[o]), NEW c, NEW w, NEW r,
           c = obj[o] \/ c = [obj[o] EXCEPT !.closer = "wait"],
           RequestClose(o, c, w, r), UNCHANGED <<channels, cache, ended, next, loop>>
    PROVE  Books'
<1> DEFINE d == IF obj[o].state \notin {"closing", "closed"}
                THEN [c EXCEPT !.state = "closing"] ELSE c
<1>1. obj' = [obj EXCEPT ![o] = d]
  BY DEF RequestClose
<1>2. Alike(obj[o], d) /\ d.q = obj[o].q
  BY SMT DEF IInv, Core, Channel, Alike, Live
<1> HIDE DEF d
<1> QED
  BY <1>1, <1>2, AckSame, QuietOne

LEMMA CloseBooks ==
    ASSUME IInv, Books, NEW o \in Objs, Close(o)
    PROVE  Books'
<1> DEFINE c == [obj[o] EXCEPT !.closer = "wait"]
<1>1. Live(obj[o]) /\ RequestClose(o, c, wire, resetting)
      /\ UNCHANGED <<channels, cache, ended, next, loop>>
  BY DEF Close, InHand, IInv, Core, Sound, Live
<1> HIDE DEF c
<1> QED
  BY <1>1, RequestCloseBooks DEF c

LEMMA ReleaseBooks ==
    ASSUME IInv, Books, NEW o \in Objs, Release(o)
    PROVE  Books'
<1> DEFINE c == obj[o]
           n == c.node
           g == Gone(c)
           b == Bytes(c.q) - Bytes(g.q)
<1>1. /\ c \in Channel /\ n \in Nodes /\ Live(c) /\ c.held
      /\ obj' = [obj EXCEPT ![o] = g]
      /\ channels' = [channels EXCEPT ![c.node][c.id] = None]
      /\ cache' = [cache EXCEPT ![n] = @ - Bytes(c.q)]
      /\ loop' = IF loop[n].at = "full" THEN [loop EXCEPT ![n].at = "hop"] ELSE loop
      /\ UNCHANGED <<ended, next>>
  BY DEF IInv, Core, Channel, Release, Destruct, Sound, Live
<1>2. ~Pending(o)
  BY <1>1, NotPending DEF IInv
<1>3. AckKept
  BY <1>1 DEF AckKept, IInv, Core, LoopAt
<1>4. /\ g \in Channel /\ g.state = "gone" /\ g.node = n /\ g.id = c.id
      /\ g.negotiated = c.negotiated /\ g.q = <<>>
  BY <1>1, GoneSound, GoneFields
<1>5. b \in Int /\ b = Bytes(c.q) /\ cache[n] - b <= CacheMax
  <2>1. Bytes(c.q) \in Nat /\ Bytes(g.q) = 0
    BY <1>1, <1>4, QueueNat, BytesEmpty
  <2>2. cache[n] \in Nat /\ CacheMax \in Nat /\ cache[n] <= CacheMax
    BY ZenonT(30), <1>1, CacheNat DEF Books, CacheAccounted
  <2> QED
    BY SMTT(30), <2>1, <2>2
<1> HIDE DEF g
<1>6. CacheAccounted'
  <2>1. cache' = [cache EXCEPT ![g.node] = @ - b]
    BY <1>1, <1>4, <1>5
  <2> HIDE DEF b, n
  <2> QED
    BY <1>1, <1>4, <1>5, <2>1, QueueChanged DEF Books, IInv, Core, Room, b, n
<1>7. PendingEmpty'
  BY SMTT(30), <1>1, <1>2, <1>3 DEF Books, PendingEmpty, AckKept, Pending, IInv, Core, AckPending
<1>8. Table'
  <2>1. LoopMoves
    <3> DEFINE v == cache[n] - Bytes(c.q)
    <3>1. cache' = [cache EXCEPT ![n] = v]
      BY <1>1 DEF IInv, Room
    <3> HIDE DEF v, n
    <3> QED
      BY <1>1, <3>1, LoopHops DEF IInv, n
  <2>2. \A m \in Nodes : loop[m].at = "ack" /\ loop[m].o # o => loop'[m] = loop[m]
    BY <1>1 DEF IInv, Core
  <2>3. \A m \in Nodes : loop'[m].at = "ack" => loop'[m].o # o
    BY <1>2, <1>3 DEF Pending, AckKept
  <2>4. NextOwn'
    BY <1>1 DEF Books, Table, NextOwn
  <2> QED
    BY ZenonT(30), <1>1, <1>4, <2>1, <2>2, <2>3, <2>4, DestroyedTable DEF Books
<1> QED
  BY <1>6, <1>7, <1>8 DEF Books

LEMMA SendStartBooks ==
    ASSUME IInv, Books,
           \/ \E o \in Objs, size \in Sizes : Send(o, size)
           \/ \E n \in Nodes : Start(n)
    PROVE  Books'
<1>1. AckKept
  <2>1. CASE \E o \in Objs, size \in Sizes : Send(o, size)
    BY <2>1, AckSame DEF Send
  <2>2. CASE \E n \in Nodes : Start(n)
    BY <2>2 DEF Start, AckKept, IInv, Core, LoopAt
  <2> QED
    BY <2>1, <2>2
<1>2. UNCHANGED <<obj, channels, cache, ended, next>>
  BY ZenonT(30) DEF Send, Start
<1> QED
  BY <1>1, <1>2, QuietRest

\* stop(), and the end of the association: the table forgets every channel.
LEMMA StopBooks ==
    ASSUME IInv, Books, NEW n \in Nodes, StopEffects(n), AckKept, ended'[n] # "no",
           \A m \in Nodes : ended'[m] = "no" => ended[m] = "no",
           UNCHANGED <<cache, next>>
    PROVE  Books'
<1>1. ASSUME NEW o \in Objs PROVE Alike(obj[o], obj'[o]) /\ obj'[o].q = obj[o].q
  <2>1. CASE \E i \in Ids : channels[n][i] = o
    <3>1. obj[o] \in Channel /\ Sound(obj[o]) /\ Live(obj[o])
      BY SMTT(30), <2>1, Constants DEF IInv, Core, EntriesLive, Live
    <3>2. obj'[o] = Closed(obj[o])
      BY <2>1 DEF StopEffects
    <3>3. Closed(obj[o]).negotiated = obj[o].negotiated
      BY <3>1 DEF Closed, Channel
    <3> QED
      BY SMTT(30), <3>1, <3>2, <3>3, ClosedSound DEF Alike, Live
  <2>2. CASE ~(\E i \in Ids : channels[n][i] = o)
    BY <2>2 DEF StopEffects, Alike
  <2> QED
    BY <2>1, <2>2
<1>2. \A m \in Nodes : channels'[m] = channels[m] \/ Forgets(m)
  BY DEF StopEffects, Forgets, IInv, Core
<1>3. Quiet
  BY <1>1, <1>2 DEF Quiet
<1> QED
  BY <1>1, <1>3, QuietBooks

LEMMA StopCallBooks ==
    ASSUME IInv, Books, NEW n \in Nodes, Stop(n) \/ LoopEnds(n)
    PROVE  Books'
<1>1. AckKept
  <2>1. CASE Stop(n)
    BY <2>1, AckSame DEF Stop
  <2>2. CASE LoopEnds(n)
    <3>1. /\ loop' = [loop EXCEPT ![n] = [Idle EXCEPT !.at = "done"]]
          /\ loop[n].at # "ack"
      BY <2>2 DEF LoopEnds
    <3> QED
      BY <3>1, DoneAt, AckKeptIf
  <2> QED
    BY <2>1, <2>2
<1>2. StopEffects(n) /\ UNCHANGED <<cache, next>>
  BY DEF Stop, LoopEnds
<1>3. ended'[n] # "no" /\ \A m \in Nodes : ended'[m] = "no" => ended[m] = "no"
  BY DEF Stop, LoopEnds, IInv, Traffic
<1> QED
  BY <1>1, <1>2, <1>3, StopBooks

LEMMA CloseTurnBooks ==
    ASSUME IInv, Books, NEW o \in Objs, CloseTurn(o)
    PROVE  Books'
<1> DEFINE d == [obj[o] EXCEPT !.closer = "idle"]
<1>1. /\ obj' = [obj EXCEPT ![o] = d] /\ obj[o].closer = "hop"
      /\ UNCHANGED <<channels, cache, ended, next, loop>>
  BY DEF CloseTurn, IInv, Core
<1>2. obj[o] \in Channel /\ obj[o].state # "none"
  BY <1>1 DEF IInv, Core, Sound
<1>3. Alike(obj[o], d) /\ d.q = obj[o].q
  BY <1>2 DEF Channel, Alike, Live
<1> HIDE DEF d
<1> QED
  BY <1>1, <1>3, AckSame, QuietOne

-----------------------------------------------------------------------------
(* read_loop().                                                            *)

LEMMA OnwardKeeps ==
    ASSUME IInv, NEW n \in Nodes, NEW rest, loop[n].at # "ack",
           loop' = [loop EXCEPT ![n] = Onward(n, rest)]
    PROVE  AckKept
BY ZenonT(30), OnwardAt, AckKeptIf

LEMMA AcceptBooks ==
    ASSUME IInv, Books, NEW n \in Nodes, NEW sid \in Ids,
           NEW size \in Sizes \cup {0}, loop[n].at # "ack",
           NEW rest, Accept(n, sid, size, rest), UNCHANGED <<channels, ended, next>>
    PROVE  Books'
<1> DEFINE o == channels[n][sid]
           l == [Idle EXCEPT !.at = "full", !.sid = sid, !.size = size]
           z == [Idle EXCEPT !.at = "done"]
<1>1. CASE cache[n] + size > CacheMax
  <2>1. /\ UNCHANGED <<obj, cache>>
        /\ \/ loop' = [loop EXCEPT ![n] = z]
           \/ loop' = [loop EXCEPT ![n] = l]
    BY <1>1 DEF Accept
  <2>2. l.at # "ack" /\ z.at # "ack"
    BY FullAt, DoneAt
  <2> HIDE DEF l, z
  <2>3. AckKept
    BY <2>1, <2>2, AckKeptIf
  <2> QED
    BY <2>1, <2>3, QuietRest
<1>2. CASE ~(cache[n] + size > CacheMax) /\ o = None
  <2>1. UNCHANGED <<obj, cache>> /\ loop' = [loop EXCEPT ![n] = Onward(n, rest)]
    BY <1>2 DEF Accept
  <2> QED
    BY <2>1, OnwardKeeps, QuietRest
<1>3. CASE ~(cache[n] + size > CacheMax) /\ o # None
  <2> DEFINE c == obj[o]
             d == Push(c, size)
             b == Bytes(c.q) - Bytes(d.q)
  <2>1. /\ obj' = [obj EXCEPT ![o] = d] /\ cache' = [cache EXCEPT ![n] = @ + size]
        /\ loop' = [loop EXCEPT ![n] = Onward(n, rest)]
    BY <1>3 DEF Accept, IInv, Core
  <2>2. /\ o \in Objs /\ c \in Channel /\ Sound(c) /\ c.node = n /\ Live(c)
    <3>1. EntriesLive /\ channels \in [Nodes -> [Ids -> Objs \cup {None}]]
      BY DEF IInv, Core
    <3>2. o \in Objs
      BY <1>3, <3>1
    <3>3. c.node = n /\ Live(c)
      BY <1>3, <3>1 DEF EntriesLive, Live
    <3>4. c \in Channel /\ Sound(c)
      BY <3>2 DEF IInv, Core
    <3> QED
      BY <3>2, <3>3, <3>4
  <2>3. ~Pending(o)
    BY <2>2, NotPending DEF IInv
  <2> HIDE DEF o
  <2>4. /\ d \in Channel /\ d.node = n /\ Alike(c, d) /\ d.q = Append(c.q, size)
    <3>1. d.negotiated = c.negotiated /\ d.q = Append(c.q, size)
      BY <2>2 DEF Push, Channel
    <3> QED
      BY ZenonT(30), <2>2, <3>1, PushSound DEF Alike, Live
  <2> HIDE DEF c, d
  <2>5. size \in Nat /\ c.q \in Seq(Nat) /\ Bytes(c.q) \in Nat /\ Bytes(d.q) \in Nat
    <3>1. size \in Nat
      BY SMT, DataChannelsAssumption
    <3>2. /\ c.q \in Seq(Nat) /\ Bytes(c.q) \in Nat
      BY <2>2, QueueNat
    <3>3. Bytes(d.q) \in Nat
      BY <2>4, QueueNat
    <3> QED
      BY ZenonT(30), <3>1, <3>2, <3>3
  <2>6. Bytes(d.q) = Bytes(c.q) + size
    BY <2>4, <2>5, BytesAppend
  <2>7. cache[n] \in Nat /\ CacheMax \in Nat
    BY CacheNat DEF Books
  <2>8. b \in Int /\ b = 0 - size /\ cache[n] - b <= CacheMax
    BY SMTT(30), <1>3, <2>5, <2>6, <2>7
  <2>9. cache' = [cache EXCEPT ![d.node] = @ - b]
    <3>1. cache[n] + size = cache[n] - b
      BY SMT, <2>5, <2>7, <2>8
    <3> HIDE DEF b
    <3> QED
      BY ZenonT(30), <2>1, <2>4, <3>1
  <2>10. AckKept
    BY <2>1, OnwardKeeps
  <2> HIDE DEF b
  <2> QED
    BY <2>1, <2>2, <2>3, <2>4, <2>8, <2>9, <2>10, ChangedBooks DEF b, c
<1> QED
  BY <1>1, <1>2, <1>3

LEMMA LoopDataBooks ==
    ASSUME IInv, Books, NEW n \in Nodes, LoopData(n)
    PROVE  Books'
<1>1. /\ Received(n).sid \in Ids /\ Received(n).size \in Sizes \cup {0}
  BY InboxTail DEF IInv, LoopData
<1>2. UNCHANGED <<channels, ended, next>> /\ loop[n].at # "ack"
  BY DEF LoopData
<1>3. CASE Accept(n, Received(n).sid, Received(n).size, Tail(inbox[n]))
  BY <1>1, <1>2, <1>3, AcceptBooks
<1>4. CASE /\ UNCHANGED <<obj, cache>>
           /\ loop' = [loop EXCEPT ![n] = Onward(n, Tail(inbox[n]))]
  BY <1>2, <1>4, OnwardKeeps, QuietRest
<1> QED
  BY <1>3, <1>4 DEF LoopData

LEMMA LoopTurnBooks ==
    ASSUME IInv, Books, NEW n \in Nodes, LoopTurn(n)
    PROVE  Books'
<1>1. /\ loop[n].sid \in Ids /\ loop[n].size \in Sizes \cup {0}
      /\ loop[n].at # "ack" /\ Accept(n, loop[n].sid, loop[n].size, inbox[n])
      /\ UNCHANGED <<channels, ended, next>>
  BY DEF IInv, Core, LoopAt, LoopTurn
<1> QED
  BY <1>1, AcceptBooks

LEMMA LoopOpenBooks ==
    ASSUME IInv, Books, NEW n \in Nodes, NEW o \in Objs, LoopOpen(n, o)
    PROVE  Books'
<1> DEFINE i == Received(n).sid
           d == Make(n, i)
<1>1. i \in Ids
  BY InboxTail DEF IInv, LoopOpen
<1>2. CASE i < MaxStreams /\ ~Own(n, i) /\ channels[n][i] = None
  <2>1. /\ obj' = [obj EXCEPT ![o] = d] /\ UNCHANGED <<channels, cache, ended, next>>
        /\ loop' = [loop EXCEPT ![n] = [Idle EXCEPT !.at = "ack", !.o = o]]
        /\ loop[n].at # "ack"
    BY <1>2 DEF LoopOpen
  <2>2. obj[o].state = "none" /\ obj[o].q = <<>>
    BY FreshEmpty DEF LoopOpen
  <2> HIDE DEF i
  <2>3. d.node = n /\ d.id = i /\ d.state = "connecting" /\ d.q = <<>>
    BY DEF Make, Unmade
  <2> HIDE DEF d
  <2>4. Table'
    BY <1>1, <1>2, <2>1, <2>2, <2>3, AskedTable DEF Books
  <2>5. \A m \in Nodes : loop'[m].at = "ack" =>
           loop'[m].o = o \/ (loop[m].at = "ack" /\ loop'[m].o = loop[m].o)
    BY <2>1 DEF IInv, Core, Idle
  <2>6. CacheAccounted' /\ PendingEmpty'
    BY ZenonT(30), <2>1, <2>2, <2>3, <2>5, EmptyQueue
  <2> QED
    BY SMT, <2>4, <2>6 DEF Books
<1>3. CASE ~(i < MaxStreams /\ ~Own(n, i) /\ channels[n][i] = None)
  <2>1. /\ UNCHANGED <<obj, channels, cache, ended, next>> /\ loop[n].at # "ack"
        /\ loop' = [loop EXCEPT ![n] = Onward(n, Tail(inbox[n]))]
    BY <1>3 DEF LoopOpen
  <2> QED
    BY <2>1, OnwardKeeps, QuietRest
<1> QED
  BY <1>2, <1>3

LEMMA LoopAckBooks ==
    ASSUME IInv, Books, NEW n \in Nodes, LoopAck(n)
    PROVE  Books'
<1> DEFINE i == Received(n).sid
           o == channels[n][i]
           d == [obj[o] EXCEPT !.state = "open", !.opened = TRUE]
<1>1. i \in Ids
  BY ZenonT(30), InboxTail DEF IInv, LoopAck
<1>2. UNCHANGED <<channels, cache, ended, next>> /\ AckKept
  BY OnwardKeeps DEF LoopAck
<1>3. CASE obj' = obj
  BY <1>2, <1>3, QuietRest
<1>4. CASE o # None /\ obj[o].state = "connecting" /\ obj' # obj
  <2>1. o \in Objs /\ obj[o] \in Channel
    BY <1>4, <1>1 DEF IInv, Core
  <2>2. obj' = [obj EXCEPT ![o] = d]
    BY <1>4, <2>1 DEF LoopAck, IInv, Core
  <2> HIDE DEF o, i
  <2>3. Alike(obj[o], d) /\ d.q = obj[o].q
    BY <1>4, <2>1 DEF Channel, Alike, Live
  <2> HIDE DEF d
  <2> QED
    BY ZenonT(30), <1>2, <2>1, <2>2, <2>3, QuietOne
<1> QED
  BY <1>3, <1>4 DEF LoopAck

\* The channel whose open was being answered is given up.
LEMMA GivenUpBooks ==
    ASSUME IInv, Books, NEW n \in Nodes, loop[n].at = "ack",
           Destruct(loop[n].o, obj[loop[n].o], channels),
           NEW l \in LoopAt, l.at \notin {"ack", "full"},
           loop' = [loop EXCEPT ![n] = l],
           \A m \in Nodes : ended'[m] = "no" => ended[m] = "no",
           UNCHANGED <<cache, next>>
    PROVE  Books'
<1> DEFINE o == loop[n].o
           g == Gone(obj[o])
<1>1. /\ o \in Objs /\ obj[o].state = "connecting" /\ Live(obj[o])
      /\ \A m \in Nodes : loop[m].at = "ack" /\ loop[m].o = o => m = n
  BY SMTT(30) DEF IInv, Core, AckPending, Live
<1>2. /\ obj' = [obj EXCEPT ![o] = g]
      /\ channels' = [channels EXCEPT ![obj[o].node][obj[o].id] = None]
  BY DEF Destruct
<1>3. /\ g.state = "gone" /\ g.node = obj[o].node /\ g.id = obj[o].id
      /\ g.negotiated = obj[o].negotiated /\ g.q = <<>>
  BY ZenonT(30), GoneFields
<1>4. LoopMoves
  BY ZenonT(30), LoopTo DEF IInv
<1>5. \A m \in Nodes : loop'[m] = IF m = n THEN l ELSE loop[m]
  BY DEF IInv, Core
<1>6. NextOwn'
  BY ZenonT(30) DEF Books, Table, NextOwn
<1>7. obj[o].q = <<>>
  BY DEF Books, PendingEmpty
<1> HIDE DEF o, g
<1>8. Table'
  <2>1. \A m \in Nodes : loop[m].at = "ack" /\ loop[m].o # o => loop'[m] = loop[m]
    BY <1>5 DEF o
  <2>2. \A m \in Nodes : loop'[m].at = "ack" => loop'[m].o # o
    BY <1>1, <1>5
  <2> QED
    BY ZenonT(30), <1>1, <1>2, <1>3, <1>4, <1>6, <2>1, <2>2, DestroyedTable DEF Books
<1>9. CacheAccounted' /\ PendingEmpty'
  <2>1. \A m \in Nodes : loop'[m].at = "ack" =>
           loop'[m].o = o \/ (loop[m].at = "ack" /\ loop'[m].o = loop[m].o)
    BY <1>4 DEF LoopMoves
  <2> QED
    BY ZenonT(30), <1>1, <1>2, <1>3, <1>7, <2>1, EmptyQueue
<1> QED
  BY <1>8, <1>9 DEF Books

LEMMA StopTurnBooks ==
    ASSUME IInv, Books, NEW n \in Nodes, StopTurn(n)
    PROVE  Books'
<1> DEFINE l == [Idle EXCEPT !.at = "done"]
<1>1. l \in LoopAt /\ l.at = "done"
  BY DoneAt
<1>2. \A m \in Nodes : ended'[m] = "no" => ended[m] = "no"
  BY DEF StopTurn, IInv, Traffic
<1>3. UNCHANGED <<cache, next>>
  BY DEF StopTurn
<1>4. CASE loop[n].at = "ack"
  <2>1. /\ loop' = [loop EXCEPT ![n] = l]
        /\ Destruct(loop[n].o, obj[loop[n].o], channels)
    BY <1>4 DEF StopTurn
  <2> HIDE DEF l
  <2> QED
    BY ZenonT(30), <1>1, <1>2, <1>3, <1>4, <2>1, GivenUpBooks
<1>5. CASE loop[n].at # "ack"
  <2>1. /\ UNCHANGED <<obj, channels>>
        /\ loop' = loop \/ loop' = [loop EXCEPT ![n] = l]
    BY <1>5 DEF StopTurn
  <2> HIDE DEF l
  <2>2. AckKept
    BY <1>1, <1>5, <2>1, AckKeptIf
  <2>3. Quiet
    BY <1>2, <1>3, <2>1, <2>2 DEF Quiet, Alike
  <2> QED
    BY <1>3, <2>1, <2>3, QuietBooks
<1> QED
  BY <1>4, <1>5

-----------------------------------------------------------------------------
(* What the association tells.                                             *)

LEMMA AckFailsBooks ==
    ASSUME IInv, Books, NEW n \in Nodes, AckFails(n)
    PROVE  Books'
<1>1. /\ loop[n].at = "ack" /\ loop' = [loop EXCEPT ![n] = Onward(n, inbox[n])]
      /\ Destruct(loop[n].o, obj[loop[n].o], channels)
      /\ UNCHANGED <<cache, next, ended>>
  BY DEF AckFails
<1> QED
  BY <1>1, OnwardAt, GivenUpBooks

LEMMA AckSentBooks ==
    ASSUME IInv, Books, NEW n \in Nodes, AckSent(n)
    PROVE  Books'
<1> DEFINE o == loop[n].o
           c == [obj[o] EXCEPT !.state = "open", !.opened = TRUE]
           i == c.id
           h == [c EXCEPT !.held = TRUE]
           g == Gone(c)
<1>1. /\ loop[n].at = "ack" /\ loop' = [loop EXCEPT ![n] = Onward(n, inbox[n])]
      /\ next' = [next EXCEPT ![n] = After(i)] /\ UNCHANGED <<cache, ended>>
  BY DEF AckSent
<1>2. /\ o \in Objs /\ obj[o] \in Channel /\ obj[o].state = "connecting"
      /\ obj[o].node = n /\ obj[o].q = <<>>
      /\ \A m \in Nodes : loop[m].at = "ack" /\ loop[m].o = o => m = n
  BY SMT, <1>1 DEF IInv, Core, AckPending, Books, PendingEmpty
<1>3. /\ c.id = obj[o].id /\ c.node = n /\ c.negotiated = obj[o].negotiated
      /\ h.state = "open" /\ h.node = n /\ h.id = i /\ h.q = <<>>
      /\ h.negotiated = obj[o].negotiated
  BY <1>2 DEF Channel
<1>4. /\ g.state = "gone" /\ g.node = c.node /\ g.id = i
      /\ g.negotiated = c.negotiated /\ g.q = <<>>
  BY GoneFields
<1>5. i \in Ids /\ ~Own(n, i)
  BY ZenonT(30), <1>1, <1>2, <1>3 DEF Books, Table, Answering, Channel
<1>6. LoopMoves /\ \A m \in Nodes : loop'[m] = IF m = n THEN Onward(n, inbox[n]) ELSE loop[m]
  BY ZenonT(30), <1>1, OnwardAt, LoopTo DEF IInv, Core
<1>7. loop'[n].at # "ack"
  BY <1>6, OnwardAt
<1> HIDE DEF i
<1>8. NextOwn'
  BY SMTT(30), <1>1, <1>5, Parity DEF Books, Table, NextOwn, IInv, Traffic
<1>9. \A m \in Nodes : loop'[m].at = "ack" =>
         loop'[m].o = o \/ (loop[m].at = "ack" /\ loop'[m].o = loop[m].o)
  BY <1>6 DEF LoopMoves
<1>10. CASE plan.accepts /\ ended[n] = "no"
  <2>1. /\ obj' = [obj EXCEPT ![o] = h]
        /\ channels' = [channels EXCEPT ![n][i] = o]
    BY ZenonT(30), <1>10 DEF AckSent, i
  <2> HIDE DEF c, h, g
  <2>2. Table'
    <3>1. /\ h.state = "open" /\ h.node = n /\ h.id = obj[o].id
          /\ h.negotiated = obj[o].negotiated
          /\ channels' = [channels EXCEPT ![n][h.id] = o]
      BY <1>3, <2>1 DEF i
    <3>2. \A m \in Nodes : m # n => loop'[m] = loop[m]
      BY <1>6
    <3> QED
      BY <1>1, <1>6, <1>7, <1>8, <2>1, <3>1, <3>2, AnsweredTable DEF Books
  <2>3. CacheAccounted' /\ PendingEmpty'
    BY ZenonT(30), <1>1, <1>2, <1>3, <1>9, <2>1, EmptyQueue
  <2> QED
    BY <2>2, <2>3 DEF Books
<1>11. CASE ~(plan.accepts /\ ended[n] = "no")
  <2> DEFINE chs == [channels EXCEPT ![n][i] = o]
  <2>1. obj' = [obj EXCEPT ![o] = g] /\ channels' = [chs EXCEPT ![n][i] = None]
    BY ZenonT(30), <1>11 DEF AckSent, i
  <2>2. channels' = [channels EXCEPT ![n][i] = None]
    BY ZenonT(30), <2>1, <1>5 DEF IInv, Core
  <2> HIDE DEF c, g
  <2>3. Table'
    <3>1. Live(obj[o])
      BY <1>2 DEF Live
    <3>2. \A m \in Nodes : loop[m].at = "ack" /\ loop[m].o # o => loop'[m] = loop[m]
      BY <1>6
    <3>3. \A m \in Nodes : loop'[m].at = "ack" => loop'[m].o # o
      BY <1>2, <1>6, <1>7
    <3>4. /\ g.node = obj[o].node /\ g.id = obj[o].id
          /\ g.negotiated = obj[o].negotiated
          /\ channels' = [channels EXCEPT ![obj[o].node][obj[o].id] = None]
      BY <1>2, <1>3, <1>4, <2>2 DEF i
    <3> QED
      BY ZenonT(30), <1>1, <1>2, <1>4, <1>6, <1>8, <2>1, <3>1, <3>2, <3>3, <3>4,
         DestroyedTable DEF Books
  <2>4. CacheAccounted' /\ PendingEmpty'
    BY ZenonT(30), <1>1, <1>2, <1>4, <1>9, <2>1, EmptyQueue
  <2> QED
    BY SMT, <2>3, <2>4 DEF Books
<1> QED
  BY <1>10, <1>11

LEMMA IncomingResetBooks ==
    ASSUME IInv, Books, NEW n \in Nodes, NEW i \in Ids, IncomingReset(n, i)
    PROVE  Books'
<1> DEFINE o == Found(n, i)
           w == [wire EXCEPT ![Peer(n)][i] = Tail(@)]
           r == [resetting EXCEPT ![Peer(n)][i] = "answered"]
<1>1. UNCHANGED <<channels, cache, ended, next, loop>>
  BY DEF IncomingReset
<1>2. (o # None /\ RequestClose(o, obj[o], w, r)) \/ UNCHANGED obj
  BY DEF IncomingReset
<1> HIDE DEF w, r
<1>3. CASE o # None /\ RequestClose(o, obj[o], w, r)
  <2>1. o \in Objs /\ Live(obj[o])
    BY <1>3, FoundChannel DEF Live
  <2> HIDE DEF o
  <2> QED
    BY <1>1, <1>3, <2>1, RequestCloseBooks
<1>4. CASE UNCHANGED obj
  BY <1>1, <1>4, AckSame, QuietRest
<1> QED
  BY <1>2, <1>3, <1>4

LEMMA OutgoingResetBooks ==
    ASSUME IInv, Books, NEW n \in Nodes, NEW i \in Ids, OutgoingReset(n, i)
    PROVE  Books'
<1> DEFINE o == Found(n, i)
           d == Closed(obj[o])
<1>1. UNCHANGED <<channels, cache, ended, next, loop>>
  BY DEF OutgoingReset
<1>2. CASE o # None
  <2>1. o \in Objs /\ Live(obj[o])
    BY <1>2, FoundChannel DEF Live
  <2>2. obj' = [obj EXCEPT ![o] = d]
    BY <1>2, <2>1 DEF OutgoingReset, IInv, Core
  <2> HIDE DEF o
  <2>3. obj[o] \in Channel /\ Sound(obj[o])
    BY <2>1 DEF IInv, Core
  <2>4. d.negotiated = obj[o].negotiated
    BY <2>3 DEF Closed, Channel
  <2>5. Alike(obj[o], d) /\ d.q = obj[o].q
    BY <2>1, <2>3, <2>4, ClosedSound DEF Alike, Live
  <2> HIDE DEF d
  <2> QED
    BY ZenonT(30), <1>1, <2>1, <2>2, <2>5, AckSame, QuietOne
<1>3. CASE o = None
  <2>1. UNCHANGED obj
    BY <1>3 DEF OutgoingReset
  <2> QED
    BY <1>1, <2>1, AckSame, QuietRest
<1> QED
  BY <1>2, <1>3

\* The association moves messages about.
LEMMA TrafficBooks ==
    ASSUME IInv, Books,
           \/ \E n \in Nodes : SendEnds(n) \/ Down(n)
           \/ \E n \in Nodes, i \in Ids : Transmit(n, i) \/ Deliver(n, i) \/ DenyReset(n, i)
           \/ UNCHANGED vars
    PROVE  Books'
<1>1. UNCHANGED <<obj, channels, cache, ended, next, loop>>
  BY ZenonT(30) DEF SendEnds, Down, Transmit, Deliver, DenyReset, vars
<1> QED
  BY <1>1, AckSame, QuietRest

-----------------------------------------------------------------------------
(* The managers.                                                           *)

LEMMA InitBooks == Init => Books
<1> SUFFICES ASSUME Init PROVE Books
  BY SMT
<1>1. obj = [o \in Objs |-> Unmade] /\ \A n \in Nodes : loop[n].at = "idle"
  BY DEF Init, Idle
<1>2. PendingEmpty
  BY <1>1 DEF PendingEmpty
<1>3. Table
  <2>1. UnmadeYet /\ Answering
    BY <1>1 DEF UnmadeYet, Answering
  <2>2. NextOwn
    BY SMTT(30) DEF Init, NextOwn, Own, Nodes
  <2>3. Listed
    BY <1>1 DEF Listed, Live, Unmade
  <2> QED
    BY <2>1, <2>2, <2>3 DEF Table
<1>4. CacheAccounted
  <2> SUFFICES ASSUME NEW n \in Nodes
               PROVE  /\ cache[n] = SumTo(Held(obj, n), ObjMax)
                      /\ cache[n] <= CacheMax
    BY CacheParts
  <2> DEFINE f == [k \in Objs |-> 0]
  <2>1. Held(obj, n) = f
    BY <1>1, BytesEmpty DEF Held, Unmade
  <2>2. SumTo(f, ObjMax) = 0
    <3> DEFINE S == {k \in Nat : k <= ObjMax => SumTo(f, k) = 0}
    <3>1. 0 \in S
      BY SumRec
    <3>2. ASSUME NEW k \in Nat, k \in S PROVE k + 1 \in S
      <4> SUFFICES ASSUME k + 1 <= ObjMax PROVE SumTo(f, k + 1) = 0
        BY SMT
      <4>1. SumTo(f, k) = 0 /\ f[k + 1] = 0
        BY SMT, <3>2, DataChannelsAssumption DEF Objs
      <4> HIDE DEF f
      <4>2. SumTo(f, k + 1) = SumTo(f, k) + f[k + 1]
        BY SumRec
      <4> QED
        BY SMT, <4>1, <4>2
    <3> HIDE DEF S
    <3>3. Nat \subseteq S
      BY <3>1, <3>2, SetInduction
    <3> HIDE DEF f
    <3> QED
      BY SMT, <3>3, DataChannelsAssumption DEF S
  <2>3. cache[n] = 0 /\ CacheMax \in Nat
    BY DataChannelsAssumption DEF Init
  <2> QED
    BY SMTT(30), <2>1, <2>2, <2>3
<1> QED
  BY <1>2, <1>3, <1>4 DEF Books

LEMMA NextBooks == IInv /\ Books /\ [Next]_vars => Books'
<1> SUFFICES ASSUME IInv, Books, [Next]_vars PROVE Books'
  BY SMT
<1>1. CASE ApplicationStep
  BY <1>1, SendStartBooks, StopCallBooks, CreateBooks, CreateNegotiatedBooks,
     ReadBooks, CloseBooks, ReleaseBooks DEF ApplicationStep
<1>2. CASE PostedStep
  BY <1>2, ReadTurnBooks, CloseTurnBooks, LoopTurnBooks, StopTurnBooks
     DEF PostedStep
<1>3. CASE LoopStep
  BY <1>3, LoopDataBooks, LoopAckBooks, StopCallBooks, LoopOpenBooks DEF LoopStep
<1>4. CASE SctpStep
  BY <1>4, TrafficBooks, AckSentBooks, AckFailsBooks, IncomingResetBooks,
     OutgoingResetBooks DEF SctpStep
<1>5. CASE (\E n \in Nodes : Down(n)) \/ UNCHANGED vars
  BY <1>5, TrafficBooks
<1> QED
  BY <1>1, <1>2, <1>3, <1>4, <1>5 DEF Next

\* What the managers record of their channels is true of them, in every state.
THEOREM BooksAlways == Spec => []Books
BY InitBooks, NextBooks, Inductive, PTL DEF Spec

\* _cache_bytes is the sum of the sizes of the messages that are queued in the
\* channels of its manager, however they are read, closed, stopped or destroyed,
\* and never exceeds max_cache_bytes().
THEOREM CacheAccountedAlways == Spec => []CacheAccounted
<1>1. Books => CacheAccounted
  BY DEF Books
<1> QED
  BY <1>1, BooksAlways, PTL

\* As long as its manager runs, a channel of the application that is not closed
\* is found under its id, unless that id was negotiated as well.
THEOREM ChannelsReachableAlways == Spec => []ChannelsReachable
<1>1. IInv /\ Books => ChannelsReachable
  <2> SUFFICES ASSUME IInv, Books, NEW o \in Objs, obj[o].held,
                      ended[obj[o].node] = "no"
               PROVE  \/ channels[obj[o].node][obj[o].id] = o
                      \/ Twin(obj, obj[o].node, obj[o].id)
    BY DEF ChannelsReachable, Twin
  <2>1. Live(obj[o])
    BY DEF IInv, Core, Sound, Live
  <2>2. ~Pending(o)
    BY NotPending DEF IInv
  <2> QED
    BY ZenonT(30), <2>1, <2>2 DEF Books, Table, Listed
<1> QED
  BY <1>1, BooksAlways, Inductive, PTL

-----------------------------------------------------------------------------
(* The two ends of a channel.                                              *)

\* A channel is open only with an end on the other side, which opened before it
\* if it was the one that answers: in every order of opens, answers, resets,
\* stops and ends of the association on the two sides, and however often an id
\* is used again.
THEOREM OpensPairedAlways == Spec => []OpensPaired
<1>1. IInv /\ Books /\ Paired /\ [Next]_vars => Paired'
  BY NextPaired
<1>2. Spec => []Paired
  BY InitPaired, <1>1, Inductive, BooksAlways, PTL DEF Spec
<1>3. Books /\ Paired => OpensPaired
  BY OpensPair DEF Paired
<1> QED
  BY <1>2, <1>3, BooksAlways, PTL
=============================================================================
