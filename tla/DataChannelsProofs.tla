------------------------- MODULE DataChannelsProofs -------------------------
(***************************************************************************)
(* What holds of the data channel managers for any number of channels,     *)
(* streams and messages, and whatever the applications do: no entry of     *)
(* _channels dangles, woken reads find a message, close() returns on a     *)
(* closed channel, read_loop() waits only for room, and no channel goes    *)
(* back to an earlier state.                                               *)
(*                                                                         *)
(* The invariants say little about one another, with one exception: that   *)
(* the channel handle_dcep() has made and not registered while it sends    *)
(* the answer is still there, untouched, when it registers it.             *)
(*                                                                         *)
(* The last part shows that a step of either side keeps the two ends of a  *)
(* channel paired.                                                         *)
(***************************************************************************)
EXTENDS DataChannelsInvariant, SequenceTheorems, WellFoundedInduction, TLAPS

\* The leaves that name no prover are Zenon's.
USE Zenon

-----------------------------------------------------------------------------
(* One channel.                                                            *)

LEMMA Constants ==
    /\ MaxStreams \in Nat \ {0}
    /\ Ids \subseteq Nat
    /\ \A i \in Nat : i < MaxStreams => i \in Ids
    /\ None \notin Objs
    /\ 0 \in Ids
BY SMTT(30), DataChannelsAssumption DEF Ids, None, Objs

LEMMA UnmadeSound == Unmade \in Channel /\ Sound(Unmade)
BY SMT, Constants DEF Unmade, Channel, Sound, Nodes, States

LEMMA ClosedSound ==
    ASSUME NEW c \in Channel, Sound(c), c.state \notin {"none", "gone"}
    PROVE  /\ Closed(c) \in Channel /\ Sound(Closed(c))
           /\ Closed(c).node = c.node /\ Closed(c).id = c.id
           /\ Closed(c).state = "closed" /\ Closed(c).held = c.held
           /\ Closed(c).q = c.q
BY DEF Closed, Channel, Sound, States

LEMMA GoneSound ==
    ASSUME NEW c \in Channel
    PROVE  /\ Gone(c) \in Channel /\ Sound(Gone(c))
           /\ Gone(c).state = "gone"
BY ZenonT(30), UnmadeSound DEF Gone, Channel, Sound, States, Unmade

LEMMA PushSound ==
    ASSUME NEW c \in Channel, Sound(c), NEW s \in Sizes \cup {0}
    PROVE  /\ Push(c, s) \in Channel /\ Sound(Push(c, s))
           /\ Push(c, s).node = c.node /\ Push(c, s).id = c.id
           /\ Push(c, s).state = c.state /\ Push(c, s).held = c.held
<1> DEFINE q == Append(c.q, s)
           r == IF c.q = <<>> /\ c.reader = "wait" THEN "hop" ELSE c.reader
<1>1. q \in Seq(Sizes \cup {0}) /\ q # <<>>
  BY SMT, AppendProperties DEF Channel
<1>2. /\ r \in {"idle", "wait", "hop", "stop"} /\ r # "wait"
      /\ r = "idle" <=> c.reader = "idle"
  BY DEF r, Channel, Sound
<1>3. Push(c, s) = [c EXCEPT !.q = q, !.reader = r]
  BY DEF Push
<1> HIDE DEF q, r
<1> QED
  BY ZenonT(30), <1>1, <1>2, <1>3 DEF Channel, Sound

LEMMA ServeSound ==
    ASSUME NEW c \in Channel, NEW m \in Nat,
           c.closer = "wait" => c.state = "closing",
           c.closer = "hop" => c.state = "closed",
           c.held => c.state \notin {"none", "gone"}
    PROVE  /\ Serve(c, m) \in Channel /\ Sound(Serve(c, m))
           /\ Serve(c, m).node = c.node /\ Serve(c, m).id = c.id
           /\ Serve(c, m).state = c.state /\ Serve(c, m).held = c.held
<1> DEFINE k == IF m < Len(c.q) THEN m ELSE Len(c.q)
           r == SubSeq(c.q, k + 1, Len(c.q))
<1>1. c.q \in Seq(Sizes \cup {0}) /\ Len(c.q) \in Nat /\ k \in 0..Len(c.q)
  BY SMT DEF Channel
<1>2. r \in Seq(Sizes \cup {0})
  <2>1. \A i \in k + 1 .. Len(c.q) : c.q[i] \in Sizes \cup {0}
    BY SMT, <1>1
  <2> QED
    BY SMT, <1>1, <2>1, SubSeqProperties
<1>3. ASSUME m # k PROVE r = <<>> /\ m - k - 1 \in Nat
  <2>1. k = Len(c.q) /\ m - k - 1 \in Nat
    BY SMT, <1>1, <1>3
  <2>2. k + 1 \in Int /\ Len(c.q) \in Int /\ Len(c.q) < k + 1
    BY SMT, <1>1, <2>1
  <2>3. SubSeq(c.q, k + 1, Len(c.q)) = <<>>
    BY <2>2, SubSeqEmpty
  <2> QED
    BY <2>1, <2>3
<1>4. Serve(c, m) = [c EXCEPT !.q = r,
                 !.reader = IF m = k THEN "idle"
                            ELSE IF c.state = "closed" THEN "stop" ELSE "wait",
                 !.readers = IF m = k THEN 0 ELSE m - k - 1]
  BY DEF Serve
<1> HIDE DEF k, r
<1>5. CASE m = k
  <2> DEFINE d == [c EXCEPT !.q = r, !.reader = "idle", !.readers = 0]
  <2>1. Serve(c, m) = d
    BY <1>4, <1>5
  <2>2. d \in Channel
    BY <1>2 DEF Channel
  <2>3. /\ d.reader = "idle" /\ d.readers = 0 /\ d.closer = c.closer
        /\ d.node = c.node /\ d.id = c.id /\ d.state = c.state /\ d.held = c.held
    BY DEF Channel
  <2>4. Sound(d)
    BY SMT, <2>3 DEF Sound
  <2> QED
    BY <2>1, <2>2, <2>3, <2>4
<1>6. CASE m # k
  <2>1. Serve(c, m) = [c EXCEPT !.q = r,
                        !.reader = IF c.state = "closed" THEN "stop" ELSE "wait",
                        !.readers = m - k - 1]
    BY <1>4, <1>6
  <2> QED
    BY ZenonT(30), <1>2, <1>3, <1>6, <2>1 DEF Channel, Sound
<1> QED
  BY <1>5, <1>6

-----------------------------------------------------------------------------
(* The table of channels and the loop that refers to one.                  *)

LEMMA NotPending ==
    ASSUME Core, NEW o \in Objs,
           \/ obj[o].held
           \/ obj[o].state # "connecting"
           \/ \E n \in Nodes, i \in Ids : channels[n][i] = o
    PROVE  ~Pending(o)
BY SMT, Constants DEF Core, EntriesLive, AckPending, Pending, None, Channel

-----------------------------------------------------------------------------
(* The loop and the room in the cache.                                     *)

LEMMA LoopStays ==
    ASSUME Core, Room, UNCHANGED <<cache, loop>>
    PROVE  LoopMoves /\ Room'
BY DEF Core, Room, LoopMoves, LoopWaitsForRoom

LEMMA LoopTo ==
    ASSUME Core, Room, NEW n \in Nodes, NEW l \in LoopAt, NEW v,
           l.at # "full", l.at = "ack" => l = loop[n],
           loop' = [loop EXCEPT ![n] = l],
           cache' = cache \/ cache' = [cache EXCEPT ![n] = v]
    PROVE  LoopMoves /\ Room'
<1>1. LoopMoves
  BY DEF Core, LoopMoves
<1>2. DOMAIN cache' = Nodes
  BY DEF Room
<1>3. ASSUME NEW m \in Nodes, loop'[m].at = "full"
      PROVE  cache'[m] + loop'[m].size > CacheMax
  <2>1. m # n
    BY <1>3 DEF Core
  <2>2. loop'[m] = loop[m] /\ cache'[m] = cache[m]
    BY <2>1 DEF Core, Room
  <2> QED
    BY <1>3, <2>2 DEF Room, LoopWaitsForRoom
<1> QED
  BY <1>1, <1>2, <1>3 DEF Room, LoopWaitsForRoom

LEMMA LoopHops ==
    ASSUME Core, Room, NEW n \in Nodes, NEW v,
           cache' = cache \/ cache' = [cache EXCEPT ![n] = v],
           loop' = IF loop[n].at = "full" THEN [loop EXCEPT ![n].at = "hop"]
                   ELSE loop
    PROVE  LoopMoves /\ Room'
<1>1. loop[n] \in LoopAt
  BY DEF Core
<1>2. CASE loop[n].at = "full"
  <2> DEFINE l == [loop[n] EXCEPT !.at = "hop"]
  <2>1. l \in LoopAt /\ l.at = "hop"
    BY <1>1 DEF LoopAt
  <2>2. loop' = [loop EXCEPT ![n] = l]
    BY <1>2 DEF Core
  <2> HIDE DEF l
  <2> QED
    BY <2>1, <2>2, LoopTo
<1>3. CASE loop[n].at # "full"
  <2>1. loop' = [loop EXCEPT ![n] = loop[n]]
    BY <1>3 DEF Core
  <2> QED
    BY <1>1, <1>3, <2>1, LoopTo
<1> QED
  BY <1>2, <1>3

LEMMA FreedRoom ==
    ASSUME Core, Room, NEW n \in Nodes, NEW c, NEW d, Freed(n, c, d)
    PROVE  LoopMoves /\ Room'
<1>1. CASE d.q = c.q
  BY <1>1, LoopStays DEF Freed
<1>2. CASE d.q # c.q
  <2> DEFINE v == cache[n] - (Bytes(c.q) - Bytes(d.q))
  <2>1. cache' = [cache EXCEPT ![n] = v]
    BY <1>2 DEF Freed, Room
  <2>2. loop' = IF loop[n].at = "full" THEN [loop EXCEPT ![n].at = "hop"]
                ELSE loop
    BY <1>2 DEF Freed
  <2> HIDE DEF v
  <2> QED
    BY <2>1, <2>2, LoopHops
<1> QED
  BY <1>1, <1>2

-----------------------------------------------------------------------------
(* What the association holds.                                             *)

LEMMA ResetMessage == \A i \in Ids : Reset(i) \in Message
BY DEF Reset, Message

-----------------------------------------------------------------------------
(* The application's calls.                                                *)

LEMMA AllocableIds ==
    ASSUME Traffic, NEW n \in Nodes
    PROVE  Allocable(n) \subseteq Ids
BY DEF Allocable, FreeIds, Traffic

LEMMA AfterId ==
    ASSUME NEW i \in Ids
    PROVE  After(i) \in Ids /\ (i < MaxStreams => After(i) = i + 1)
BY SMTT(30), DataChannelsAssumption DEF Ids, After

-----------------------------------------------------------------------------
(* read_loop().                                                            *)

LEMMA OnwardAt ==
    ASSUME NEW n \in Nodes, NEW rest
    PROVE  Onward(n, rest) \in LoopAt /\ Onward(n, rest).at \in {"read", "done"}
BY Constants DEF Onward, Idle, LoopAt, None

LEMMA DoneAt ==
    /\ [Idle EXCEPT !.at = "done"] \in LoopAt
    /\ [Idle EXCEPT !.at = "done"].at = "done"
BY Constants DEF Idle, LoopAt, None

LEMMA FullAt ==
    ASSUME NEW sid \in Ids, NEW size \in Sizes \cup {0}
    PROVE  LET l == [Idle EXCEPT !.at = "full", !.sid = sid, !.size = size] IN
           l \in LoopAt /\ l.at = "full" /\ l.size = size
BY Constants DEF Idle, LoopAt, None

LEMMA InboxTail ==
    ASSUME Traffic, NEW n \in Nodes, inbox[n] # <<>>,
           inbox' = [inbox EXCEPT ![n] = Tail(@)]
    PROVE  /\ inbox' \in [Nodes -> Seq(Message)]
           /\ Received(n) \in Message
           /\ Received(n).sid \in Ids /\ Received(n).size \in Sizes \cup {0}
<1>1. Tail(inbox[n]) \in Seq(Message) /\ Head(inbox[n]) \in Message
  BY HeadTailProperties DEF Traffic
<1> QED
  BY <1>1 DEF Traffic, Received, Message

LEMMA RemoveType ==
    ASSUME NEW S, NEW s \in Seq(S), NEW k \in DOMAIN s
    PROVE  Without(s, k) \in Seq(S)
<1>1. k \in 1..Len(s) /\ Len(s) \in Nat
  BY SMT
<1>2. SubSeq(s, 1, k - 1) \in Seq(S)
  BY SMT, <1>1, SubSeqProperties
<1>3. SubSeq(s, k + 1, Len(s)) \in Seq(S)
  BY SMT, <1>1, SubSeqProperties
<1> QED
  BY <1>2, <1>3, ConcatProperties DEF Without

-----------------------------------------------------------------------------
(* What the association tells.                                             *)

\* The channel a callback finds is registered, so that it is not the one
\* read_loop() is answering.
LEMMA FoundChannel ==
    ASSUME IInv, NEW n \in Nodes, NEW i \in Ids, Found(n, i) # None
    PROVE  /\ Found(n, i) \in Objs /\ ~Pending(Found(n, i))
           /\ obj[Found(n, i)].state \notin {"none", "gone"}
<1>1. Found(n, i) = channels[n][i] /\ channels[n][i] \in Objs
  BY SMT DEF Found, IInv, Core
<1>2. ~Pending(channels[n][i])
  BY <1>1, NotPending DEF IInv
<1> QED
  BY SMTT(30), <1>1, <1>2, Constants DEF IInv, Core, EntriesLive

-----------------------------------------------------------------------------
(* The managers.                                                           *)

LEMMA InitHolds == Init => IInv
<1> SUFFICES ASSUME Init PROVE IInv
  BY SMT
<1>1. /\ obj \in [Objs -> Channel]
      /\ channels \in [Nodes -> [Ids -> Objs \cup {None}]]
      /\ \A o \in Objs : Sound(obj[o])
  BY UnmadeSound DEF Init
<1>2. Idle \in LoopAt /\ Idle.at = "idle"
  BY Constants DEF Idle, LoopAt, None
<1>3. /\ loop \in [Nodes -> LoopAt]
      /\ \A n \in Nodes : loop[n].at = "idle"
  BY <1>2 DEF Init
<1>4. EntriesLive /\ AckPending
  BY <1>3 DEF Init, EntriesLive, AckPending
<1>5. 0 \in Ids /\ 1 \in Ids
  BY SMTT(30), DataChannelsAssumption DEF Ids
<1>6. Traffic
  BY SMT, <1>5 DEF Init, Traffic, Queues, Resets
<1>7. Room
  BY <1>3 DEF Init, Room, LoopWaitsForRoom
<1> QED
  BY <1>1, <1>3, <1>4, <1>6, <1>7 DEF IInv, Core

\* Every step keeps the invariant and takes no channel back: what the steps have
\* in common, then one named step for each action.
LEMMA NextKeeps ==
    ASSUME IInv, [Next]_vars
    PROVE  IInv' /\ Advance

\* One channel: made, and taken in hand.
<1>MakeSound.
      ASSUME NEW n \in Nodes, NEW i \in Ids
      PROVE  LET c == Make(n, i) IN
             /\ c \in Channel /\ Sound(c)
             /\ c.node = n /\ c.id = i /\ c.state = "connecting" /\ ~c.held
  BY <1>MakeSound, UnmadeSound DEF Make, Channel, Sound, States, Unmade

<1>HeldSound.
      ASSUME NEW c \in Channel, Sound(c), c.state \notin {"none", "gone"}
      PROVE  \A d \in {[c EXCEPT !.held = TRUE],
                       [c EXCEPT !.negotiated = TRUE, !.held = TRUE]} :
               /\ d \in Channel /\ Sound(d)
               /\ d.node = c.node /\ d.id = c.id /\ d.state = c.state
  BY ZenonT(30), <1>HeldSound DEF Channel, Sound

\* The table of channels and the loop that refers to one.
<1>Ranks. /\ Rank("none") = 0 /\ Rank("connecting") = 1 /\ Rank("open") = 2
      /\ Rank("closing") = 3 /\ Rank("closed") = 4 /\ Rank("gone") = 5
  BY DEF Rank

<1>RankRange. \A s \in States : Rank(s) \in 0..5
  BY SMT, <1>Ranks DEF States

<1>Nested.
      ASSUME NEW S, NEW f \in [Nodes -> [Ids -> S]], NEW n \in Nodes,
             NEW i \in Ids, NEW v \in S
      PROVE  /\ [f EXCEPT ![n][i] = v] \in [Nodes -> [Ids -> S]]
             /\ \A m \in Nodes, j \in Ids :
                  [f EXCEPT ![n][i] = v][m][j] =
                      IF m = n /\ j = i THEN v ELSE f[m][j]
  BY SMT, <1>Nested

<1>EntriesLiveNext.
      ASSUME \A n \in Nodes,
             i \in Ids :
               channels'[n][i] # None =>
                   /\ obj'[channels'[n][i]].node = n
                   /\ obj'[channels'[n][i]].id = i
                   /\ obj'[channels'[n][i]].state \notin {"none", "gone"}
      PROVE  EntriesLive'
  BY <1>EntriesLiveNext DEF EntriesLive

<1>CoreKept.
      ASSUME Core, LoopMoves, UNCHANGED <<obj, channels>>
      PROVE  Core' /\ Advance
  <2> USE <1>CoreKept
  <2>1. Advance
    BY SMTT(30), <1>RankRange DEF Advance, Core, Channel
  <2>2. EntriesLive'
    BY SMT DEF Core, EntriesLive
  <2>3. AckPending'
    BY SMT DEF Core, AckPending, LoopMoves
  <2> QED
    BY <2>1, <2>2, <2>3 DEF Core, LoopMoves

\* One channel changes and stays what it was to the table.
<1>OneChannel.
      ASSUME Core, LoopMoves, UNCHANGED channels, NEW o \in Objs,
             NEW d \in Channel, Sound(d), obj' = [obj EXCEPT ![o] = d],
             d.node = obj[o].node, d.id = obj[o].id,
             d.state \notin {"none", "gone"} \/ d.state = obj[o].state,
             (d.state = obj[o].state /\ d.held = obj[o].held) \/ ~Pending(o),
             Rank(obj[o].state) <= Rank(d.state)
      PROVE  Core' /\ Advance
  <2> USE <1>OneChannel
  <2>1. obj' \in [Objs -> Channel] /\ \A p \in Objs : Sound(obj'[p])
    BY DEF Core
  <2>2. EntriesLive'
    BY SMT DEF Core, EntriesLive
  <2>3. AckPending'
    BY SMT DEF Core, AckPending, LoopMoves, Pending
  <2>4. ASSUME NEW p \in Objs PROVE Rank(obj[p].state) <= Rank(obj'[p].state)
    <3>1. CASE p = o
      BY <3>1 DEF Core
    <3>2. CASE p # o
      <4>1. obj'[p] = obj[p] /\ obj[p].state \in States
        BY <3>2 DEF Core, Channel
      <4> QED
        BY SMT, <4>1, <1>RankRange
    <3> QED
      BY <3>1, <3>2
  <2> QED
    BY <2>1, <2>2, <2>3, <2>4 DEF Core, LoopMoves, Advance

\* A channel is made, for the application and registered, or by handle_dcep().
<1>NewChannel.
      ASSUME Core, NEW n \in Nodes, NEW o \in Objs, NEW i \in Ids,
             NEW d \in Channel, Sound(d), obj[o].state = "none",
             obj' = [obj EXCEPT ![o] = d], d.node = n, d.id = i,
             d.state = "connecting",
             \/ UNCHANGED loop /\ channels' = [channels EXCEPT ![n][i] = o]
             \/ /\ UNCHANGED channels /\ ~d.held /\ i < MaxStreams
                /\ loop' = [loop EXCEPT ![n] = [Idle EXCEPT !.at = "ack", !.o = o]]
      PROVE  Core' /\ Advance
  <2> USE <1>NewChannel
  <2> DEFINE T == Objs \cup {None}
  <2>1. obj' \in [Objs -> Channel] /\ \A p \in Objs : Sound(obj'[p])
    BY DEF Core
  <2>2. /\ channels' \in [Nodes -> [Ids -> T]]
        /\ \A m \in Nodes, j \in Ids :
             channels'[m][j] = channels[m][j]
             \/ (channels'[m][j] = o /\ m = n /\ j = i /\ UNCHANGED loop)
    <3>1. CASE UNCHANGED channels
      BY <3>1 DEF Core
    <3>2. CASE UNCHANGED loop /\ channels' = [channels EXCEPT ![n][i] = o]
      <4>1. channels \in [Nodes -> [Ids -> T]] /\ o \in T
        BY DEF Core
      <4> HIDE DEF T
      <4> QED
        BY SMT, <3>2, <4>1, <1>Nested
    <3> QED
      BY <3>1, <3>2
  <2>3. loop' \in [Nodes -> LoopAt]
    <3>1. [Idle EXCEPT !.at = "ack", !.o = o] \in LoopAt
      BY ZenonT(30), Constants DEF LoopAt, Idle, None
    <3> QED
      BY <3>1 DEF Core
  <2>4. \A m \in Nodes, j \in Ids : channels[m][j] # o
    BY SMTT(30), Constants DEF Core, EntriesLive
  <2>5. EntriesLive'
    BY SMT, <2>2, <2>4, Constants DEF Core, EntriesLive
  <2>6. AckPending'
    <3> SUFFICES ASSUME NEW m \in Nodes, loop'[m].at = "ack"
                 PROVE  /\ loop'[m].o \in Objs
                        /\ obj'[loop'[m].o].node = m
                        /\ obj'[loop'[m].o].state = "connecting"
                        /\ ~obj'[loop'[m].o].held
                        /\ obj'[loop'[m].o].id < MaxStreams
                        /\ channels'[m][obj'[loop'[m].o].id] # loop'[m].o
      BY DEF AckPending
    <3>1. CASE loop'[m] = loop[m]
      <4>1. /\ loop[m].o \in Objs /\ loop[m].o # o
            /\ obj'[loop[m].o] = obj[loop[m].o] /\ obj[loop[m].o].id \in Ids
        BY SMT, <3>1 DEF Core, AckPending, Channel
      <4> QED
        BY SMT, <3>1, <4>1, <2>2 DEF Core, AckPending
    <3>2. CASE /\ m = n /\ ~d.held /\ i < MaxStreams /\ UNCHANGED channels
               /\ loop'[m] = [Idle EXCEPT !.at = "ack", !.o = o]
      BY SMT, <3>2, <2>4 DEF Core, Idle
    <3> QED
      BY <3>1, <3>2 DEF Core
  <2>7. ASSUME NEW p \in Objs PROVE Rank(obj[p].state) <= Rank(obj'[p].state)
    <3>1. CASE p = o
      BY SMT, <3>1, <1>Ranks DEF Core
    <3>2. CASE p # o
      <4>1. obj'[p] = obj[p] /\ obj[p].state \in States
        BY <3>2 DEF Core, Channel
      <4> QED
        BY SMT, <4>1, <1>RankRange
    <3> QED
      BY <3>1, <3>2
  <2> QED
    BY <2>1, <2>2, <2>3, <2>5, <2>6, <2>7 DEF Core, Advance

\* A channel is destroyed, and what is registered under its id with it.
<1>DestroyedChannel.
      ASSUME Core, LoopMoves, NEW o \in Objs, NEW d \in Channel, Sound(d),
             d.state = "gone", obj' = [obj EXCEPT ![o] = d],
             channels' = [channels EXCEPT ![obj[o].node][obj[o].id] = None],
             \A m \in Nodes : loop[m].at = "ack" /\ loop[m].o = o
                                  => loop'[m].at # "ack"
      PROVE  Core' /\ Advance
  <2> USE <1>DestroyedChannel
  <2> DEFINE T == Objs \cup {None}
             n == obj[o].node
             i == obj[o].id
  <2>1. obj' \in [Objs -> Channel] /\ \A p \in Objs : Sound(obj'[p])
    BY DEF Core
  <2>2. /\ channels' \in [Nodes -> [Ids -> T]]
        /\ \A m \in Nodes, j \in Ids :
             channels'[m][j] = IF m = n /\ j = i THEN None ELSE channels[m][j]
    <3>1. channels \in [Nodes -> [Ids -> T]] /\ None \in T /\ n \in Nodes /\ i \in Ids
      BY DEF Core, Channel
    <3> HIDE DEF T
    <3> QED
      BY SMT, <3>1, <1>Nested
  <2>3. \A m \in Nodes, j \in Ids : channels[m][j] = o => m = n /\ j = i
    BY SMTT(30), Constants DEF Core, EntriesLive
  <2>4. EntriesLive'
    <3> SUFFICES ASSUME NEW m \in Nodes, NEW j \in Ids, channels'[m][j] # None
                 PROVE  LET c == obj'[channels'[m][j]] IN
                        c.node = m /\ c.id = j /\ c.state \notin {"none", "gone"}
      BY DEF EntriesLive
    <3>1. channels'[m][j] = channels[m][j] /\ ~(m = n /\ j = i)
      BY <2>2
    <3>2. channels[m][j] \in Objs \ {o}
      BY SMTT(30), <2>3, <3>1 DEF Core
    <3>3. obj'[channels[m][j]] = obj[channels[m][j]]
      BY <3>2 DEF Core
    <3> QED
      BY SMTT(60), <3>1, <3>3 DEF Core, EntriesLive
  <2>5. AckPending'
    <3> SUFFICES ASSUME NEW m \in Nodes, loop'[m].at = "ack"
                 PROVE  /\ loop[m].o \in Objs /\ loop[m].o = loop'[m].o
                        /\ obj'[loop[m].o] = obj[loop[m].o]
                        /\ channels'[m][obj[loop[m].o].id] # loop[m].o
      BY SMT DEF AckPending, Core, LoopMoves
    <3>1. loop[m].at = "ack" /\ loop'[m].o = loop[m].o
      BY DEF LoopMoves
    <3>2. /\ loop[m].o \in Objs /\ loop[m].o # o /\ loop[m].o # None
          /\ obj[loop[m].o].id \in Ids
          /\ channels[m][obj[loop[m].o].id] # loop[m].o
      BY SMT, <3>1, Constants DEF Core, AckPending, Channel
    <3> QED
      BY <3>1, <3>2, <2>2 DEF Core
  <2>6. ASSUME NEW p \in Objs PROVE Rank(obj[p].state) <= Rank(obj'[p].state)
    <3>1. obj[p].state \in States
      BY DEF Core, Channel
    <3>2. CASE p = o
      BY SMT, <3>1, <3>2, <1>Ranks, <1>RankRange DEF Core
    <3>3. CASE p # o
      BY SMTT(30), <3>1, <3>3, <1>RankRange DEF Core
    <3> QED
      BY <3>2, <3>3
  <2> QED
    BY <2>1, <2>2, <2>4, <2>5, <2>6 DEF Core, Advance, LoopMoves

\* handle_dcep() registers the channel it has answered, over what is there.
<1>AnsweredChannel.
      ASSUME Core, NEW n \in Nodes, loop[n].at = "ack", NEW l \in LoopAt,
             l.at # "ack", loop' = [loop EXCEPT ![n] = l], NEW d \in Channel,
             Sound(d), d.state = "open", d.node = n, d.id = obj[loop[n].o].id,
             obj' = [obj EXCEPT ![loop[n].o] = d],
             channels' = [channels EXCEPT ![n][d.id] = loop[n].o]
      PROVE  Core' /\ Advance
  <2> USE <1>AnsweredChannel
  <2> DEFINE T == Objs \cup {None}
             o == loop[n].o
             i == d.id
  <2>0. /\ o \in Objs /\ o # None /\ i \in Ids /\ obj[o].node = n /\ obj[o].id = i
        /\ obj[o].state = "connecting"
    BY SMT, Constants DEF Core, AckPending, Channel
  <2>1. obj' \in [Objs -> Channel] /\ \A p \in Objs : Sound(obj'[p])
    BY <2>0 DEF Core
  <2>2. /\ channels' \in [Nodes -> [Ids -> T]]
        /\ \A m \in Nodes, j \in Ids :
             channels'[m][j] = IF m = n /\ j = i THEN o ELSE channels[m][j]
    <3>1. channels \in [Nodes -> [Ids -> T]] /\ o \in T /\ i \in Ids
      BY <2>0 DEF Core
    <3> HIDE DEF T
    <3> QED
      BY SMT, <3>1, <1>Nested
  <2>3. obj'[o] = d /\ \A p \in Objs : p # o => obj'[p] = obj[p]
    BY <2>0 DEF Core
  <2> HIDE DEF o, i
  <2>4. EntriesLive'
    <3> SUFFICES ASSUME NEW m \in Nodes, NEW j \in Ids, channels'[m][j] # None
                 PROVE  /\ obj'[channels'[m][j]].node = m
                        /\ obj'[channels'[m][j]].id = j
                        /\ obj'[channels'[m][j]].state \notin {"none", "gone"}
      BY ZenonT(30), <1>EntriesLiveNext
    <3>1. CASE channels'[m][j] = o
      <4>1. m = n /\ j = i
        BY SMT, <3>1, <2>2, <2>0 DEF Core, EntriesLive
      <4> QED
        BY ZenonT(30), <3>1, <4>1, <2>3, <2>0 DEF i
    <3>2. CASE channels'[m][j] # o
      <4>1. channels'[m][j] = channels[m][j] /\ channels[m][j] \in Objs
        BY SMT, <3>2, <2>2 DEF Core
      <4>2. channels[m][j] # None
        BY <4>1
      <4>3. /\ obj[channels[m][j]].node = m /\ obj[channels[m][j]].id = j
            /\ obj[channels[m][j]].state \notin {"none", "gone"}
        BY <4>2 DEF Core, EntriesLive
      <4>4. obj'[channels'[m][j]] = obj[channels[m][j]]
        BY <3>2, <4>1, <2>3
      <4> QED
        BY <4>3, <4>4
    <3> QED
      BY ZenonT(30), <3>1, <3>2
  <2>5. AckPending'
    <3> SUFFICES ASSUME NEW m \in Nodes, loop'[m].at = "ack"
                 PROVE  /\ loop[m].at = "ack"
                        /\ loop[m].o \in Objs /\ loop[m].o = loop'[m].o
                        /\ obj'[loop[m].o] = obj[loop[m].o]
                        /\ channels'[m][obj[loop[m].o].id] # loop[m].o
      BY ZenonT(60) DEF AckPending, Core
    <3>1. loop'[m] = loop[m] /\ m # n
      BY DEF Core
    <3>2. /\ loop[m].o \in Objs /\ loop[m].o # o
          /\ obj[loop[m].o].id \in Ids
          /\ channels[m][obj[loop[m].o].id] # loop[m].o
      BY SMTT(60), <3>1, <2>0 DEF Core, AckPending, Channel
    <3> QED
      BY <3>1, <3>2, <2>2, <2>3
  <2>6. ASSUME NEW p \in Objs PROVE Rank(obj[p].state) <= Rank(obj'[p].state)
    <3>1. obj[p].state \in States
      BY DEF Core, Channel
    <3> QED
      BY SMT, <3>1, <2>0, <2>3, <1>Ranks, <1>RankRange
  <2>7. loop' \in [Nodes -> LoopAt]
    BY DEF Core
  <2> QED
    BY <2>1, <2>2, <2>4, <2>5, <2>6, <2>7 DEF Core, Advance

\* stop()
<1>StopCore.
      ASSUME Core, LoopMoves, NEW n \in Nodes, StopEffects(n)
      PROVE  Core' /\ Advance
  <2> USE <1>StopCore
  <2>1. \A m \in Nodes, j \in Ids :
          channels'[m][j] = IF m = n THEN None ELSE channels[m][j]
    BY DEF Core, StopEffects
  <2>2. channels' \in [Nodes -> [Ids -> Objs \cup {None}]]
    BY DEF Core, StopEffects
  <2>3. ASSUME NEW p \in Objs
        PROVE  /\ obj'[p] \in Channel /\ Sound(obj'[p])
               /\ obj'[p].node = obj[p].node /\ obj'[p].id = obj[p].id
               /\ Rank(obj[p].state) <= Rank(obj'[p].state)
               /\ \/ obj'[p] = obj[p]
                  \/ obj'[p].state = "closed" /\ \E j \in Ids : channels[n][j] = p
    <3>1. obj[p] \in Channel /\ Sound(obj[p]) /\ obj[p].state \in States
      BY DEF Core, Channel
    <3>2. CASE \E j \in Ids : channels[n][j] = p
      <4>1. obj[p].state \notin {"none", "gone"}
        BY SMT, <3>2, Constants DEF Core, EntriesLive
      <4>2. obj'[p] = Closed(obj[p])
        BY <3>2 DEF StopEffects
      <4>3. Rank(obj[p].state) <= Rank("closed")
        BY SMT, <4>1, <3>1, <1>Ranks DEF States
      <4> QED
        BY <3>1, <3>2, <4>1, <4>2, <4>3, ClosedSound
    <3>3. CASE ~\E j \in Ids : channels[n][j] = p
      <4>1. obj'[p] = obj[p]
        BY <3>3 DEF StopEffects
      <4> QED
        BY SMT, <3>1, <4>1, <1>RankRange
    <3> QED
      BY <3>2, <3>3
  <2>4. obj' \in [Objs -> Channel]
    BY <2>3 DEF StopEffects
  <2>5. EntriesLive'
    <3> SUFFICES ASSUME NEW m \in Nodes, NEW j \in Ids, channels'[m][j] # None
                 PROVE  /\ obj'[channels'[m][j]].node = m
                        /\ obj'[channels'[m][j]].id = j
                        /\ obj'[channels'[m][j]].state \notin {"none", "gone"}
      BY DEF EntriesLive
    <3>1. channels'[m][j] = channels[m][j] /\ channels[m][j] \in Objs
      BY SMT, <2>1 DEF Core
    <3> QED
      BY SMT, <3>1, <2>3 DEF Core, EntriesLive
  <2>6. AckPending'
    <3> SUFFICES ASSUME NEW m \in Nodes, loop'[m].at = "ack"
                 PROVE  /\ loop[m].at = "ack"
                        /\ loop[m].o \in Objs /\ loop[m].o = loop'[m].o
                        /\ obj'[loop[m].o] = obj[loop[m].o]
                        /\ channels'[m][obj[loop[m].o].id] # loop[m].o
      BY SMTT(60) DEF AckPending, Core
    <3>1. loop[m].at = "ack" /\ loop'[m].o = loop[m].o
      BY DEF LoopMoves
    <3>2. /\ loop[m].o \in Objs /\ obj[loop[m].o].id \in Ids
          /\ channels[m][obj[loop[m].o].id] # loop[m].o
      BY <3>1 DEF Core, AckPending, Channel
    <3>3. Pending(loop[m].o)
      BY <3>1 DEF Pending
    <3>4. ~\E j \in Ids : channels[n][j] = loop[m].o
      BY <3>2, <3>3, NotPending
    <3>5. obj'[loop[m].o] = obj[loop[m].o]
      BY <3>2, <3>4, <2>3
    <3>6. channels'[m][obj[loop[m].o].id] # loop[m].o
      <4>1. None \notin Objs
        BY Constants
      <4>2. channels'[m][obj[loop[m].o].id]
              = IF m = n THEN None ELSE channels[m][obj[loop[m].o].id]
        BY <2>1, <3>2
      <4> QED
        BY <4>1, <4>2, <3>2
    <3> QED
      BY <3>1, <3>2, <3>5, <3>6
  <2> QED
    BY <2>2, <2>3, <2>4, <2>5, <2>6 DEF Core, Advance, LoopMoves

\* What the association holds.
<1>ResetTypes.
      ASSUME Traffic, NEW n \in Nodes, NEW i \in Ids, NEW w \in Queues,
             NEW r \in Resets, ResetStreams(n, i, w, r)
      PROVE  buf' \in Queues /\ wire' \in Queues /\ resetting' \in Resets
  <2> USE <1>ResetTypes
  <2>1. CASE up[n] /\ r[n][i] = "no"
    <3>1. buf' = [buf EXCEPT ![n][i] = <<>>] /\ <<>> \in Seq(Message)
      BY SMT, <2>1 DEF ResetStreams
    <3>2. resetting' = [r EXCEPT ![n][i] = "asked"]
      BY <2>1 DEF ResetStreams
    <3>3. /\ wire' = [w EXCEPT ![n][i] = Append(w[n][i], Reset(i))]
          /\ Append(w[n][i], Reset(i)) \in Seq(Message)
      <4>1. w[n][i] \in Seq(Message) /\ Reset(i) \in Message
        BY ResetMessage DEF Queues
      <4> QED
        BY <2>1, <4>1, AppendProperties DEF ResetStreams, Queues
    <3> QED
      BY <3>1, <3>2, <3>3, <1>Nested DEF Traffic, Queues, Resets
  <2>2. CASE ~(up[n] /\ r[n][i] = "no")
    BY <2>2 DEF ResetStreams, Traffic
  <2> QED
    BY <2>1, <2>2

<1>RequestCloseTypes.
      ASSUME Traffic, NEW o \in Objs, NEW c \in Channel, NEW w \in Queues,
             NEW r \in Resets, RequestClose(o, c, w, r)
      PROVE  buf' \in Queues /\ wire' \in Queues /\ resetting' \in Resets
  <2> USE <1>RequestCloseTypes
  <2>1. c.node \in Nodes /\ c.id \in Ids
    BY DEF Channel
  <2>2. \/ ResetStreams(c.node, c.id, w, r)
        \/ resetting' = r /\ wire' = w /\ UNCHANGED buf
    BY DEF RequestClose
  <2> QED
    BY <2>1, <2>2, <1>ResetTypes DEF Traffic

<1>RequestCloseCore.
      ASSUME Core, LoopMoves, UNCHANGED channels, NEW o \in Objs, ~Pending(o),
             obj[o].state \notin {"none", "gone"}, NEW c, NEW w, NEW r,
             \/ c = obj[o]
             \/ c = [obj[o] EXCEPT !.closer = "wait"] /\ obj[o].state # "closed",
             RequestClose(o, c, w, r)
      PROVE  Core' /\ Advance
  <2> USE <1>RequestCloseCore
  <2> DEFINE first == obj[o].state \notin {"closing", "closed"}
             d == IF first THEN [c EXCEPT !.state = "closing"] ELSE c
  <2>1. obj[o] \in Channel /\ Sound(obj[o]) /\ obj[o].state \in States
    BY DEF Core, Channel
  <2>2. c \in Channel
    BY <2>1 DEF Channel
  <2>3. d \in Channel /\ d.node = obj[o].node /\ d.id = obj[o].id
    BY SMT, <2>1, <2>2 DEF Channel, States
  <2>4. d.state = IF first THEN "closing" ELSE obj[o].state
    BY <2>1, <2>2 DEF Channel
  <2>5. Sound(d)
    <3>1. CASE first
      <4>1. /\ d.state = "closing" /\ d.reader = obj[o].reader /\ d.q = obj[o].q
            /\ d.readers = obj[o].readers /\ d.closer \in {obj[o].closer, "wait"}
        BY <3>1, <2>1, <2>2 DEF Channel
      <4> QED
        BY <3>1, <4>1, <2>1 DEF Sound
    <3>2. CASE ~first
      BY <3>2, <2>1 DEF Sound, Channel
    <3> QED
      BY <3>1, <3>2
  <2>6. obj' = [obj EXCEPT ![o] = d]
    BY DEF RequestClose
  <2>7. Rank(obj[o].state) <= Rank(d.state) /\ d.state \notin {"none", "gone"}
    BY SMT, <2>1, <2>4, <1>Ranks DEF States
  <2> HIDE DEF d
  <2> QED
    BY <2>3, <2>5, <2>6, <2>7, <1>OneChannel

\* The application's calls.
<1>SendqAppend.
      ASSUME Traffic, NEW n \in Nodes, NEW s \in Sending,
             sendq' = [sendq EXCEPT ![n] = Append(@, s)]
      PROVE  sendq' \in [Nodes -> Seq(Sending)]
  <2> USE <1>SendqAppend
  <2>1. Append(sendq[n], s) \in Seq(Sending)
    BY AppendProperties DEF Traffic
  <2> QED
    BY <2>1 DEF Traffic

\* _next_stream_id stays a stream id.
<1>NextId.
      ASSUME NEW i \in Ids
      PROVE  (i + 2) % MaxStreams \in Ids
  <2> USE <1>NextId
  <2>1. /\ i \in Nat /\ MaxStreams \in Nat \ {0}
        /\ \A j \in Nat : j < MaxStreams => j \in Ids
    BY Constants
  <2>2. (i + 2) % MaxStreams \in 0..(MaxStreams - 1)
    BY SMT, <2>1, DataChannelsAssumption
  <2> QED
    BY SMT, <2>1, <2>2

<1>CreateStep.
      ASSUME NEW n \in Nodes, NEW o \in Objs, Create(n, o)
      PROVE  IInv' /\ Advance
  <2> USE <1>CreateStep
  <2> DEFINE Chosen(i) ==
               /\ obj' = [obj EXCEPT ![o] = [Make(n, i) EXCEPT !.held = TRUE]]
               /\ channels' = [channels EXCEPT ![n][i] = o]
               /\ \/ next' = next
                  \/ next' = [next EXCEPT ![n] = (i + 2) % MaxStreams]
             s == [o |-> o, kind |-> "open", size |-> 0]
  <2>0. PICK i \in Allocable(n) : Chosen(i)
    BY DEF Create
  <2> DEFINE m == Make(n, i)
             d == [m EXCEPT !.held = TRUE]
  <2>1. i \in Ids
    BY <2>0, AllocableIds DEF IInv
  <2>3. /\ d \in Channel /\ Sound(d)
        /\ d.node = n /\ d.id = i /\ d.state = "connecting"
    <3>1. /\ m \in Channel /\ Sound(m)
          /\ m.node = n /\ m.id = i /\ m.state = "connecting"
      BY <2>1, <1>MakeSound
    <3> HIDE DEF m
    <3> QED
      BY <3>1, <1>HeldSound
  <2>4. /\ obj' = [obj EXCEPT ![o] = d] /\ channels' = [channels EXCEPT ![n][i] = o]
        /\ obj[o].state = "none" /\ UNCHANGED loop
    BY <2>0 DEF Create, Fresh
  <2> HIDE DEF d
  <2>5. Core' /\ Advance
    BY <2>1, <2>3, <2>4, <1>NewChannel DEF IInv
  <2>6. next' \in [Nodes -> Ids]
    <3>1. (i + 2) % MaxStreams \in Ids
      BY <2>1, <1>NextId
    <3>2. \/ next' = next
          \/ next' = [next EXCEPT ![n] = (i + 2) % MaxStreams]
      BY <2>0
    <3> QED
      BY <3>1, <3>2 DEF IInv, Traffic
  <2>7. sendq' \in [Nodes -> Seq(Sending)]
    <3>1. s \in Sending /\ sendq' = [sendq EXCEPT ![n] = Append(@, s)]
      BY DEF Sending, Create
    <3> HIDE DEF s
    <3> QED
      BY <3>1, <1>SendqAppend DEF IInv
  <2>8. Room'
    BY LoopStays DEF IInv, Create
  <2> QED
    BY <2>5, <2>6, <2>7, <2>8 DEF IInv, Traffic, Create, sctpVars

<1>CreateNegotiatedStep.
      ASSUME NEW n \in Nodes, NEW o \in Objs, NEW i \in Ids,
             CreateNegotiated(n, o, i)
      PROVE  IInv' /\ Advance
  <2> USE <1>CreateNegotiatedStep
  <2> DEFINE m == Make(n, i)
             d == [m EXCEPT !.negotiated = TRUE, !.held = TRUE]
  <2>1. /\ d \in Channel /\ Sound(d)
        /\ d.node = n /\ d.id = i /\ d.state = "connecting"
    <3>1. /\ m \in Channel /\ Sound(m)
          /\ m.node = n /\ m.id = i /\ m.state = "connecting"
      BY <1>MakeSound
    <3> HIDE DEF m
    <3> QED
      BY <3>1, <1>HeldSound
  <2>2. /\ obj' = [obj EXCEPT ![o] = d] /\ channels' = [channels EXCEPT ![n][i] = o]
        /\ obj[o].state = "none" /\ UNCHANGED loop
    BY DEF CreateNegotiated, Fresh
  <2> HIDE DEF d
  <2>3. Core' /\ Advance
    BY <2>1, <2>2, <1>NewChannel DEF IInv
  <2>4. next' \in [Nodes -> Ids]
    <3>1. After(i) \in Ids /\ After(After(i)) \in Ids
      BY AfterId
    <3> QED
      BY <3>1 DEF IInv, Traffic, CreateNegotiated
  <2>5. Room'
    BY LoopStays DEF IInv, CreateNegotiated
  <2> QED
    BY <2>3, <2>4, <2>5 DEF IInv, Traffic, CreateNegotiated, sctpVars

<1>SendStep.
      ASSUME NEW o \in Objs, NEW size \in Sizes, Send(o, size)
      PROVE  IInv' /\ Advance
  <2> USE <1>SendStep
  <2> DEFINE s == [o |-> o, kind |-> "data", size |-> size]
             n == obj[o].node
  <2>1. n \in Nodes /\ s \in Sending /\ sendq' = [sendq EXCEPT ![n] = Append(@, s)]
    BY DEF Sending, Send, IInv, Core, Channel
  <2> HIDE DEF s, n
  <2>2. sendq' \in [Nodes -> Seq(Sending)]
    BY <2>1, <1>SendqAppend DEF IInv
  <2>3. LoopMoves /\ Room'
    BY LoopStays DEF IInv, Send
  <2>4. Core' /\ Advance
    BY <2>3, <1>CoreKept DEF IInv, Send
  <2> QED
    BY <2>2, <2>3, <2>4 DEF IInv, Traffic, Send, sctpVars

<1>ReadStep.
      ASSUME NEW o \in Objs, Read(o)
      PROVE  IInv' /\ Advance
  <2> USE <1>ReadStep
  <2> DEFINE c == obj[o]
             d == IF c.reader = "idle" THEN Serve(c, 1)
                  ELSE [c EXCEPT !.readers = @ + 1]
  <2>1. c \in Channel /\ Sound(c) /\ c.node \in Nodes /\ c.state \in States
    BY DEF IInv, Core, Channel
  <2>2. /\ d \in Channel /\ Sound(d) /\ d.node = c.node /\ d.id = c.id
        /\ d.state = c.state /\ d.held = c.held
    <3>1. CASE c.reader = "idle"
      <4>1. d = Serve(c, 1)
        BY <3>1
      <4> HIDE DEF d
      <4> QED
        BY <4>1, <2>1, ServeSound DEF Sound
    <3>2. CASE c.reader # "idle"
      BY SMT, <3>2, <2>1 DEF Channel, Sound
    <3> QED
      BY <3>1, <3>2
  <2>3. obj' = [obj EXCEPT ![o] = d] /\ Freed(c.node, c, d) /\ UNCHANGED channels
    BY DEF Read
  <2> HIDE DEF d
  <2>4. LoopMoves /\ Room'
    BY <2>1, <2>3, FreedRoom DEF IInv
  <2>5. Core' /\ Advance
    <3>1. Rank(c.state) <= Rank(d.state)
      BY SMT, <2>1, <2>2, <1>RankRange
    <3> QED
      BY <2>1, <2>2, <2>3, <2>4, <3>1, <1>OneChannel DEF IInv
  <2> QED
    BY <2>4, <2>5 DEF IInv, Traffic, Read, sctpVars

<1>CloseStep.
      ASSUME NEW o \in Objs, Close(o)
      PROVE  IInv' /\ Advance
  <2> USE <1>CloseStep
  <2> DEFINE c == [obj[o] EXCEPT !.closer = "wait"]
  <2>1. /\ RequestClose(o, c, wire, resetting) /\ obj[o].state # "closed"
        /\ obj[o].held /\ UNCHANGED channels
    BY DEF Close, InHand
  <2>2. c \in Channel /\ obj[o].state \notin {"none", "gone"}
    BY ZenonT(30), <2>1 DEF IInv, Core, Channel, Sound
  <2>3. ~Pending(o)
    BY <2>1, NotPending DEF IInv
  <2>4. LoopMoves /\ Room'
    BY LoopStays DEF IInv, Close
  <2> HIDE DEF c
  <2>5. Core' /\ Advance
    BY <2>1, <2>2, <2>3, <2>4, <1>RequestCloseCore DEF IInv, c
  <2>6. buf' \in Queues /\ wire' \in Queues /\ resetting' \in Resets
    BY <2>1, <2>2, <1>RequestCloseTypes DEF IInv, Traffic
  <2> QED
    BY <2>4, <2>5, <2>6 DEF IInv, Traffic, Close

<1>DestructTypes.
      ASSUME NEW o \in Objs, NEW chs, Destruct(o, obj[o], chs)
      PROVE  buf' \in Queues /\ wire' \in Queues /\ resetting' \in Resets
  <2> USE <1>DestructTypes
  <2>1. obj[o].node \in Nodes /\ obj[o].id \in Ids
    BY DEF IInv, Core, Channel
  <2>2. \/ ResetStreams(obj[o].node, obj[o].id, wire, resetting)
        \/ UNCHANGED <<buf, wire, resetting>>
    BY DEF Destruct
  <2> QED
    BY <2>1, <2>2, <1>ResetTypes DEF IInv, Traffic

<1>DestructCore.
      ASSUME LoopMoves, NEW o \in Objs, Destruct(o, obj[o], channels),
             \A m \in Nodes : loop[m].at = "ack" /\ loop[m].o = o
                                  => loop'[m].at # "ack"
      PROVE  Core' /\ Advance
  <2> USE <1>DestructCore
  <2> DEFINE d == Gone(obj[o])
  <2>1. d \in Channel /\ Sound(d) /\ d.state = "gone"
    BY GoneSound DEF IInv, Core
  <2>2. /\ obj' = [obj EXCEPT ![o] = d]
        /\ channels' = [channels EXCEPT ![obj[o].node][obj[o].id] = None]
    BY DEF Destruct
  <2> HIDE DEF d
  <2> QED
    BY <2>1, <2>2, <1>DestroyedChannel DEF IInv

<1>ReleaseStep.
      ASSUME NEW o \in Objs, Release(o)
      PROVE  IInv' /\ Advance
  <2> USE <1>ReleaseStep
  <2> DEFINE n == obj[o].node
             v == cache[n] - Bytes(obj[o].q)
  <2>1. n \in Nodes /\ obj[o].held /\ Destruct(o, obj[o], channels)
    BY DEF IInv, Core, Channel, Release
  <2>2. LoopMoves /\ Room'
    <3>1. cache' = [cache EXCEPT ![n] = v]
      BY <2>1 DEF Release, IInv, Room
    <3>2. loop' = IF loop[n].at = "full" THEN [loop EXCEPT ![n].at = "hop"]
                  ELSE loop
      BY DEF Release
    <3> HIDE DEF n, v
    <3> QED
      BY <2>1, <3>1, <3>2, LoopHops DEF IInv
  <2>3. ~Pending(o)
    BY <2>1, NotPending DEF IInv
  <2>4. Core' /\ Advance
    BY <2>1, <2>2, <2>3, <1>DestructCore DEF Pending
  <2>5. buf' \in Queues /\ wire' \in Queues /\ resetting' \in Resets
    BY <2>1, <1>DestructTypes
  <2> QED
    BY <2>2, <2>4, <2>5 DEF IInv, Traffic, Release

<1>StartStep.
      ASSUME NEW n \in Nodes, Start(n)
      PROVE  IInv' /\ Advance
  <2> USE <1>StartStep
  <2> DEFINE l == [loop[n] EXCEPT !.at = "read"]
  <2>1. l \in LoopAt /\ l.at = "read" /\ loop' = [loop EXCEPT ![n] = l]
    BY DEF IInv, Core, LoopAt, Start
  <2> HIDE DEF l
  <2>2. LoopMoves /\ Room'
    BY <2>1, LoopTo DEF IInv, Start
  <2>3. Core' /\ Advance
    BY <2>2, <1>CoreKept DEF IInv, Start
  <2> QED
    BY <2>2, <2>3 DEF IInv, Traffic, Start, sctpVars

<1>StopStep.
      ASSUME NEW n \in Nodes, Stop(n)
      PROVE  IInv' /\ Advance
  <2> USE <1>StopStep
  <2>1. LoopMoves /\ Room'
    BY LoopStays DEF IInv, Stop
  <2>2. Core' /\ Advance
    BY <2>1, <1>StopCore DEF IInv, Stop
  <2>3. ended' \in [Nodes -> {"no", "hop", "cut", "eof"}]
    BY DEF IInv, Traffic, Stop
  <2> QED
    BY <2>1, <2>2, <2>3 DEF IInv, Traffic, Stop, sctpVars

\* Calls that go on.
<1>ReadTurnStep.
      ASSUME NEW o \in Objs, ReadTurn(o)
      PROVE  IInv' /\ Advance
  <2> USE <1>ReadTurnStep
  <2> DEFINE c == obj[o]
             d == IF c.reader = "hop" THEN [c EXCEPT !.q = Tail(@)] ELSE c
             e == Serve(d, c.readers)
  <2>1. c \in Channel /\ Sound(c) /\ c.node \in Nodes /\ c.state \in States
        /\ c.readers \in Nat
    BY DEF IInv, Core, Channel
  <2>2. /\ d \in Channel /\ d.node = c.node /\ d.id = c.id /\ d.state = c.state
        /\ d.held = c.held /\ d.closer = c.closer
    <3>1. CASE c.reader = "hop"
      <4>1. c.q \in Seq(Sizes \cup {0}) /\ c.q # <<>>
        BY <3>1, <2>1 DEF Sound, Channel
      <4>2. Tail(c.q) \in Seq(Sizes \cup {0})
        BY <4>1, HeadTailProperties
      <4> QED
        BY <3>1, <4>2, <2>1 DEF Channel
    <3>2. CASE c.reader # "hop"
      BY <3>2, <2>1
    <3> QED
      BY <3>1, <3>2
  <2> HIDE DEF d
  <2>3. /\ e \in Channel /\ Sound(e) /\ e.node = c.node /\ e.id = c.id
        /\ e.state = c.state /\ e.held = c.held
    <3>1. /\ d.closer = "wait" => d.state = "closing"
          /\ d.closer = "hop" => d.state = "closed"
          /\ d.held => d.state \notin {"none", "gone"}
      BY <2>1, <2>2 DEF Sound
    <3>2. /\ e \in Channel /\ Sound(e) /\ e.node = d.node /\ e.id = d.id
          /\ e.state = d.state /\ e.held = d.held
      BY <2>1, <2>2, <3>1, ServeSound
    <3> QED
      BY <3>2, <2>2
  <2>4. obj' = [obj EXCEPT ![o] = e] /\ Freed(c.node, c, e) /\ UNCHANGED channels
    BY DEF ReadTurn, d
  <2> HIDE DEF e
  <2>5. LoopMoves /\ Room'
    BY <2>1, <2>4, FreedRoom DEF IInv
  <2>6. Core' /\ Advance
    <3>1. Rank(c.state) <= Rank(e.state)
      BY SMT, <2>1, <2>3, <1>RankRange
    <3> QED
      BY <2>1, <2>3, <2>4, <2>5, <3>1, <1>OneChannel DEF IInv
  <2> QED
    BY <2>5, <2>6 DEF IInv, Traffic, ReadTurn, sctpVars

<1>CloseTurnStep.
      ASSUME NEW o \in Objs, CloseTurn(o)
      PROVE  IInv' /\ Advance
  <2> USE <1>CloseTurnStep
  <2> DEFINE d == [obj[o] EXCEPT !.closer = "idle"]
  <2>1. obj[o] \in Channel /\ Sound(obj[o]) /\ obj[o].state \in States
    BY DEF IInv, Core, Channel
  <2>2. /\ d \in Channel /\ Sound(d) /\ d.node = obj[o].node /\ d.id = obj[o].id
        /\ d.state = obj[o].state /\ d.held = obj[o].held
    BY <2>1 DEF Channel, Sound
  <2>3. obj' = [obj EXCEPT ![o] = d] /\ UNCHANGED channels
    BY DEF CloseTurn, IInv, Core
  <2> HIDE DEF d
  <2>4. LoopMoves /\ Room'
    BY LoopStays DEF IInv, CloseTurn
  <2>5. Core' /\ Advance
    <3>1. Rank(obj[o].state) <= Rank(d.state)
      BY SMT, <2>1, <2>2, <1>RankRange
    <3> QED
      BY <2>2, <2>3, <2>4, <3>1, <1>OneChannel DEF IInv
  <2> QED
    BY <2>4, <2>5 DEF IInv, Traffic, CloseTurn, sctpVars

\* read_loop().
<1>AcceptStep.
      ASSUME NEW n \in Nodes, NEW sid \in Ids, NEW size \in Sizes \cup {0}, NEW rest,
             Accept(n, sid, size, rest), UNCHANGED channels
      PROVE  Core' /\ Room' /\ Advance
  <2> USE <1>AcceptStep
  <2> DEFINE o == channels[n][sid]
             l == [Idle EXCEPT !.at = "full", !.sid = sid, !.size = size]
  <2>1. CASE cache[n] + size > CacheMax /\ ended[n] # "cut"
    <3>1. UNCHANGED <<obj, cache>> /\ loop' = [loop EXCEPT ![n] = l]
      BY <2>1 DEF Accept
    <3>2. l \in LoopAt /\ l.at = "full" /\ l.size = size
      BY FullAt
    <3> HIDE DEF l
    <3>3. LoopMoves
      BY <3>1, <3>2 DEF LoopMoves, IInv, Core
    <3>4. Core' /\ Advance
      BY <3>1, <3>3, <1>CoreKept DEF IInv
    <3>5. ASSUME NEW m \in Nodes, loop'[m].at = "full"
          PROVE  cache'[m] + loop'[m].size > CacheMax
      <4>1. CASE m = n
        BY <4>1, <3>1, <3>2, <2>1 DEF IInv, Core
      <4>2. CASE m # n
        <5>1. loop'[m] = loop[m] /\ cache'[m] = cache[m]
          BY <4>2, <3>1 DEF IInv, Core
        <5> QED
          BY <5>1, <3>5 DEF IInv, Room, LoopWaitsForRoom
      <4> QED
        BY <4>1, <4>2
    <3>6. Room'
      BY <3>1, <3>5 DEF IInv, Room, LoopWaitsForRoom
    <3> QED
      BY <3>4, <3>6
  <2>2. CASE cache[n] + size > CacheMax /\ ended[n] = "cut"
    <3> DEFINE z == [Idle EXCEPT !.at = "done"]
    <3>1. UNCHANGED <<obj, cache>> /\ loop' = [loop EXCEPT ![n] = z]
      BY <2>2 DEF Accept
    <3>2. z \in LoopAt /\ z.at = "done"
      BY DoneAt
    <3> HIDE DEF z
    <3>3. LoopMoves /\ Room'
      BY <3>1, <3>2, LoopTo DEF IInv
    <3> QED
      BY <3>1, <3>3, <1>CoreKept DEF IInv
  <2>3. CASE ~(cache[n] + size > CacheMax) /\ o = None
    <3>1. UNCHANGED <<obj, cache>> /\ loop' = [loop EXCEPT ![n] = Onward(n, rest)]
      BY <2>3 DEF Accept
    <3>2. LoopMoves /\ Room'
      BY <3>1, OnwardAt, LoopTo DEF IInv
    <3> QED
      BY SMT, <3>1, <3>2, <1>CoreKept DEF IInv
  <2>4. CASE ~(cache[n] + size > CacheMax) /\ o # None
    <3> DEFINE d == Push(obj[o], size)
               v == cache[n] + size
    <3>1. /\ obj' = [obj EXCEPT ![o] = d] /\ cache' = [cache EXCEPT ![n] = v]
          /\ loop' = [loop EXCEPT ![n] = Onward(n, rest)]
      BY <2>4 DEF Accept, IInv, Core, Room
    <3>2. /\ o \in Objs /\ obj[o] \in Channel /\ Sound(obj[o])
          /\ obj[o].state \in States
      BY SMT, <2>4 DEF IInv, Core, Channel
    <3> HIDE DEF o, v
    <3>3. /\ d \in Channel /\ Sound(d) /\ d.node = obj[o].node /\ d.id = obj[o].id
          /\ d.state = obj[o].state /\ d.held = obj[o].held
      BY <3>2, PushSound
    <3> HIDE DEF d
    <3>4. LoopMoves /\ Room'
      BY ZenonT(30), <3>1, OnwardAt, LoopTo DEF IInv
    <3>5. Rank(obj[o].state) <= Rank(d.state)
      BY SMTT(30), <3>2, <3>3, <1>RankRange
    <3> QED
      BY <3>1, <3>2, <3>3, <3>4, <3>5, <1>OneChannel DEF IInv
  <2> QED
    BY <2>1, <2>2, <2>3, <2>4

<1>LoopDataStep.
      ASSUME NEW n \in Nodes, LoopData(n)
      PROVE  IInv' /\ Advance
  <2> USE <1>LoopDataStep
  <2>1. /\ inbox' \in [Nodes -> Seq(Message)]
        /\ Received(n).sid \in Ids /\ Received(n).size \in Sizes \cup {0}
    BY InboxTail DEF IInv, LoopData
  <2>2. UNCHANGED channels
    BY DEF LoopData
  <2>3. Core' /\ Room' /\ Advance
    <3>1. CASE Accept(n, Received(n).sid, Received(n).size, Tail(inbox[n]))
      BY <3>1, <2>1, <2>2, <1>AcceptStep
    <3>2. CASE /\ UNCHANGED <<obj, cache>>
               /\ loop' = [loop EXCEPT ![n] = Onward(n, Tail(inbox[n]))]
      BY <3>2, <2>2, OnwardAt, LoopTo, <1>CoreKept DEF IInv
    <3> QED
      BY <3>1, <3>2 DEF LoopData
  <2> QED
    BY <2>1, <2>3 DEF IInv, Traffic, LoopData

<1>LoopTurnStep.
      ASSUME NEW n \in Nodes, LoopTurn(n)
      PROVE  IInv' /\ Advance
  <2> USE <1>LoopTurnStep
  <2>1. loop[n].sid \in Ids /\ loop[n].size \in Sizes \cup {0}
    BY DEF IInv, Core, LoopAt
  <2>2. Core' /\ Room' /\ Advance
    BY <2>1, <1>AcceptStep DEF LoopTurn
  <2> QED
    BY <2>2 DEF IInv, Traffic, LoopTurn, sctpVars

<1>LoopOpenStep.
      ASSUME NEW n \in Nodes, NEW o \in Objs, LoopOpen(n, o)
      PROVE  IInv' /\ Advance
  <2> USE <1>LoopOpenStep
  <2> DEFINE i == Received(n).sid
             s == [o |-> o, kind |-> "ack", size |-> 0]
             d == Make(n, i)
  <2>1. inbox' \in [Nodes -> Seq(Message)] /\ i \in Ids
    BY InboxTail DEF IInv, LoopOpen
  <2>2. Core' /\ Room' /\ Advance /\ sendq' \in [Nodes -> Seq(Sending)]
    <3>1. CASE i < MaxStreams /\ ~Own(n, i) /\ channels[n][i] = None
      <4>1. /\ obj' = [obj EXCEPT ![o] = d] /\ UNCHANGED <<channels, cache>>
            /\ obj[o].state = "none"
            /\ sendq' = [sendq EXCEPT ![n] = Append(@, s)]
            /\ loop' = [loop EXCEPT ![n] = [Idle EXCEPT !.at = "ack", !.o = o]]
        BY <3>1 DEF LoopOpen, Fresh
      <4>2. s \in Sending
        BY DEF Sending
      <4> HIDE DEF i, s
      <4>3. /\ d \in Channel /\ Sound(d) /\ d.node = n /\ d.id = i
            /\ d.state = "connecting" /\ ~d.held
        BY <2>1, <1>MakeSound
      <4> HIDE DEF d
      <4>4. Core' /\ Advance
        BY <2>1, <3>1, <4>1, <4>3, <1>NewChannel DEF IInv
      <4>5. sendq' \in [Nodes -> Seq(Sending)]
        BY ZenonT(30), <4>1, <4>2, <1>SendqAppend DEF IInv
      <4>6. \A m \in Nodes : loop'[m].at = "full" => loop'[m] = loop[m]
        BY <4>1 DEF IInv, Core, Idle
      <4>7. Room'
        BY <4>1, <4>6 DEF IInv, Room, LoopWaitsForRoom
      <4> QED
        BY <4>4, <4>5, <4>7
    <3>2. CASE ~(i < MaxStreams /\ ~Own(n, i) /\ channels[n][i] = None)
      <4>1. /\ UNCHANGED <<obj, sendq, channels, cache>>
            /\ loop' = [loop EXCEPT ![n] = Onward(n, Tail(inbox[n]))]
        BY <3>2 DEF LoopOpen
      <4> QED
        BY <4>1, OnwardAt, LoopTo, <1>CoreKept DEF IInv, Traffic
    <3> QED
      BY <3>1, <3>2
  <2> QED
    BY <2>1, <2>2 DEF IInv, Traffic, LoopOpen

<1>LoopAckStep.
      ASSUME NEW n \in Nodes, LoopAck(n)
      PROVE  IInv' /\ Advance
  <2> USE <1>LoopAckStep
  <2> DEFINE i == Received(n).sid
             o == channels[n][i]
             d == [obj[o] EXCEPT !.state = "open", !.opened = TRUE]
  <2>1. inbox' \in [Nodes -> Seq(Message)] /\ i \in Ids
    BY ZenonT(30), InboxTail DEF IInv, LoopAck
  <2>2. LoopMoves /\ Room' /\ UNCHANGED channels
    BY OnwardAt, LoopTo DEF IInv, LoopAck
  <2>3. Core' /\ Advance
    <3>1. CASE o # None /\ obj[o].state = "connecting" /\ obj' # obj
      <4>1. o \in Objs /\ obj[o] \in Channel /\ Sound(obj[o])
        BY <3>1, <2>1 DEF IInv, Core
      <4>2. obj' = [obj EXCEPT ![o] = d]
        BY <3>1, <4>1 DEF LoopAck, IInv, Core
      <4>3. ~Pending(o)
        BY <2>1, <4>1, NotPending DEF IInv
      <4> HIDE DEF o, i
      <4>4. /\ d \in Channel /\ d.node = obj[o].node /\ d.id = obj[o].id
            /\ d.state = "open"
        BY <4>1 DEF Channel, States
      <4>5. Sound(d)
        BY <3>1, <4>1 DEF Channel, Sound
      <4> HIDE DEF d
      <4>6. Rank(obj[o].state) <= Rank(d.state)
        BY SMT, <3>1, <4>4, <1>Ranks
      <4> QED
        BY <2>2, <4>1, <4>2, <4>3, <4>4, <4>5, <4>6, <1>OneChannel DEF IInv
    <3>2. CASE obj' = obj
      BY <3>2, <2>2, <1>CoreKept DEF IInv
    <3> QED
      BY <3>1, <3>2 DEF LoopAck
  <2> QED
    BY <2>1, <2>2, <2>3 DEF IInv, Traffic, LoopAck

<1>LoopEndsStep.
      ASSUME NEW n \in Nodes, LoopEnds(n)
      PROVE  IInv' /\ Advance
  <2> USE <1>LoopEndsStep
  <2>1. LoopMoves /\ Room'
    BY DoneAt, LoopTo DEF IInv, LoopEnds
  <2>2. Core' /\ Advance
    BY <2>1, <1>StopCore DEF IInv, LoopEnds
  <2>3. ended' \in [Nodes -> {"no", "hop", "cut", "eof"}]
    BY DEF IInv, Traffic, LoopEnds
  <2> QED
    BY <2>1, <2>2, <2>3 DEF IInv, Traffic, LoopEnds, sctpVars

<1>StopTurnStep.
      ASSUME NEW n \in Nodes, StopTurn(n)
      PROVE  IInv' /\ Advance
  <2> USE <1>StopTurnStep
  <2> DEFINE l == [Idle EXCEPT !.at = "done"]
  <2>1. ended' \in [Nodes -> {"no", "hop", "cut", "eof"}]
    BY DEF IInv, Traffic, StopTurn
  <2>2. l \in LoopAt /\ l.at = "done"
    BY DoneAt
  <2>3. CASE loop[n].at = "ack"
    <3>1. /\ loop' = [loop EXCEPT ![n] = l] /\ UNCHANGED cache
          /\ Destruct(loop[n].o, obj[loop[n].o], channels)
      BY <2>3 DEF StopTurn
    <3> HIDE DEF l
    <3>2. LoopMoves /\ Room'
      BY ZenonT(30), <2>2, <3>1, LoopTo DEF IInv
    <3>3. /\ loop[n].o \in Objs
          /\ \A m \in Nodes : loop[m].at = "ack" /\ loop[m].o = loop[n].o => m = n
      BY SMT, <2>3 DEF IInv, Core, AckPending
    <3>4. loop'[n].at # "ack"
      BY <2>2, <3>1 DEF IInv, Core
    <3>5. Core' /\ Advance
      BY SMT, <3>1, <3>2, <3>3, <3>4, <1>DestructCore
    <3>6. buf' \in Queues /\ wire' \in Queues /\ resetting' \in Resets
      BY <3>1, <3>3, <1>DestructTypes
    <3>7. sendq' \in [Nodes -> Seq(Sending)]
      <4>1. PICK k \in DOMAIN sendq[n] :
              sendq' = [sendq EXCEPT ![n] = Without(@, k)]
        BY <2>3 DEF StopTurn
      <4>2. Without(sendq[n], k) \in Seq(Sending)
        BY RemoveType DEF IInv, Traffic
      <4> QED
        BY <4>1, <4>2 DEF IInv, Traffic
    <3> QED
      BY <2>1, <3>2, <3>5, <3>6, <3>7 DEF IInv, Traffic, StopTurn
  <2>4. CASE loop[n].at # "ack"
    <3>1. UNCHANGED <<obj, channels, sendq, buf, wire, resetting, cache>>
      BY <2>4 DEF StopTurn
    <3>2. loop' = loop \/ loop' = [loop EXCEPT ![n] = l]
      BY <2>4 DEF StopTurn
    <3> HIDE DEF l
    <3>3. LoopMoves /\ Room'
      BY <2>2, <3>1, <3>2, LoopTo, LoopStays DEF IInv
    <3>4. Core' /\ Advance
      BY <3>1, <3>3, <1>CoreKept DEF IInv
    <3> QED
      BY <2>1, <3>1, <3>3, <3>4 DEF IInv, Traffic, StopTurn
  <2> QED
    BY <2>3, <2>4

\* What the association tells.
<1>SendqTail.
      ASSUME Traffic, NEW n \in Nodes, sendq[n] # <<>>,
             sendq' = [sendq EXCEPT ![n] = Tail(@)]
      PROVE  sendq' \in [Nodes -> Seq(Sending)] /\ Head(sendq[n]) \in Sending
  <2> USE <1>SendqTail
  <2>1. Tail(sendq[n]) \in Seq(Sending) /\ Head(sendq[n]) \in Sending
    BY HeadTailProperties DEF Traffic
  <2> QED
    BY <2>1 DEF Traffic

<1>QueueSet.
      ASSUME NEW f \in Queues, NEW n \in Nodes, NEW i \in Ids,
             NEW q \in Seq(Message)
      PROVE  [f EXCEPT ![n][i] = q] \in Queues
  BY <1>QueueSet, <1>Nested DEF Queues

<1>QueueAppend.
      ASSUME NEW f \in Queues, NEW n \in Nodes, NEW i \in Ids, NEW m \in Message
      PROVE  [f EXCEPT ![n][i] = Append(@, m)] \in Queues
  <2> USE <1>QueueAppend
  <2>1. Append(f[n][i], m) \in Seq(Message)
    BY SMT, AppendProperties DEF Queues
  <2>2. [f EXCEPT ![n][i] = Append(@, m)] = [f EXCEPT ![n][i] = Append(f[n][i], m)]
    BY DEF Queues
  <2> QED
    BY <2>1, <2>2, <1>QueueSet

<1>QueueTail.
      ASSUME NEW f \in Queues, NEW n \in Nodes, NEW i \in Ids, f[n][i] # <<>>
      PROVE  /\ [f EXCEPT ![n][i] = Tail(@)] \in Queues
             /\ Head(f[n][i]) \in Message
  <2> USE <1>QueueTail
  <2>1. Tail(f[n][i]) \in Seq(Message) /\ Head(f[n][i]) \in Message
    BY HeadTailProperties DEF Queues
  <2>2. [f EXCEPT ![n][i] = Tail(@)] = [f EXCEPT ![n][i] = Tail(f[n][i])]
    BY DEF Queues
  <2> QED
    BY ZenonT(30), <2>1, <2>2, <1>QueueSet

<1>ResetsSet.
      ASSUME NEW f \in Resets, NEW n \in Nodes, NEW i \in Ids,
             NEW v \in {"no", "asked", "answered"}
      PROVE  [f EXCEPT ![n][i] = v] \in Resets
  BY <1>ResetsSet, <1>Nested DEF Resets

<1>SendEndsStep.
      ASSUME NEW n \in Nodes, SendEnds(n)
      PROVE  IInv' /\ Advance
  <2> USE <1>SendEndsStep
  <2> DEFINE s == Head(sendq[n])
             i == obj[s.o].id
             m == [sid |-> i, kind |-> s.kind, size |-> s.size]
  <2>1. sendq' \in [Nodes -> Seq(Sending)] /\ s \in Sending
    BY <1>SendqTail DEF IInv, SendEnds
  <2>2. i \in Ids
    BY <2>1 DEF IInv, Core, Channel, Sending
  <2>3. m \in Message
    BY ZenonT(30), <2>1, <2>2 DEF Sending, Message
  <2>4. buf' = buf \/ buf' = [buf EXCEPT ![n][i] = Append(@, m)]
    BY DEF SendEnds
  <2> HIDE DEF s, i, m
  <2>5. buf' \in Queues
    <3>1. buf \in Queues
      BY DEF IInv, Traffic
    <3>2. [buf EXCEPT ![n][i] = Append(@, m)] \in Queues
      BY <2>2, <2>3, <3>1, <1>QueueAppend
    <3> QED
      BY <2>4, <3>1, <3>2
  <2>6. LoopMoves /\ Room'
    BY ZenonT(30), LoopStays DEF IInv, SendEnds
  <2>7. Core' /\ Advance
    BY <2>6, <1>CoreKept DEF IInv, SendEnds
  <2> QED
    BY <2>1, <2>5, <2>6, <2>7 DEF IInv, Traffic, SendEnds

<1>AckSentStep.
      ASSUME NEW n \in Nodes, AckSent(n)
      PROVE  IInv' /\ Advance
  <2> USE <1>AckSentStep
  <2> DEFINE o == loop[n].o
             c == [obj[o] EXCEPT !.state = "open", !.opened = TRUE]
             i == c.id
             m == [sid |-> i, kind |-> "ack", size |-> 0]
             h == [c EXCEPT !.held = TRUE]
             g == Gone(c)
  <2>1. sendq' \in [Nodes -> Seq(Sending)] /\ loop[n].at = "ack"
    BY ZenonT(30), <1>SendqTail DEF IInv, AckSent
  <2>2. loop' = [loop EXCEPT ![n] = Onward(n, inbox[n])] /\ UNCHANGED cache
    BY DEF AckSent
  <2>3. LoopMoves /\ Room'
    BY <2>2, OnwardAt, LoopTo DEF IInv
  <2>4. /\ o \in Objs /\ obj[o] \in Channel /\ Sound(obj[o])
        /\ obj[o].state = "connecting" /\ obj[o].node = n /\ obj[o].id < MaxStreams
    BY <2>1 DEF IInv, Core, AckPending
  <2>5. c \in Channel /\ c.id = obj[o].id /\ i \in Ids /\ i < MaxStreams
    BY <2>4 DEF Channel, States
  <2>6. next' \in [Nodes -> Ids]
    <3>1. next' = [next EXCEPT ![n] = After(i)]
      BY DEF AckSent
    <3> HIDE DEF i
    <3>2. After(i) \in Ids
      BY <2>5, AfterId
    <3> QED
      BY <3>1, <3>2 DEF IInv, Traffic
  <2>7. m \in Message
    BY <2>5 DEF Message
  <2>8. /\ h \in Channel /\ Sound(h) /\ h.state = "open" /\ h.node = n
        /\ h.id = obj[o].id
    BY ZenonT(30), <2>4 DEF Channel, Sound, States
  <2>9. g \in Channel /\ Sound(g) /\ g.state = "gone"
    BY <2>5, GoneSound
  <2>10. CASE plan.accepts /\ ended[n] = "no"
    <3>1. /\ obj' = [obj EXCEPT ![o] = h]
          /\ channels' = [channels EXCEPT ![n][i] = o]
          /\ buf' = [buf EXCEPT ![n][i] = Append(@, m)]
          /\ UNCHANGED <<wire, resetting>>
      BY ZenonT(30), <2>10 DEF AckSent
    <3>2. channels' = [channels EXCEPT ![n][h.id] = loop[n].o]
      BY ZenonT(30), <3>1, <2>5, <2>8
    <3> HIDE DEF i, m, c, h, g
    <3>3. buf' \in Queues
      BY <3>1, <2>5, <2>7, <1>QueueAppend DEF IInv, Traffic
    <3>4. Core' /\ Advance
      BY ZenonT(30), <2>1, <2>2, <2>8, <3>1, <3>2, OnwardAt, <1>AnsweredChannel DEF IInv
    <3> QED
      BY <2>1, <2>3, <2>6, <3>1, <3>3, <3>4 DEF IInv, Traffic, AckSent
  <2>11. CASE ~(plan.accepts /\ ended[n] = "no")
    <3> DEFINE chs == [channels EXCEPT ![n][i] = o]
    <3>1. obj' = [obj EXCEPT ![o] = g] /\ channels' = [chs EXCEPT ![n][i] = None]
      BY ZenonT(30), <2>11 DEF AckSent
    <3>2. channels' = [channels EXCEPT ![n][i] = None]
      BY ZenonT(30), <3>1, <2>5 DEF IInv, Core
    <3>3. channels' = [channels EXCEPT ![obj[o].node][obj[o].id] = None]
      BY <3>2, <2>4, <2>5
    <3>4. \A k \in Nodes : loop[k].at = "ack" /\ loop[k].o = o
                              => loop'[k].at # "ack"
      <4>1. \A k \in Nodes : loop[k].at = "ack" /\ loop[k].o = o => k = n
        BY <2>4 DEF IInv, Core, AckPending
      <4>2. loop'[n] = Onward(n, inbox[n])
        BY <2>2 DEF IInv, Core
      <4> QED
        BY <4>1, <4>2, OnwardAt
    <3> HIDE DEF g
    <3>5. Core' /\ Advance
      BY <2>3, <2>4, <2>9, <3>1, <3>3, <3>4, <1>DestroyedChannel DEF IInv
    <3>6. buf' \in Queues /\ wire' \in Queues /\ resetting' \in Resets
      <4>1. CASE resetting[n][i] # "no"
        <5>1. /\ buf' = [buf EXCEPT ![n][i] = Append(@, m)]
              /\ UNCHANGED <<wire, resetting>>
          BY <2>11, <4>1 DEF AckSent
        <5> HIDE DEF i, m
        <5> QED
          BY ZenonT(30), <5>1, <2>5, <2>7, <1>QueueAppend DEF IInv, Traffic
      <4>2. CASE resetting[n][i] = "no"
        <5>1. /\ buf' = [buf EXCEPT ![n][i] = <<>>]
              /\ resetting' = [resetting EXCEPT ![n][i] = "asked"]
              /\ \E sent \in {<<>>, buf[n][i] \o <<m>>} :
                   wire' = [wire EXCEPT ![n][i] = @ \o sent \o <<Reset(i)>>]
          BY ZenonT(30), <2>11, <4>2 DEF AckSent
        <5>2. PICK sent \in {<<>>, buf[n][i] \o <<m>>} :
                wire' = [wire EXCEPT ![n][i] = @ \o sent \o <<Reset(i)>>]
          BY <5>1
        <5> HIDE DEF i, m
        <5>3. /\ <<m>> \in Seq(Message) /\ <<Reset(i)>> \in Seq(Message)
              /\ buf[n][i] \in Seq(Message) /\ wire[n][i] \in Seq(Message)
              /\ <<>> \in Seq(Message)
          BY SMT, <2>5, <2>7, ResetMessage DEF IInv, Traffic, Queues
        <5>4. sent \in Seq(Message)
          <6>1. buf[n][i] \o <<m>> \in Seq(Message)
            BY <5>3, ConcatProperties
          <6> QED
            BY ZenonT(30), <5>3, <6>1
        <5>5. wire[n][i] \o sent \o <<Reset(i)>> \in Seq(Message)
          BY <5>3, <5>4, ConcatProperties
        <5>6. wire' = [wire EXCEPT ![n][i] = wire[n][i] \o sent \o <<Reset(i)>>]
          BY <5>2, <2>5 DEF IInv, Traffic, Queues
        <5> QED
          BY ZenonT(30), <2>5, <5>1, <5>3, <5>5, <5>6, <1>QueueSet, <1>ResetsSet DEF IInv, Traffic
      <4> QED
        BY <4>1, <4>2
    <3> QED
      BY <2>1, <2>3, <2>6, <3>5, <3>6 DEF IInv, Traffic, AckSent
  <2> QED
    BY <2>10, <2>11

<1>AckFailsStep.
      ASSUME NEW n \in Nodes, AckFails(n)
      PROVE  IInv' /\ Advance
  <2> USE <1>AckFailsStep
  <2> DEFINE o == loop[n].o
  <2>1. sendq' \in [Nodes -> Seq(Sending)] /\ loop[n].at = "ack"
    BY <1>SendqTail DEF IInv, AckFails
  <2>2. LoopMoves /\ Room'
    BY OnwardAt, LoopTo DEF IInv, AckFails
  <2>3. /\ o \in Objs
        /\ \A m \in Nodes : loop[m].at = "ack" /\ loop[m].o = o => m = n
    BY SMTT(30), <2>1 DEF IInv, Core, AckPending
  <2>4. loop'[n].at # "ack"
    <3>1. loop'[n] = Onward(n, inbox[n])
      BY DEF IInv, Core, AckFails
    <3> QED
      BY <3>1, OnwardAt
  <2>5. Destruct(o, obj[o], channels)
    BY DEF AckFails
  <2>6. Core' /\ Advance
    BY SMTT(30), <2>2, <2>3, <2>4, <2>5, <1>DestructCore
  <2>7. buf' \in Queues /\ wire' \in Queues /\ resetting' \in Resets
    BY <2>3, <2>5, <1>DestructTypes
  <2> QED
    BY <2>1, <2>2, <2>6, <2>7 DEF IInv, Traffic, AckFails

<1>TransmitStep.
      ASSUME NEW n \in Nodes, NEW i \in Ids, Transmit(n, i)
      PROVE  IInv' /\ Advance
  <2> USE <1>TransmitStep
  <2> DEFINE w == [wire EXCEPT ![n][i] = Append(@, Head(buf[n][i]))]
  <2>1. /\ buf \in Queues /\ wire \in Queues /\ resetting \in Resets
        /\ buf[n][i] # <<>>
    BY DEF IInv, Traffic, Transmit
  <2>2. /\ [buf EXCEPT ![n][i] = Tail(@)] \in Queues
        /\ Head(buf[n][i]) \in Message
    BY <2>1, <1>QueueTail
  <2>3. w \in Queues
    BY <2>1, <2>2, <1>QueueAppend
  <2>4. \/ ResetStreams(n, i, w, resetting)
        \/ /\ wire' = w /\ buf' = [buf EXCEPT ![n][i] = Tail(@)]
           /\ UNCHANGED resetting
    BY DEF Transmit
  <2> HIDE DEF w
  <2>5. buf' \in Queues /\ wire' \in Queues /\ resetting' \in Resets
    BY ZenonT(30), <2>1, <2>2, <2>3, <2>4, <1>ResetTypes DEF IInv
  <2>6. LoopMoves /\ Room'
    BY LoopStays DEF IInv, Transmit
  <2>7. Core' /\ Advance
    BY <2>6, <1>CoreKept DEF IInv, Transmit
  <2> QED
    BY <2>5, <2>6, <2>7 DEF IInv, Traffic, Transmit

<1>DeliverStep.
      ASSUME NEW n \in Nodes, NEW i \in Ids, Deliver(n, i)
      PROVE  IInv' /\ Advance
  <2> USE <1>DeliverStep
  <2> DEFINE m == Peer(n)
             h == Head(wire[n][i])
  <2>1. m \in Nodes /\ wire \in Queues /\ wire[n][i] # <<>>
    BY DEF IInv, Traffic, Deliver, Peer, Nodes
  <2>2. [wire EXCEPT ![n][i] = Tail(@)] \in Queues /\ h \in Message
    BY <2>1, <1>QueueTail
  <2>3. inbox' = [inbox EXCEPT ![m] = Append(@, h)]
    BY DEF Deliver
  <2> HIDE DEF m, h
  <2>4. inbox' \in [Nodes -> Seq(Message)]
    <3>1. Append(inbox[m], h) \in Seq(Message)
      BY <2>1, <2>2, AppendProperties DEF IInv, Traffic
    <3> QED
      BY <2>3, <3>1 DEF IInv, Traffic
  <2>5. LoopMoves /\ Room'
    BY LoopStays DEF IInv, Deliver
  <2>6. Core' /\ Advance
    BY <2>5, <1>CoreKept DEF IInv, Deliver
  <2>7. wire' \in Queues
    BY <2>2 DEF Deliver
  <2> QED
    BY <2>4, <2>5, <2>6, <2>7 DEF IInv, Traffic, Deliver

<1>DenyResetStep.
      ASSUME NEW n \in Nodes, NEW i \in Ids, DenyReset(n, i)
      PROVE  IInv' /\ Advance
  <2> USE <1>DenyResetStep
  <2>1. wire \in Queues /\ wire[n][i] # <<>> /\ resetting \in Resets
    BY DEF IInv, Traffic, DenyReset
  <2>2. wire' \in Queues /\ resetting' \in Resets
    BY <2>1, <1>QueueTail, <1>ResetsSet DEF DenyReset
  <2>3. LoopMoves /\ Room'
    BY LoopStays DEF IInv, DenyReset
  <2>4. Core' /\ Advance
    BY <2>3, <1>CoreKept DEF IInv, DenyReset
  <2> QED
    BY <2>2, <2>3, <2>4 DEF IInv, Traffic, DenyReset

<1>IncomingResetStep.
      ASSUME NEW n \in Nodes, NEW i \in Ids, IncomingReset(n, i)
      PROVE  IInv' /\ Advance
  <2> USE <1>IncomingResetStep
  <2> DEFINE m == Peer(n)
             o == Found(n, i)
             w == [wire EXCEPT ![m][i] = Tail(@)]
             r == [resetting EXCEPT ![m][i] = "answered"]
  <2>1. m \in Nodes /\ wire[m][i] # <<>>
    BY DEF IncomingReset, Peer, Nodes
  <2>2. /\ buf \in Queues /\ wire \in Queues /\ resetting \in Resets
    BY DEF IInv, Traffic
  <2>3. UNCHANGED <<channels, loop, cache>>
    BY DEF IncomingReset
  <2>4. \/ o # None /\ RequestClose(o, obj[o], w, r)
        \/ wire' = w /\ resetting' = r /\ UNCHANGED <<obj, buf>>
    BY DEF IncomingReset
  <2> HIDE DEF m
  <2>5. w \in Queues /\ r \in Resets
    BY <2>1, <2>2, <1>QueueTail, <1>ResetsSet
  <2> HIDE DEF w, r
  <2>6. LoopMoves /\ Room'
    BY <2>3, LoopStays DEF IInv
  <2>7. Core' /\ Advance /\ buf' \in Queues /\ wire' \in Queues /\ resetting' \in Resets
    <3>1. CASE o # None /\ RequestClose(o, obj[o], w, r)
      <4>1. o \in Objs /\ ~Pending(o) /\ obj[o].state \notin {"none", "gone"}
        BY <3>1, FoundChannel
      <4> HIDE DEF o
      <4>2. obj[o] \in Channel
        BY <4>1 DEF IInv, Core
      <4>3. Core' /\ Advance
        BY <2>3, <2>6, <3>1, <4>1, <1>RequestCloseCore DEF IInv
      <4>4. buf' \in Queues /\ wire' \in Queues /\ resetting' \in Resets
        BY <2>5, <3>1, <4>1, <4>2, <1>RequestCloseTypes DEF IInv
      <4> QED
        BY <4>3, <4>4
    <3>2. CASE wire' = w /\ resetting' = r /\ UNCHANGED <<obj, buf>>
      BY <2>2, <2>3, <2>5, <2>6, <3>2, <1>CoreKept DEF IInv
    <3> QED
      BY <2>4, <3>1, <3>2
  <2> QED
    BY <2>6, <2>7 DEF IInv, Traffic, IncomingReset

<1>OutgoingResetStep.
      ASSUME NEW n \in Nodes, NEW i \in Ids, OutgoingReset(n, i)
      PROVE  IInv' /\ Advance
  <2> USE <1>OutgoingResetStep
  <2> DEFINE o == Found(n, i)
             d == Closed(obj[o])
  <2>1. resetting' \in Resets
    BY <1>ResetsSet DEF IInv, Traffic, OutgoingReset
  <2>2. LoopMoves /\ Room' /\ UNCHANGED channels
    BY LoopStays DEF IInv, OutgoingReset
  <2>3. Core' /\ Advance
    <3>1. CASE o # None
      <4>1. o \in Objs /\ ~Pending(o) /\ obj[o].state \notin {"none", "gone"}
        BY <3>1, FoundChannel
      <4>2. obj' = [obj EXCEPT ![o] = d]
        BY <3>1, <4>1 DEF OutgoingReset, IInv, Core
      <4> HIDE DEF o
      <4>3. obj[o] \in Channel /\ Sound(obj[o]) /\ obj[o].state \in States
        BY <4>1 DEF IInv, Core, Channel
      <4>4. /\ d \in Channel /\ Sound(d) /\ d.node = obj[o].node
            /\ d.id = obj[o].id /\ d.state = "closed"
        BY <4>1, <4>3, ClosedSound
      <4> HIDE DEF d
      <4>5. Rank(obj[o].state) <= Rank(d.state)
        BY SMT, <4>1, <4>3, <4>4, <1>Ranks DEF States
      <4> QED
        BY ZenonT(30), <2>2, <4>1, <4>2, <4>4, <4>5, <1>OneChannel DEF IInv
    <3>2. CASE o = None
      <4>1. UNCHANGED <<obj, channels>>
        BY <3>2 DEF OutgoingReset
      <4> QED
        BY <2>2, <4>1, <1>CoreKept DEF IInv
    <3> QED
      BY <3>1, <3>2
  <2> QED
    BY <2>1, <2>2, <2>3 DEF IInv, Traffic, OutgoingReset

<1>DownStep.
      ASSUME NEW n \in Nodes, Down(n)
      PROVE  IInv' /\ Advance
  <2> USE <1>DownStep
  <2> DEFINE e == [i \in Ids |-> <<>>]
             z == [i \in Ids |-> "no"]
  <2>1. /\ e \in [Ids -> Seq(Message)]
        /\ z \in [Ids -> {"no", "asked", "answered"}] /\ Peer(n) \in Nodes
    BY SMT DEF Peer, Nodes
  <2>2. /\ buf' = [buf EXCEPT ![n] = e]
        /\ wire' = [wire EXCEPT ![n] = e, ![Peer(n)] = e]
        /\ resetting' = [resetting EXCEPT ![n] = z]
        /\ up' = [up EXCEPT ![n] = FALSE]
    BY DEF Down
  <2> HIDE DEF e, z
  <2>3. buf' \in Queues
    BY <2>1, <2>2 DEF IInv, Traffic, Queues
  <2>4. wire' \in Queues
    BY <2>1, <2>2 DEF IInv, Traffic, Queues
  <2>5. resetting' \in Resets
    BY <2>1, <2>2 DEF IInv, Traffic, Resets
  <2>6. up' \in [Nodes -> BOOLEAN]
    BY <2>2 DEF IInv, Traffic
  <2>7. inbox' \in [Nodes -> Seq(Message)]
    <3>1. PICK kept \in {<<>>, inbox[n]} : inbox' = [inbox EXCEPT ![n] = kept]
      BY DEF Down
    <3>2. kept \in Seq(Message)
      <4>1. <<>> \in Seq(Message) /\ inbox[n] \in Seq(Message)
        BY SMTT(30) DEF IInv, Traffic
      <4> QED
        BY <4>1
    <3> QED
      BY <3>1, <3>2 DEF IInv, Traffic
  <2>8. LoopMoves /\ Room'
    BY LoopStays DEF IInv, Down
  <2>9. Core' /\ Advance
    BY <2>8, <1>CoreKept DEF IInv, Down
  <2> QED
    BY <2>3, <2>4, <2>5, <2>6, <2>7, <2>8, <2>9 DEF IInv, Traffic, Down

\* The managers.
<1>Unchanged.
      ASSUME UNCHANGED vars
      PROVE  IInv' /\ Advance
  <2> USE <1>Unchanged
  <2>1. LoopMoves /\ Room'
    BY LoopStays DEF IInv, vars
  <2>2. Core' /\ Advance
    BY <2>1, <1>CoreKept DEF IInv, vars
  <2> QED
    BY <2>1, <2>2 DEF IInv, Traffic, vars

\* The steps.
<1>1. CASE ApplicationStep
  BY <1>1, <1>StartStep, <1>StopStep, <1>CreateStep, <1>CreateNegotiatedStep, <1>SendStep,
     <1>ReadStep, <1>CloseStep, <1>ReleaseStep DEF ApplicationStep
<1>2. CASE PostedStep
  BY <1>2, <1>ReadTurnStep, <1>CloseTurnStep, <1>LoopTurnStep, <1>StopTurnStep
     DEF PostedStep
<1>3. CASE LoopStep
  BY <1>3, <1>LoopDataStep, <1>LoopAckStep, <1>LoopEndsStep, <1>LoopOpenStep DEF LoopStep
<1>4. CASE SctpStep
  BY <1>4, <1>SendEndsStep, <1>AckSentStep, <1>AckFailsStep, <1>TransmitStep, <1>DeliverStep,
     <1>IncomingResetStep, <1>DenyResetStep, <1>OutgoingResetStep DEF SctpStep
<1>5. CASE \E n \in Nodes : Down(n)
  BY <1>5, <1>DownStep
<1>6. CASE UNCHANGED vars
  BY <1>6, <1>Unchanged
<1> QED
  BY <1>1, <1>2, <1>3, <1>4, <1>5, <1>6 DEF Next

\* Every channel, its table entry and the loop that refers to it are sound, and
\* every variable has its type, in every state the two managers reach.
THEOREM Inductive == Spec => []IInv
<1>1. IInv /\ [Next]_vars => IInv'
  BY NextKeeps
<1> QED
  BY InitHolds, <1>1, PTL DEF Spec

\* No raw pointer of _channels is used after ~data_channel(): whatever the
\* applications, the opens of the other side and the resets do, an entry is a
\* live channel of that id.
THEOREM EntriesLiveAlways == Spec => []EntriesLive
<1>1. IInv => EntriesLive
  BY DEF IInv, Core
<1> QED
  BY <1>1, Inductive, PTL

\* The assertion of read() holds, and no read() waits with a message in the
\* queue, on a closed channel, or behind a mutex nobody holds.
THEOREM ReaderFindsAlways == Spec => []ReaderFinds
<1>1. IInv => ReaderFinds
  BY DEF IInv, Core, Sound, ReaderFinds
<1> QED
  BY <1>1, Inductive, PTL

\* A close() that waits is told of one change of state, the last.
THEOREM CloseReturnsClosedAlways == Spec => []CloseReturnsClosed
<1>1. IInv => CloseReturnsClosed
  BY DEF IInv, Core, Sound, CloseReturnsClosed
<1> QED
  BY <1>1, Inductive, PTL

\* read_loop() never waits for room its message already has.
THEOREM LoopWaitsForRoomAlways == Spec => []LoopWaitsForRoom
<1>1. IInv => LoopWaitsForRoom
  BY DEF IInv, Room
<1> QED
  BY <1>1, Inductive, PTL

\* No answer, reset or stop takes a channel back to an earlier state.
THEOREM StatesAdvanceAlways == Spec => StatesAdvance
<1>1. IInv /\ [Next]_vars => [Advance]_vars
  BY NextKeeps
<1> QED
  BY <1>1, Inductive, PTL DEF Spec, StatesAdvance, Advance

-----------------------------------------------------------------------------
(* The two ends of a channel: every open and every answer that is under    *)
(* way was sent by a channel of the side it comes from.                    *)

LEMMA FreshEmpty ==
    ASSUME Books, NEW o \in Objs, Fresh(o)
    PROVE  obj[o] = Unmade /\ obj[o].state = "none" /\ obj[o].q = <<>>
BY SMT DEF Books, Table, UnmadeYet, Fresh, Unmade

LEMMA GoneFields ==
    ASSUME NEW c
    PROVE  /\ Gone(c).state = "gone" /\ Gone(c).node = c.node /\ Gone(c).id = c.id
           /\ Gone(c).negotiated = c.negotiated /\ Gone(c).q = <<>>
BY DEF Gone, Unmade

\* No channel is forgotten, and none opens.
Grows == \A o \in Objs : /\ obj[o].state # "none" => /\ obj'[o].node = obj[o].node
                                                     /\ obj'[o].id = obj[o].id
                                                     /\ obj'[o].state # "none"
                         /\ obj[o].opened => obj'[o].opened
Shut == \A o \in Objs : obj'[o].opened => obj[o].opened

AckStays == \A n \in Nodes : loop'[n].at = "ack" =>
                                 loop[n].at = "ack" /\ loop'[n].o = loop[n].o

LEMMA OpenedMade == ASSUME Books, NEW o \in Objs, obj[o].opened PROVE obj[o].state # "none"
BY SMT DEF Books, Table, UnmadeYet, Unmade

LEMMA OpensPair == ASSUME Books, OtherEnds(obj) PROVE OpensPaired
<1> SUFFICES ASSUME NEW o \in Objs, obj[o].opened
             PROVE  \E p \in Objs : /\ obj[p].node = Peer(obj[o].node)
                                    /\ obj[p].id = obj[o].id /\ obj[p].state # "none"
                                    /\ Own(obj[o].node, obj[o].id) => obj[p].opened
  BY DEF OpensPaired
<1>1. CASE Own(obj[o].node, obj[o].id)
  BY <1>1, OpenedMade DEF OtherEnds, OpenAt
<1>2. CASE ~Own(obj[o].node, obj[o].id)
  BY <1>2 DEF OtherEnds, MadeAt
<1> QED
  BY <1>1, <1>2

LEMMA EmptyPost == ASSUME NEW S PROVE <<>> \in Seq(S)
BY SMT

-----------------------------------------------------------------------------
(* The two sides.                                                          *)

LEMMA InitPaired == Init => Paired
<1> SUFFICES ASSUME Init PROVE Paired
  BY SMT
<1>1. /\ obj = [o \in Objs |-> Unmade] /\ loop = [n \in Nodes |-> Idle]
      /\ sendq = [n \in Nodes |-> <<>>] /\ inbox = [n \in Nodes |-> <<>>]
      /\ buf = [n \in Nodes |-> [i \in Ids |-> <<>>]]
      /\ wire = [n \in Nodes |-> [i \in Ids |-> <<>>]]
  BY DEF Init
<1>2. OtherEnds(obj) /\ Asked
  BY <1>1 DEF OtherEnds, Asked, Unmade, Idle
<1>3. Mail(buf, wire, inbox, sendq, obj)
  BY <1>1, EmptyPost DEF Mail, Posted, Arrived, ToSend, Queues
<1> QED
  BY <1>2, <1>3 DEF Paired

\* Every step keeps the ends paired: what the steps have in common, then one named
\* step for each action.
LEMMA NextPaired ==
    ASSUME IInv, Books, Paired, [Next]_vars
    PROVE  Paired'

\* What has been made and opened, and what that backs.
<1>Peers. \A n \in Nodes : Peer(n) \in Nodes /\ Peer(Peer(n)) = n
  BY DEF Peer, Nodes

<1>GrowsAt.
      ASSUME Grows
      PROVE  \A n, i : /\ MadeAt(obj, n, i) => MadeAt(obj', n, i)
                       /\ OpenAt(obj, n, i) => OpenAt(obj', n, i)
  <2> USE <1>GrowsAt
  <2>1. \A n, i : MadeAt(obj, n, i) => MadeAt(obj', n, i)
    BY DEF MadeAt, Grows
  <2>2. \A n, i : OpenAt(obj, n, i) => OpenAt(obj', n, i)
    BY OpenedMade DEF OpenAt, Grows
  <2> QED
    BY <2>1, <2>2

<1>SeqMore.
      ASSUME NEW S, NEW T, S \subseteq T, NEW s \in Seq(S)
      PROVE  s \in Seq(T)
  BY SMT, <1>SeqMore

\* What is under way stays backed.
<1>OldMail.
      ASSUME Grows, Mail(buf, wire, inbox, sendq, obj)
      PROVE  Mail(buf, wire, inbox, sendq, obj')
  <2> USE <1>OldMail
  <2>1. \A n : Backed(obj, n) \subseteq Backed(obj', n)
    BY <1>GrowsAt DEF Backed
  <2>2. \A n : Sends(obj, n) \subseteq Sends(obj', n)
    BY DEF Grows, Sends, Sending
  <2>3. \A n, s : s \in Seq(Backed(obj, n)) => s \in Seq(Backed(obj', n))
    BY <2>1, <1>SeqMore
  <2>4. \A n, s : s \in Seq(Sends(obj, n)) => s \in Seq(Sends(obj', n))
    BY <2>2, <1>SeqMore
  <2> QED
    BY <2>3, <2>4 DEF Mail, Posted, Arrived, ToSend

\* A step that opens nothing and answers no new open.
<1>NoneOpens.
      ASSUME Grows, Shut, AckStays
      PROVE  OtherEnds(obj') /\ Asked'
  <2> USE <1>NoneOpens
  <2>1. ASSUME NEW o \in Objs, obj'[o].opened
        PROVE  /\ MadeAt(obj', Peer(obj'[o].node), obj'[o].id)
               /\ Own(obj'[o].node, obj'[o].id) => OpenAt(obj', Peer(obj'[o].node), obj'[o].id)
    <3>1. obj[o].opened /\ obj[o].state # "none"
      BY <2>1, OpenedMade DEF Shut
    <3>2. obj'[o].node = obj[o].node /\ obj'[o].id = obj[o].id
      BY <3>1 DEF Grows
    <3>3. /\ MadeAt(obj, Peer(obj[o].node), obj[o].id)
          /\ Own(obj[o].node, obj[o].id) => OpenAt(obj, Peer(obj[o].node), obj[o].id)
      BY <3>1 DEF Paired, OtherEnds
    <3> QED
      BY <3>2, <3>3, <1>GrowsAt
  <2>2. OtherEnds(obj')
    BY <2>1 DEF OtherEnds
  <2>3. Asked'
    <3> SUFFICES ASSUME NEW n \in Nodes, loop'[n].at = "ack"
                 PROVE  MadeAt(obj', Peer(n), obj'[loop'[n].o].id)
      BY DEF Asked
    <3>1. loop[n].at = "ack" /\ loop'[n].o = loop[n].o
      BY DEF AckStays
    <3>2. loop[n].o \in Objs /\ obj[loop[n].o].state # "none"
      BY <3>1 DEF IInv, Core, AckPending
    <3>3. MadeAt(obj, Peer(n), obj[loop[n].o].id) /\ obj'[loop[n].o].id = obj[loop[n].o].id
      BY <3>1, <3>2 DEF Paired, Asked, Grows
    <3> QED
      BY <3>1, <3>3, <1>GrowsAt
  <2> QED
    BY <2>2, <2>3

\* One channel changes, or is made.
<1>OneGrows.
      ASSUME obj \in [Objs -> Channel], NEW o \in Objs, NEW d,
             obj' = [obj EXCEPT ![o] = d],
             \/ /\ d.node = obj[o].node /\ d.id = obj[o].id /\ d.opened = obj[o].opened
                /\ d.state # "none"
             \/ obj[o].state = "none" /\ ~obj[o].opened /\ ~d.opened
      PROVE  Grows /\ Shut
  BY <1>OneGrows DEF Grows, Shut

<1>SameGrows.
      ASSUME UNCHANGED obj
      PROVE  Grows /\ Shut
  BY <1>SameGrows DEF Grows, Shut

<1>LoopAsks.
      ASSUME NEW n \in Nodes, NEW l, l.at # "ack",
             loop' = loop \/ loop' = [loop EXCEPT ![n] = l]
      PROVE  AckStays
  BY <1>LoopAsks DEF IInv, Core, AckStays

<1>MovesAsk.
      ASSUME LoopMoves
      PROVE  AckStays
  BY <1>MovesAsk DEF LoopMoves, AckStays

\* The queues of a stream, of a side and of the sends.
<1>PostTo.
      ASSUME NEW ob, NEW f, Posted(f, ob), NEW n \in Nodes, NEW i \in Ids,
             NEW q \in Seq(Backed(ob, n))
      PROVE  Posted([f EXCEPT ![n][i] = q], ob)
  <2> USE <1>PostTo
  <2>1. f \in [Nodes -> [Ids -> Seq(Message)]]
    BY DEF Posted, Queues
  <2>2. q \in Seq(Message)
    BY <1>SeqMore DEF Backed
  <2>3. /\ [f EXCEPT ![n][i] = q] \in [Nodes -> [Ids -> Seq(Message)]]
        /\ \A m \in Nodes, j \in Ids :
             [f EXCEPT ![n][i] = q][m][j] = IF m = n /\ j = i THEN q ELSE f[m][j]
    BY SMT, <2>1, <2>2
  <2>4. \A m \in Nodes, j \in Ids : [f EXCEPT ![n][i] = q][m][j] \in Seq(Backed(ob, m))
    BY <2>3 DEF Posted
  <2> QED
    BY <2>3, <2>4 DEF Posted, Queues

<1>ResetBacked.
      ASSUME NEW ob, NEW n, NEW i \in Ids
      PROVE  Reset(i) \in Backed(ob, n)
  <2> USE <1>ResetBacked
  <2>1. Reset(i).kind = "reset" /\ Reset(i) \in Message
    BY ResetMessage DEF Reset
  <2> QED
    BY <2>1 DEF Backed

<1>PostAppend.
      ASSUME NEW ob, NEW f, Posted(f, ob), NEW n \in Nodes, NEW i \in Ids,
             NEW m \in Backed(ob, n)
      PROVE  Posted([f EXCEPT ![n][i] = Append(@, m)], ob)
  <2> USE <1>PostAppend
  <2>1. Append(f[n][i], m) \in Seq(Backed(ob, n))
    BY AppendProperties DEF Posted
  <2> QED
    BY <2>1, <1>PostTo

<1>PostTail.
      ASSUME NEW ob, NEW f, Posted(f, ob), NEW n \in Nodes, NEW i \in Ids,
             f[n][i] # <<>>
      PROVE  Posted([f EXCEPT ![n][i] = Tail(@)], ob) /\ Head(f[n][i]) \in Backed(ob, n)
  <2> USE <1>PostTail
  <2>1. Tail(f[n][i]) \in Seq(Backed(ob, n)) /\ Head(f[n][i]) \in Backed(ob, n)
    BY HeadTailProperties DEF Posted
  <2> QED
    BY <2>1, <1>PostTo

<1>ResetPosted.
      ASSUME NEW ob, Posted(buf, ob), NEW n \in Nodes, NEW i \in Ids, NEW w,
             Posted(w, ob), NEW r, ResetStreams(n, i, w, r)
      PROVE  Posted(buf', ob) /\ Posted(wire', ob)
  <2> USE <1>ResetPosted
  <2>1. CASE up[n] /\ r[n][i] = "no"
    <3>1. /\ buf' = [buf EXCEPT ![n][i] = <<>>]
          /\ wire' = [w EXCEPT ![n][i] = Append(@, Reset(i))]
      BY <2>1 DEF ResetStreams
    <3>2. <<>> \in Seq(Backed(ob, n)) /\ Reset(i) \in Backed(ob, n)
      BY EmptyPost, <1>ResetBacked
    <3>3. Posted(buf', ob)
      BY <3>1, <3>2, <1>PostTo
    <3>4. Posted(wire', ob)
      BY <3>1, <3>2, <1>PostAppend
    <3> QED
      BY <3>3, <3>4
  <2>2. CASE ~(up[n] /\ r[n][i] = "no")
    BY <2>2 DEF ResetStreams
  <2> QED
    BY <2>1, <2>2

<1>ClosePosted.
      ASSUME NEW ob, Posted(buf, ob), NEW o \in Objs, NEW c \in Channel, NEW w,
             Posted(w, ob), NEW r, RequestClose(o, c, w, r)
      PROVE  Posted(buf', ob) /\ Posted(wire', ob)
  <2> USE <1>ClosePosted
  <2>1. c.node \in Nodes /\ c.id \in Ids
    BY DEF Channel
  <2>2. \/ ResetStreams(c.node, c.id, w, r)
        \/ wire' = w /\ UNCHANGED buf
    BY DEF RequestClose
  <2> QED
    BY <2>1, <2>2, <1>ResetPosted

<1>Sends1.
      ASSUME NEW ob, ToSend(sendq, ob), NEW n \in Nodes, NEW s \in Sends(ob, n),
             sendq' = [sendq EXCEPT ![n] = Append(@, s)]
      PROVE  ToSend(sendq', ob)
  <2> USE <1>Sends1
  <2>1. Append(sendq[n], s) \in Seq(Sends(ob, n))
    BY AppendProperties DEF ToSend
  <2> QED
    BY <2>1 DEF ToSend

<1>SendsTail.
      ASSUME NEW ob, ToSend(sendq, ob), NEW n \in Nodes, sendq[n] # <<>>,
             sendq' = [sendq EXCEPT ![n] = Tail(@)]
      PROVE  ToSend(sendq', ob) /\ Head(sendq[n]) \in Sends(ob, n)
  <2> USE <1>SendsTail
  <2>1. Tail(sendq[n]) \in Seq(Sends(ob, n)) /\ Head(sendq[n]) \in Sends(ob, n)
    BY HeadTailProperties DEF ToSend
  <2> QED
    BY <2>1 DEF ToSend

<1>ReceivedBacked.
      ASSUME NEW ob, Arrived(inbox, ob), NEW n \in Nodes, inbox[n] # <<>>,
             inbox' = [inbox EXCEPT ![n] = Tail(@)]
      PROVE  Arrived(inbox', ob) /\ Received(n) \in Backed(ob, Peer(n))
  <2> USE <1>ReceivedBacked
  <2>1. /\ Tail(inbox[n]) \in Seq(Backed(ob, Peer(n)))
        /\ Head(inbox[n]) \in Backed(ob, Peer(n))
    BY HeadTailProperties DEF Arrived
  <2> QED
    BY <2>1 DEF Arrived, Received

<1>PairedNext.
      ASSUME Grows, Shut, AckStays, Mail(buf', wire', inbox', sendq', obj')
      PROVE  Paired'
  BY <1>PairedNext, <1>NoneOpens DEF Paired

<1>OldParts.
      ASSUME Grows
      PROVE  /\ Posted(buf, obj') /\ Posted(wire, obj')
             /\ Arrived(inbox, obj') /\ ToSend(sendq, obj')
  BY <1>OldParts, <1>OldMail DEF Paired, Mail

<1>OpenedSame.
      ASSUME NEW c \in Channel
      PROVE  /\ \A m : Serve(c, m).opened = c.opened
             /\ \A s : Push(c, s).opened = c.opened
             /\ Closed(c).opened = c.opened /\ Gone(c).opened = c.opened
  <2> USE <1>OpenedSame
  <2>1. Closed(c).opened = c.opened /\ \A s : Push(c, s).opened = c.opened
    BY DEF Closed, Push, Channel
  <2>2. Gone(c).opened = c.opened
    BY DEF Gone, Unmade
  <2>3. \A m : Serve(c, m).opened = c.opened
    BY DEF Serve, Channel
  <2> QED
    BY <2>1, <2>2, <2>3

<1>MakeShut.
      ASSUME NEW n, NEW i
      PROVE  ~Make(n, i).opened
  BY DEF Make, Unmade

<1>FreshShut.
      ASSUME NEW o \in Objs, Fresh(o)
      PROVE  obj[o].state = "none" /\ ~obj[o].opened
  BY SMT, <1>FreshShut, FreshEmpty DEF Unmade

\* The application's calls.
<1>CreatePaired.
      ASSUME NEW n \in Nodes, NEW o \in Objs, Create(n, o)
      PROVE  Paired'
  <2> USE <1>CreatePaired
  <2>0. PICK i \in Allocable(n) : obj' = [obj EXCEPT ![o] = [Make(n, i) EXCEPT !.held = TRUE]]
    BY DEF Create
  <2> DEFINE d == [Make(n, i) EXCEPT !.held = TRUE]
             s == [o |-> o, kind |-> "open", size |-> 0]
  <2>1. /\ obj' = [obj EXCEPT ![o] = d] /\ sendq' = [sendq EXCEPT ![n] = Append(@, s)]
        /\ UNCHANGED <<loop, buf, wire, inbox>> /\ Fresh(o)
    BY <2>0 DEF Create, sctpVars
  <2>2. d.node = n /\ d.state = "connecting" /\ ~d.opened
    BY DEF Make, Unmade
  <2>3. Grows /\ Shut /\ AckStays /\ obj'[o] = d
    BY <2>1, <2>2, <1>FreshShut, <1>OneGrows DEF IInv, Core, AckStays
  <2> HIDE DEF d
  <2>4. s \in Sends(obj', n)
    BY <2>2, <2>3 DEF Sends, Sending
  <2> HIDE DEF s
  <2>5. ToSend(sendq', obj')
    BY <2>1, <2>3, <2>4, <1>OldParts, <1>Sends1
  <2> QED
    BY <2>1, <2>3, <2>5, <1>OldParts, <1>PairedNext DEF Mail

<1>CreateNegotiatedPaired.
      ASSUME NEW n \in Nodes, NEW o \in Objs, NEW i \in Ids,
             CreateNegotiated(n, o, i)
      PROVE  Paired'
  <2> USE <1>CreateNegotiatedPaired
  <2> DEFINE d == [Make(n, i) EXCEPT !.negotiated = TRUE, !.held = TRUE]
  <2>1. /\ obj' = [obj EXCEPT ![o] = d]
        /\ UNCHANGED <<loop, buf, wire, inbox, sendq>> /\ Fresh(o)
    BY DEF CreateNegotiated, sctpVars
  <2>2. ~d.opened
    BY DEF Make, Unmade
  <2> HIDE DEF d
  <2>3. Grows /\ Shut /\ AckStays
    BY <2>1, <2>2, <1>FreshShut, <1>OneGrows DEF IInv, Core, AckStays
  <2> QED
    BY <2>1, <2>3, <1>OldParts, <1>PairedNext DEF Mail

<1>SendPaired.
      ASSUME NEW o \in Objs, NEW size \in Sizes, Send(o, size)
      PROVE  Paired'
  <2> USE <1>SendPaired
  <2> DEFINE n == obj[o].node
             s == [o |-> o, kind |-> "data", size |-> size]
  <2>1. /\ sendq' = [sendq EXCEPT ![n] = Append(@, s)]
        /\ UNCHANGED <<obj, loop, buf, wire, inbox>> /\ obj[o].state # "none"
    BY DEF Send, sctpVars
  <2>2. n \in Nodes /\ Grows /\ Shut /\ AckStays
    BY <2>1, <1>SameGrows DEF IInv, Core, Channel, AckStays
  <2>3. s \in Sends(obj', n)
    BY <2>1 DEF Sends, Sending
  <2> HIDE DEF s, n
  <2>4. ToSend(sendq', obj')
    BY <2>1, <2>2, <2>3, <1>OldParts, <1>Sends1
  <2> QED
    BY <2>1, <2>2, <2>4, <1>OldParts, <1>PairedNext DEF Mail

\* One channel changes, and nothing that is under way.
<1>OnePaired.
      ASSUME NEW o \in Objs, NEW d, obj' = [obj EXCEPT ![o] = d],
             d.node = obj[o].node, d.id = obj[o].id, d.opened = obj[o].opened,
             d.state # "none", AckStays, UNCHANGED <<buf, wire, inbox, sendq>>
      PROVE  Paired'
  <2> USE <1>OnePaired
  <2>1. Grows /\ Shut
    BY <1>OneGrows DEF IInv, Core
  <2> QED
    BY <2>1, <1>OldParts, <1>PairedNext DEF Mail

<1>ReadPaired.
      ASSUME NEW o \in Objs, Read(o)
      PROVE  Paired'
  <2> USE <1>ReadPaired
  <2> DEFINE c == obj[o]
             d == IF c.reader = "idle" THEN Serve(c, 1)
                  ELSE [c EXCEPT !.readers = @ + 1]
  <2>1. c \in Channel /\ Sound(c) /\ c.state \notin {"none", "gone"} /\ c.node \in Nodes
    BY DEF IInv, Core, Read, InHand, Sound, Channel
  <2>2. /\ obj' = [obj EXCEPT ![o] = d] /\ Freed(c.node, c, d)
        /\ UNCHANGED <<buf, wire, inbox, sendq>>
    BY DEF Read, sctpVars
  <2>3. d.node = c.node /\ d.id = c.id /\ d.opened = c.opened /\ d.state # "none"
    <3>1. CASE c.reader = "idle"
      <4>1. d = Serve(c, 1) /\ 1 \in Nat
        BY SMT, <3>1
      <4> HIDE DEF c, d
      <4> QED
        BY <2>1, <4>1, ServeSound, <1>OpenedSame DEF Sound
    <3>2. CASE c.reader # "idle"
      <4>1. d = [c EXCEPT !.readers = @ + 1]
        BY <3>2
      <4> HIDE DEF c, d
      <4> QED
        BY <2>1, <4>1 DEF Channel
    <3> QED
      BY <3>1, <3>2
  <2>4. AckStays
    BY <2>1, <2>2, FreedRoom, <1>MovesAsk DEF IInv
  <2> HIDE DEF d
  <2> QED
    BY <2>2, <2>3, <2>4, <1>OnePaired

<1>ReadTurnPaired.
      ASSUME NEW o \in Objs, ReadTurn(o)
      PROVE  Paired'
  <2> USE <1>ReadTurnPaired
  <2> DEFINE c == obj[o]
             d == IF c.reader = "hop" THEN [c EXCEPT !.q = Tail(@)] ELSE c
             e == Serve(d, c.readers)
  <2>1. c \in Channel /\ Sound(c) /\ c.node \in Nodes /\ c.readers \in Nat
    BY DEF IInv, Core, Channel
  <2>2. /\ obj' = [obj EXCEPT ![o] = e] /\ Freed(c.node, c, e)
        /\ UNCHANGED <<buf, wire, inbox, sendq>> /\ c.reader \in {"hop", "stop"}
    BY DEF ReadTurn, sctpVars
  <2>3. c.state # "none"
    BY SMT, <2>2 DEF Books, Table, UnmadeYet, Unmade
  <2>4. /\ d \in Channel /\ d.node = c.node /\ d.id = c.id /\ d.opened = c.opened
        /\ d.state = c.state /\ d.closer = c.closer /\ d.held = c.held
    <3>1. CASE c.reader = "hop"
      <4>1. c.q \in Seq(Sizes \cup {0}) /\ c.q # <<>>
        BY <3>1, <2>1 DEF Sound, Channel
      <4>2. Tail(c.q) \in Seq(Sizes \cup {0})
        BY <4>1, HeadTailProperties
      <4>3. d = [c EXCEPT !.q = Tail(c.q)]
        BY <3>1
      <4> HIDE DEF c, d
      <4> QED
        BY <2>1, <4>2, <4>3 DEF Channel
    <3>2. CASE c.reader # "hop"
      BY <2>1, <3>2
    <3> QED
      BY <3>1, <3>2
  <2> HIDE DEF d
  <2>5. e.node = c.node /\ e.id = c.id /\ e.opened = c.opened /\ e.state # "none"
    <3>1. /\ d.closer = "wait" => d.state = "closing"
          /\ d.closer = "hop" => d.state = "closed"
          /\ d.held => d.state \notin {"none", "gone"}
      BY <2>1, <2>4 DEF Sound
    <3> QED
      BY <2>1, <2>3, <2>4, <3>1, ServeSound, <1>OpenedSame
  <2>6. AckStays
    BY <2>1, <2>2, FreedRoom, <1>MovesAsk DEF IInv
  <2> HIDE DEF e
  <2> QED
    BY <2>2, <2>5, <2>6, <1>OnePaired

<1>CloseTurnPaired.
      ASSUME NEW o \in Objs, CloseTurn(o)
      PROVE  Paired'
  <2> USE <1>CloseTurnPaired
  <2> DEFINE d == [obj[o] EXCEPT !.closer = "idle"]
  <2>1. /\ obj' = [obj EXCEPT ![o] = d] /\ obj[o].closer = "hop"
        /\ UNCHANGED <<loop, buf, wire, inbox, sendq>>
    BY DEF CloseTurn, sctpVars
  <2>2. obj[o] \in Channel /\ obj[o].state # "none"
    BY <2>1 DEF IInv, Core, Sound
  <2>3. /\ d.node = obj[o].node /\ d.id = obj[o].id /\ d.opened = obj[o].opened
        /\ d.state # "none" /\ AckStays
    BY <2>1, <2>2 DEF Channel, AckStays
  <2> HIDE DEF d
  <2> QED
    BY <2>1, <2>3, <1>OnePaired

<1>RequestClosePaired.
      ASSUME NEW o \in Objs, Live(obj[o]), NEW c, NEW w, NEW r,
             c = obj[o] \/ c = [obj[o] EXCEPT !.closer = "wait"],
             Posted(w, obj') \/ w = wire, RequestClose(o, c, w, r),
             UNCHANGED <<loop, sendq, inbox>>
      PROVE  Paired'
  <2> USE <1>RequestClosePaired
  <2> DEFINE d == IF obj[o].state \notin {"closing", "closed"}
                  THEN [c EXCEPT !.state = "closing"] ELSE c
  <2>1. obj' = [obj EXCEPT ![o] = d]
    BY DEF RequestClose
  <2>2. c \in Channel
    <3>1. obj[o] \in Channel
      BY DEF IInv, Core
    <3> QED
      BY SMT, <3>1 DEF Channel
  <2>3. d.node = obj[o].node /\ d.id = obj[o].id /\ d.opened = obj[o].opened /\ d.state # "none"
    <3>1. obj[o] \in Channel /\ obj[o].state # "none"
      BY DEF IInv, Core, Live
    <3>2. /\ c.node = obj[o].node /\ c.id = obj[o].id /\ c.opened = obj[o].opened
          /\ c.state = obj[o].state
      BY <3>1 DEF Channel
    <3>3. d = c \/ d = [c EXCEPT !.state = "closing"]
      OBVIOUS
    <3> QED
      BY <2>2, <3>1, <3>2, <3>3 DEF Channel
  <2> HIDE DEF d
  <2>4. Grows /\ Shut /\ AckStays
    BY <2>1, <2>3, <1>OneGrows DEF IInv, Core, AckStays
  <2>5. Posted(buf', obj') /\ Posted(wire', obj')
    BY <2>2, <2>4, <1>OldParts, <1>ClosePosted
  <2> QED
    BY <2>4, <2>5, <1>OldParts, <1>PairedNext DEF Mail

<1>ClosePaired.
      ASSUME NEW o \in Objs, Close(o)
      PROVE  Paired'
  <2> USE <1>ClosePaired
  <2> DEFINE c == [obj[o] EXCEPT !.closer = "wait"]
  <2>1. Live(obj[o]) /\ RequestClose(o, c, wire, resetting) /\ UNCHANGED <<loop, sendq, inbox>>
    BY DEF Close, InHand, IInv, Core, Sound, Live
  <2> HIDE DEF c
  <2> QED
    BY <2>1, <1>RequestClosePaired DEF c

\* A channel is destroyed, and perhaps a send with it.
<1>DestructPaired.
      ASSUME NEW o \in Objs, Live(obj[o]), NEW chs, Destruct(o, obj[o], chs),
             AckStays, UNCHANGED inbox, ToSend(sendq', obj') \/ UNCHANGED sendq
      PROVE  Paired'
  <2> USE <1>DestructPaired
  <2> DEFINE c == obj[o]
             d == Gone(c)
  <2>1. c \in Channel /\ c.node \in Nodes /\ c.id \in Ids
    BY DEF IInv, Core, Channel
  <2>2. /\ obj' = [obj EXCEPT ![o] = d]
        /\ ResetStreams(c.node, c.id, wire, resetting) \/ UNCHANGED <<buf, wire>>
    BY DEF Destruct
  <2>3. d.node = c.node /\ d.id = c.id /\ d.opened = c.opened /\ d.state # "none"
    BY <2>1, GoneFields, <1>OpenedSame
  <2> HIDE DEF d
  <2>4. Grows /\ Shut
    BY <2>2, <2>3, <1>OneGrows DEF IInv, Core
  <2>5. Posted(buf', obj') /\ Posted(wire', obj')
    BY <2>1, <2>2, <2>4, <1>OldParts, <1>ResetPosted
  <2> QED
    BY <2>4, <2>5, <1>OldParts, <1>PairedNext DEF Mail

<1>ReleasePaired.
      ASSUME NEW o \in Objs, Release(o)
      PROVE  Paired'
  <2> USE <1>ReleasePaired
  <2> DEFINE n == obj[o].node
             v == cache[n] - Bytes(obj[o].q)
  <2>1. /\ Live(obj[o]) /\ n \in Nodes /\ Destruct(o, obj[o], channels)
        /\ cache' = [cache EXCEPT ![n] = v]
        /\ loop' = IF loop[n].at = "full" THEN [loop EXCEPT ![n].at = "hop"] ELSE loop
        /\ UNCHANGED <<inbox, sendq>>
    BY DEF Release, IInv, Core, Sound, Live, Channel
  <2> HIDE DEF n, v
  <2>2. AckStays
    BY <2>1, LoopHops, <1>MovesAsk DEF IInv
  <2> QED
    BY <2>1, <2>2, <1>DestructPaired

<1>StartPaired.
      ASSUME NEW n \in Nodes, Start(n)
      PROVE  Paired'
  <2> USE <1>StartPaired
  <2> DEFINE l == [loop[n] EXCEPT !.at = "read"]
  <2>1. /\ loop' = [loop EXCEPT ![n] = l] /\ l.at = "read"
        /\ UNCHANGED <<obj, buf, wire, inbox, sendq>>
    BY DEF Start, sctpVars, IInv, Core, LoopAt
  <2> HIDE DEF l
  <2>2. Grows /\ Shut /\ AckStays
    BY <2>1, <1>SameGrows, <1>LoopAsks
  <2> QED
    BY <2>1, <2>2, <1>OldParts, <1>PairedNext DEF Mail

<1>StopPaired.
      ASSUME NEW n \in Nodes, Stop(n) \/ LoopEnds(n)
      PROVE  Paired'
  <2> USE <1>StopPaired
  <2>1. StopEffects(n) /\ UNCHANGED <<buf, wire, inbox, sendq>>
    BY DEF Stop, LoopEnds, sctpVars
  <2>2. AckStays
    <3>1. CASE Stop(n)
      BY <3>1 DEF Stop, AckStays
    <3>2. CASE LoopEnds(n)
      <4>1. loop' = [loop EXCEPT ![n] = [Idle EXCEPT !.at = "done"]]
        BY <3>2 DEF LoopEnds
      <4> QED
        BY <4>1, DoneAt, <1>LoopAsks
    <3> QED
      BY <3>1, <3>2
  <2>3. ASSUME NEW o \in Objs
        PROVE  /\ obj'[o].node = obj[o].node /\ obj'[o].id = obj[o].id
               /\ obj[o].state # "none" => obj'[o].state # "none"
               /\ obj'[o].opened = obj[o].opened
    <3>1. CASE \E i \in Ids : channels[n][i] = o
      <4>1. obj[o] \in Channel /\ Sound(obj[o]) /\ Live(obj[o])
        BY SMTT(30), <3>1, Constants DEF IInv, Core, EntriesLive, Live
      <4>2. obj'[o] = Closed(obj[o])
        BY <2>1, <3>1 DEF StopEffects
      <4>3. Closed(obj[o]).opened = obj[o].opened
        BY <4>1, <1>OpenedSame
      <4> QED
        BY SMTT(30), <4>1, <4>2, <4>3, ClosedSound DEF Live
    <3>2. CASE ~(\E i \in Ids : channels[n][i] = o)
      BY <2>1, <3>2 DEF StopEffects
    <3> QED
      BY <3>1, <3>2
  <2>4. Grows /\ Shut
    BY <2>3 DEF Grows, Shut
  <2> QED
    BY <2>1, <2>2, <2>4, <1>OldParts, <1>PairedNext DEF Mail

\* read_loop().
<1>AcceptPaired.
      ASSUME NEW n \in Nodes, NEW sid \in Ids, NEW size \in Sizes \cup {0},
             NEW rest, Accept(n, sid, size, rest), Arrived(inbox', obj) \/ UNCHANGED inbox,
             UNCHANGED <<buf, wire, sendq>>
      PROVE  Grows /\ Shut /\ AckStays
  <2> USE <1>AcceptPaired
  <2> DEFINE o == channels[n][sid]
             l == [Idle EXCEPT !.at = "full", !.sid = sid, !.size = size]
             z == [Idle EXCEPT !.at = "done"]
  <2>1. AckStays
    <3>1. \/ loop' = [loop EXCEPT ![n] = Onward(n, rest)]
          \/ loop' = [loop EXCEPT ![n] = l]
          \/ loop' = [loop EXCEPT ![n] = z]
      BY DEF Accept
    <3>2. l.at = "full" /\ z.at = "done"
      BY FullAt, DoneAt
    <3> HIDE DEF l, z
    <3> QED
      BY <3>1, <3>2, OnwardAt, <1>LoopAsks
  <2>2. CASE obj' = obj
    BY <2>1, <2>2, <1>SameGrows
  <2>3. CASE obj' # obj
    <3> DEFINE d == Push(obj[o], size)
    <3>1. o # None /\ obj' = [obj EXCEPT ![o] = d]
      BY <2>3 DEF Accept
    <3>2. o \in Objs /\ obj[o] \in Channel /\ obj[o].state # "none"
      BY SMTT(30), <3>1 DEF IInv, Core, EntriesLive
    <3>3. /\ d.node = obj[o].node /\ d.id = obj[o].id /\ d.opened = obj[o].opened
          /\ d.state # "none"
      BY <3>2 DEF Push, Channel
    <3> HIDE DEF o, d
    <3> QED
      BY <2>1, <3>1, <3>2, <3>3, <1>OneGrows DEF IInv, Core
  <2> QED
    BY <2>2, <2>3

<1>LoopDataPaired.
      ASSUME NEW n \in Nodes, LoopData(n)
      PROVE  Paired'
  <2> USE <1>LoopDataPaired
  <2> DEFINE m == Received(n)
  <2>1. /\ inbox[n] # <<>> /\ inbox' = [inbox EXCEPT ![n] = Tail(@)]
        /\ UNCHANGED <<buf, wire, sendq>>
        /\ \/ Accept(n, m.sid, m.size, Tail(inbox[n]))
           \/ UNCHANGED obj /\ loop' = [loop EXCEPT ![n] = Onward(n, Tail(inbox[n]))]
    BY DEF LoopData
  <2>2. m \in Backed(obj, Peer(n)) /\ Arrived(inbox', obj)
    BY <2>1, <1>ReceivedBacked DEF Paired, Mail
  <2>3. m.sid \in Ids /\ m.size \in Sizes \cup {0}
    BY <2>2 DEF Backed, Message
  <2> HIDE DEF m
  <2>4. Grows /\ Shut /\ AckStays
    <3>1. CASE Accept(n, m.sid, m.size, Tail(inbox[n]))
      BY <3>1, <2>1, <2>2, <2>3, <1>AcceptPaired
    <3>2. CASE UNCHANGED obj /\ loop' = [loop EXCEPT ![n] = Onward(n, Tail(inbox[n]))]
      BY <3>2, OnwardAt, <1>LoopAsks, <1>SameGrows
    <3> QED
      BY <2>1, <3>1, <3>2
  <2>5. Arrived(inbox', obj')
    BY <2>1, <2>4, <1>OldParts, <1>ReceivedBacked
  <2> QED
    BY <2>1, <2>4, <2>5, <1>OldParts, <1>PairedNext DEF Mail

<1>LoopTurnPaired.
      ASSUME NEW n \in Nodes, LoopTurn(n)
      PROVE  Paired'
  <2> USE <1>LoopTurnPaired
  <2>1. Accept(n, loop[n].sid, loop[n].size, inbox[n]) /\ UNCHANGED <<buf, wire, sendq, inbox>>
    BY DEF LoopTurn, sctpVars
  <2>2. loop[n].sid \in Ids /\ loop[n].size \in Sizes \cup {0}
    BY DEF IInv, Core, LoopAt
  <2>3. Grows /\ Shut /\ AckStays
    BY <2>1, <2>2, <1>AcceptPaired
  <2> QED
    BY <2>1, <2>3, <1>OldParts, <1>PairedNext DEF Mail

<1>LoopOpenPaired.
      ASSUME NEW n \in Nodes, NEW o \in Objs, LoopOpen(n, o)
      PROVE  Paired'
  <2> USE <1>LoopOpenPaired
  <2> DEFINE i == Received(n).sid
             d == Make(n, i)
             s == [o |-> o, kind |-> "ack", size |-> 0]
             l == [Idle EXCEPT !.at = "ack", !.o = o]
  <2>1. /\ inbox[n] # <<>> /\ inbox' = [inbox EXCEPT ![n] = Tail(@)]
        /\ Received(n).kind = "open" /\ Fresh(o) /\ UNCHANGED <<buf, wire>>
    BY DEF LoopOpen
  <2>2. CASE /\ UNCHANGED <<obj, sendq>>
             /\ loop' = [loop EXCEPT ![n] = Onward(n, Tail(inbox[n]))]
    <3>1. Grows /\ Shut /\ AckStays
      BY <2>2, OnwardAt, <1>LoopAsks, <1>SameGrows
    <3>2. Arrived(inbox', obj')
      BY <2>1, <3>1, <1>OldParts, <1>ReceivedBacked
    <3> QED
      BY <2>1, <2>2, <3>1, <3>2, <1>OldParts, <1>PairedNext DEF Mail
  <2>3. CASE /\ obj' = [obj EXCEPT ![o] = d] /\ loop' = [loop EXCEPT ![n] = l]
             /\ sendq' = [sendq EXCEPT ![n] = Append(@, s)]
    <3>1. Received(n) \in Backed(obj, Peer(n))
      BY <2>1, <1>ReceivedBacked DEF Paired, Mail
    <3>2. MadeAt(obj, Peer(n), i)
      BY <2>1, <3>1 DEF Backed
    <3> HIDE DEF i
    <3>3. d.node = n /\ d.id = i /\ d.state = "connecting" /\ ~d.opened /\ l.at = "ack" /\ l.o = o
      BY DEF Make, Unmade, Idle
    <3>4. Grows /\ Shut /\ obj'[o] = d
      BY <2>1, <2>3, <3>3, <1>FreshShut, <1>OneGrows DEF IInv, Core
    <3> HIDE DEF d
    <3>5. s \in Sends(obj', n)
      BY <3>3, <3>4 DEF Sends, Sending
    <3> HIDE DEF s, l
    <3>6. ToSend(sendq', obj') /\ Arrived(inbox', obj')
      BY <2>1, <2>3, <3>4, <3>5, <1>OldParts, <1>Sends1, <1>ReceivedBacked
    \* But for the channel that is new, the step is like any other.
    <3>7. OtherEnds(obj')
      <4> SUFFICES ASSUME NEW p \in Objs, obj'[p].opened
                   PROVE  /\ MadeAt(obj', Peer(obj'[p].node), obj'[p].id)
                          /\ Own(obj'[p].node, obj'[p].id) =>
                                 OpenAt(obj', Peer(obj'[p].node), obj'[p].id)
        BY DEF OtherEnds
      <4>1. p # o /\ obj'[p] = obj[p]
        BY <2>3, <3>3, <3>4 DEF IInv, Core
      <4> QED
        BY <3>4, <4>1, <1>GrowsAt DEF Paired, OtherEnds
    <3>8. Asked'
      <4> SUFFICES ASSUME NEW m \in Nodes, loop'[m].at = "ack"
                   PROVE  MadeAt(obj', Peer(m), obj'[loop'[m].o].id)
        BY DEF Asked
      <4>1. CASE m = n
        <5>1. loop'[m].o = o
          BY <2>3, <3>3, <4>1 DEF IInv, Core
        <5> QED
          BY <3>2, <3>3, <3>4, <4>1, <5>1, <1>GrowsAt
      <4>2. CASE m # n
        <5>1. loop[m].at = "ack" /\ loop'[m] = loop[m]
          BY <2>3, <4>2 DEF IInv, Core
        <5>2. loop[m].o \in Objs /\ obj[loop[m].o].state # "none"
          BY <5>1 DEF IInv, Core, AckPending
        <5>3. obj'[loop[m].o].id = obj[loop[m].o].id
          BY <3>4, <5>2 DEF Grows
        <5> QED
          BY <3>4, <5>1, <5>3, <1>GrowsAt DEF Paired, Asked
      <4> QED
        BY <4>1, <4>2
    <3> QED
      BY <2>1, <3>4, <3>6, <3>7, <3>8, <1>OldParts DEF Paired, Mail
  <2> QED
    BY <2>2, <2>3 DEF LoopOpen

\* A channel opens: the two ends of its id.
<1>OneOpens.
      ASSUME NEW n \in Nodes, NEW o \in Objs, NEW i \in Ids, NEW d,
             obj[o].node = n, obj[o].id = i, obj[o].state # "none", d.node = n,
             d.id = i, d.state # "none", d.opened, obj' = [obj EXCEPT ![o] = d],
             MadeAt(obj, Peer(n), i), Own(n, i) => OpenAt(obj, Peer(n), i), AckStays
      PROVE  OtherEnds(obj') /\ Asked' /\ Grows
  <2> USE <1>OneOpens
  <2>1. \A p \in Objs : obj'[p] = IF p = o THEN d ELSE obj[p]
    BY DEF IInv, Core
  <2>2. Grows
    BY <2>1 DEF Grows
  <2>3. OtherEnds(obj')
    <3> SUFFICES ASSUME NEW p \in Objs, obj'[p].opened
                 PROVE  /\ MadeAt(obj', Peer(obj'[p].node), obj'[p].id)
                        /\ Own(obj'[p].node, obj'[p].id) =>
                               OpenAt(obj', Peer(obj'[p].node), obj'[p].id)
      BY DEF OtherEnds
    <3>1. CASE p = o
      BY <2>1, <2>2, <3>1, <1>GrowsAt
    <3>2. CASE p # o
      BY <2>1, <2>2, <3>2, <1>GrowsAt DEF Paired, OtherEnds
    <3> QED
      BY <3>1, <3>2
  <2>4. Asked'
    <3> SUFFICES ASSUME NEW m \in Nodes, loop'[m].at = "ack"
                 PROVE  MadeAt(obj', Peer(m), obj'[loop'[m].o].id)
      BY DEF Asked
    <3>1. loop[m].at = "ack" /\ loop'[m].o = loop[m].o
      BY DEF AckStays
    <3>2. loop[m].o \in Objs /\ obj[loop[m].o].state # "none"
      BY <3>1 DEF IInv, Core, AckPending
    <3>3. obj'[loop[m].o].id = obj[loop[m].o].id
      BY <2>2, <3>2 DEF Grows
    <3> QED
      BY <2>2, <3>1, <3>3, <1>GrowsAt DEF Paired, Asked
  <2> QED
    BY <2>2, <2>3, <2>4

<1>LoopAckPaired.
      ASSUME NEW n \in Nodes, LoopAck(n)
      PROVE  Paired'
  <2> USE <1>LoopAckPaired
  <2> DEFINE i == Received(n).sid
             o == channels[n][i]
             d == [obj[o] EXCEPT !.state = "open", !.opened = TRUE]
  <2>1. /\ inbox[n] # <<>> /\ inbox' = [inbox EXCEPT ![n] = Tail(@)]
        /\ Received(n).kind = "ack" /\ UNCHANGED <<sendq, buf, wire>>
        /\ loop' = [loop EXCEPT ![n] = Onward(n, Tail(inbox[n]))]
    BY DEF LoopAck
  <2>2. Received(n) \in Backed(obj, Peer(n))
    BY <2>1, <1>ReceivedBacked DEF Paired, Mail
  <2>3. i \in Ids /\ OpenAt(obj, Peer(n), i)
    BY <2>1, <2>2 DEF Backed, Message
  <2>4. MadeAt(obj, Peer(n), i)
    BY <2>3, OpenedMade DEF MadeAt, OpenAt
  <2>5. AckStays
    BY <2>1, OnwardAt, <1>LoopAsks
  <2>6. OtherEnds(obj') /\ Asked' /\ Grows
    <3>1. CASE obj' = obj
      <4>1. Grows /\ Shut
        BY <3>1, <1>SameGrows
      <4> QED
        BY <2>5, <4>1, <1>NoneOpens
    <3>2. CASE o # None /\ obj' = [obj EXCEPT ![o].state = "open", ![o].opened = TRUE]
      <4>1. /\ o \in Objs /\ obj[o] \in Channel
            /\ obj[o].node = n /\ obj[o].id = i /\ obj[o].state # "none"
        BY SMTT(30), <3>2, <2>3 DEF IInv, Core, EntriesLive
      <4>2. obj' = [obj EXCEPT ![o] = d]
        BY <3>2, <4>1 DEF IInv, Core
      <4> HIDE DEF o, i
      <4>3. d.node = n /\ d.id = i /\ d.state # "none" /\ d.opened
        BY <4>1 DEF Channel
      <4> HIDE DEF d
      <4> QED
        BY <2>3, <2>4, <2>5, <4>1, <4>2, <4>3, <1>OneOpens
    <3> QED
      BY <3>1, <3>2 DEF LoopAck
  <2>7. Arrived(inbox', obj')
    BY <2>1, <2>6, <1>OldParts, <1>ReceivedBacked
  <2> QED
    BY <2>1, <2>6, <2>7, <1>OldParts DEF Paired, Mail

<1>StopTurnPaired.
      ASSUME NEW n \in Nodes, StopTurn(n)
      PROVE  Paired'
  <2> USE <1>StopTurnPaired
  <2> DEFINE l == [Idle EXCEPT !.at = "done"]
  <2>1. /\ loop' = loop \/ loop' = [loop EXCEPT ![n] = l]
        /\ UNCHANGED inbox /\ l.at = "done"
    BY DoneAt DEF StopTurn
  <2> HIDE DEF l
  <2>2. AckStays
    BY <2>1, <1>LoopAsks
  <2>3. CASE loop[n].at = "ack"
    <3> DEFINE o == loop[n].o
    <3>1. PICK k \in DOMAIN sendq[n] : sendq' = [sendq EXCEPT ![n] = Without(@, k)]
      BY <2>3 DEF StopTurn
    <3>2. o \in Objs /\ Live(obj[o]) /\ Destruct(o, obj[o], channels)
      <4>1. o \in Objs /\ obj[o].state = "connecting"
        BY <2>3 DEF IInv, Core, AckPending
      <4>2. Live(obj[o])
        BY SMT, <4>1 DEF Live
      <4> QED
        BY <2>3, <4>1, <4>2 DEF StopTurn
    <3> HIDE DEF o
    <3>3. Grows
      <4> DEFINE d == Gone(obj[o])
      <4>1. obj' = [obj EXCEPT ![o] = d] /\ obj[o] \in Channel
        BY <3>2 DEF Destruct, IInv, Core
      <4>2. /\ d.node = obj[o].node /\ d.id = obj[o].id /\ d.opened = obj[o].opened
            /\ d.state # "none"
        BY <4>1, GoneFields, <1>OpenedSame
      <4> HIDE DEF d
      <4> QED
        BY <3>2, <4>1, <4>2, <1>OneGrows DEF IInv, Core
    <3>4. ToSend(sendq, obj')
      BY <3>3, <1>OldParts
    <3>5. Without(sendq[n], k) \in Seq(Sends(obj', n))
      BY <3>4, RemoveType DEF ToSend
    <3>6. ToSend(sendq', obj')
      BY <3>1, <3>4, <3>5 DEF ToSend
    <3> QED
      BY <2>1, <2>2, <3>2, <3>6, <1>DestructPaired
  <2>4. CASE loop[n].at # "ack"
    <3>1. UNCHANGED <<obj, sendq, buf, wire>>
      BY <2>4 DEF StopTurn
    <3>2. Grows /\ Shut
      BY <3>1, <1>SameGrows
    <3> QED
      BY <2>1, <2>2, <3>1, <3>2, <1>OldParts, <1>PairedNext DEF Mail
  <2> QED
    BY <2>3, <2>4

\* What the association tells.
\* Messages move, and no channel changes.
<1>TrafficPaired.
      ASSUME UNCHANGED <<obj, loop>>, Mail(buf', wire', inbox', sendq', obj)
      PROVE  Paired'
  <2> USE <1>TrafficPaired
  <2>1. Grows /\ Shut /\ AckStays
    BY <1>SameGrows DEF AckStays
  <2> QED
    BY <2>1, <1>PairedNext

<1>SendEndsPaired.
      ASSUME NEW n \in Nodes, SendEnds(n)
      PROVE  Paired'
  <2> USE <1>SendEndsPaired
  <2> DEFINE s == Head(sendq[n])
             c == obj[s.o]
             m == [sid |-> c.id, kind |-> s.kind, size |-> s.size]
  <2>1. /\ sendq[n] # <<>> /\ sendq' = [sendq EXCEPT ![n] = Tail(@)] /\ s.kind # "ack"
        /\ buf' = [buf EXCEPT ![n][c.id] = Append(@, m)] \/ UNCHANGED buf
        /\ UNCHANGED <<obj, loop, wire, inbox>>
    BY DEF SendEnds
  <2>2. ToSend(sendq', obj) /\ s \in Sends(obj, n)
    BY <2>1, <1>SendsTail DEF Paired, Mail
  <2>3. /\ s.o \in Objs /\ s.kind \in {"open", "data", "ack"} /\ s.size \in Sizes \cup {0}
        /\ c.node = n /\ c.state # "none"
    BY <2>2 DEF Sends, Sending
  <2>4. c.id \in Ids
    BY <2>3 DEF IInv, Core, Channel
  <2>5. MadeAt(obj, n, c.id)
    BY <2>3 DEF MadeAt
  <2> HIDE DEF s, c
  <2>6. m \in Message /\ m.sid = c.id /\ m.kind # "ack"
    BY <2>1, <2>3, <2>4 DEF Message
  <2> HIDE DEF m
  <2>7. m \in Backed(obj, n)
    BY <2>5, <2>6 DEF Backed
  <2>8. Posted(buf', obj)
    <3>1. Posted(buf, obj)
      BY DEF Paired, Mail
    <3>2. Posted([buf EXCEPT ![n][c.id] = Append(@, m)], obj)
      BY <2>4, <2>7, <3>1, <1>PostAppend
    <3> QED
      BY <2>1, <3>1, <3>2
  <2> QED
    BY <2>1, <2>2, <2>8, <1>TrafficPaired DEF Paired, Mail

<1>TransmitPaired.
      ASSUME NEW n \in Nodes, NEW i \in Ids, Transmit(n, i)
      PROVE  Paired'
  <2> USE <1>TransmitPaired
  <2> DEFINE w == [wire EXCEPT ![n][i] = Append(@, Head(buf[n][i]))]
  <2>1. /\ buf[n][i] # <<>> /\ UNCHANGED <<obj, loop, sendq, inbox>>
        /\ \/ ResetStreams(n, i, w, resetting)
           \/ wire' = w /\ buf' = [buf EXCEPT ![n][i] = Tail(@)]
    BY DEF Transmit
  <2>2. Posted(buf, obj) /\ Posted(wire, obj)
    BY DEF Paired, Mail
  <2>3. /\ Posted([buf EXCEPT ![n][i] = Tail(@)], obj)
        /\ Head(buf[n][i]) \in Backed(obj, n)
    BY <2>1, <2>2, <1>PostTail
  <2>4. Posted(w, obj)
    BY <2>2, <2>3, <1>PostAppend
  <2> HIDE DEF w
  <2>5. Posted(buf', obj) /\ Posted(wire', obj)
    BY <2>1, <2>2, <2>3, <2>4, <1>ResetPosted
  <2> QED
    BY <2>1, <2>5, <1>TrafficPaired DEF Paired, Mail

<1>DeliverPaired.
      ASSUME NEW n \in Nodes, NEW i \in Ids, Deliver(n, i)
      PROVE  Paired'
  <2> USE <1>DeliverPaired
  <2> DEFINE m == Head(wire[n][i])
             p == Peer(n)
  <2>1. /\ wire[n][i] # <<>> /\ UNCHANGED <<obj, loop, sendq, buf>>
        /\ wire' = [wire EXCEPT ![n][i] = Tail(@)]
        /\ inbox' = [inbox EXCEPT ![p] = Append(@, m)]
    BY DEF Deliver
  <2>2. Posted(wire, obj) /\ Arrived(inbox, obj) /\ p \in Nodes /\ Peer(p) = n
    BY <1>Peers DEF Paired, Mail
  <2>3. Posted(wire', obj) /\ m \in Backed(obj, n)
    BY <2>1, <2>2, <1>PostTail
  <2> HIDE DEF m, p
  <2>4. Append(inbox[p], m) \in Seq(Backed(obj, Peer(p)))
    BY <2>2, <2>3, AppendProperties DEF Arrived
  <2>5. Arrived(inbox', obj)
    BY <2>1, <2>2, <2>4 DEF Arrived
  <2> QED
    BY <2>1, <2>3, <2>5, <1>TrafficPaired DEF Paired, Mail

<1>DenyResetPaired.
      ASSUME NEW n \in Nodes, NEW i \in Ids, DenyReset(n, i)
      PROVE  Paired'
  <2> USE <1>DenyResetPaired
  <2>1. /\ wire[n][i] # <<>> /\ UNCHANGED <<obj, loop, sendq, buf, inbox>>
        /\ wire' = [wire EXCEPT ![n][i] = Tail(@)]
    BY DEF DenyReset
  <2>2. Posted(wire', obj)
    BY <2>1, <1>PostTail DEF Paired, Mail
  <2> QED
    BY <2>1, <2>2, <1>TrafficPaired DEF Paired, Mail

<1>DownPaired.
      ASSUME NEW n \in Nodes, Down(n)
      PROVE  Paired'
  <2> USE <1>DownPaired
  <2> DEFINE e == [i \in Ids |-> <<>>]
  <2>1. PICK kept \in {<<>>, inbox[n]} : inbox' = [inbox EXCEPT ![n] = kept]
    BY DEF Down
  <2>2. /\ UNCHANGED <<obj, loop, sendq>>
        /\ buf' = [buf EXCEPT ![n] = e] /\ wire' = [wire EXCEPT ![n] = e, ![Peer(n)] = e]
    BY DEF Down
  <2>3. Posted(buf, obj) /\ Posted(wire, obj) /\ Arrived(inbox, obj)
    BY DEF Paired, Mail
  <2>4. e \in [Ids -> Seq(Message)] /\ \A m \in Nodes, i \in Ids : e[i] \in Seq(Backed(obj, m))
    BY EmptyPost
  <2> HIDE DEF e
  <2>5. Posted(buf', obj)
    <3>1. buf' \in Queues /\ \A m \in Nodes : buf'[m] = e \/ buf'[m] = buf[m]
      BY <2>2, <2>3, <2>4 DEF Posted, Queues
    <3> QED
      BY <2>3, <2>4, <3>1 DEF Posted
  <2>6. Posted(wire', obj)
    <3>0. wire \in [Nodes -> [Ids -> Seq(Message)]] /\ e \in [Ids -> Seq(Message)]
      BY <2>3, <2>4 DEF Posted, Queues
    <3>1. wire' \in Queues /\ \A m \in Nodes : wire'[m] = e \/ wire'[m] = wire[m]
      <4> DEFINE T == [Ids -> Seq(Message)]
                 g == [wire EXCEPT ![n] = e]
      <4>1. wire' = [g EXCEPT ![Peer(n)] = e]
        BY <2>2
      <4>2. wire \in [Nodes -> T] /\ e \in T
        BY <3>0
      <4> HIDE DEF T
      <4>3. g \in [Nodes -> T] /\ \A m \in Nodes : g[m] = e \/ g[m] = wire[m]
        BY <4>2
      <4> HIDE DEF g
      <4> QED
        BY <4>1, <4>2, <4>3 DEF Queues, T
    <3> QED
      BY <2>3, <2>4, <3>1 DEF Posted
  <2>7. Arrived(inbox', obj)
    BY <2>1, <2>3, EmptyPost DEF Arrived
  <2> QED
    BY <2>2, <2>5, <2>6, <2>7, <1>TrafficPaired DEF Paired, Mail

<1>StutterPaired.
      ASSUME UNCHANGED vars
      PROVE  Paired'
  BY <1>StutterPaired, <1>TrafficPaired DEF vars, Paired, Mail

<1>AckFailsPaired.
      ASSUME NEW n \in Nodes, AckFails(n)
      PROVE  Paired'
  <2> USE <1>AckFailsPaired
  <2> DEFINE o == loop[n].o
             d == Gone(obj[o])
  <2>1. /\ loop[n].at = "ack" /\ loop' = [loop EXCEPT ![n] = Onward(n, inbox[n])]
        /\ Destruct(o, obj[o], channels) /\ sendq[n] # <<>>
        /\ sendq' = [sendq EXCEPT ![n] = Tail(@)] /\ UNCHANGED inbox
    BY DEF AckFails
  <2>2. o \in Objs /\ Live(obj[o])
    <3>1. o \in Objs /\ obj[o].state = "connecting"
      BY <2>1 DEF IInv, Core, AckPending
    <3> QED
      BY SMT, <3>1 DEF Live
  <2>3. AckStays
    BY <2>1, OnwardAt, <1>LoopAsks
  <2> HIDE DEF o
  <2>4. Grows
    <3>1. obj' = [obj EXCEPT ![o] = d] /\ obj[o] \in Channel
      BY <2>1, <2>2 DEF Destruct, IInv, Core
    <3>2. /\ d.node = obj[o].node /\ d.id = obj[o].id /\ d.opened = obj[o].opened
          /\ d.state # "none"
      BY <3>1, GoneFields, <1>OpenedSame
    <3> HIDE DEF d
    <3> QED
      BY <2>2, <3>1, <3>2, <1>OneGrows DEF IInv, Core
  <2>5. ToSend(sendq', obj')
    BY <2>1, <2>4, <1>OldParts, <1>SendsTail
  <2> QED
    BY <2>1, <2>2, <2>3, <2>5, <1>DestructPaired

<1>IncomingResetPaired.
      ASSUME NEW n \in Nodes, NEW i \in Ids, IncomingReset(n, i)
      PROVE  Paired'
  <2> USE <1>IncomingResetPaired
  <2> DEFINE o == Found(n, i)
             w == [wire EXCEPT ![Peer(n)][i] = Tail(@)]
             r == [resetting EXCEPT ![Peer(n)][i] = "answered"]
  <2>1. UNCHANGED <<loop, sendq, inbox>> /\ wire[Peer(n)][i] # <<>>
    BY DEF IncomingReset
  <2>2. \/ o # None /\ RequestClose(o, obj[o], w, r)
        \/ UNCHANGED <<obj, buf>> /\ wire' = w
    BY DEF IncomingReset
  <2>3. CASE o # None /\ RequestClose(o, obj[o], w, r)
    <3>1. o \in Objs /\ Live(obj[o])
      BY <2>3, FoundChannel DEF Live
    <3> HIDE DEF o
    <3>2. Grows
      <4> DEFINE d == IF obj[o].state \notin {"closing", "closed"}
                      THEN [obj[o] EXCEPT !.state = "closing"] ELSE obj[o]
      <4>1. obj' = [obj EXCEPT ![o] = d] /\ obj[o] \in Channel /\ obj[o].state # "none"
        BY <2>3, <3>1 DEF RequestClose, IInv, Core, Live
      <4>2. /\ d.node = obj[o].node /\ d.id = obj[o].id /\ d.opened = obj[o].opened
            /\ d.state # "none"
        BY <4>1 DEF Channel
      <4> HIDE DEF d
      <4> QED
        BY <3>1, <4>1, <4>2, <1>OneGrows DEF IInv, Core
    <3>3. Posted(w, obj')
      BY <2>1, <3>2, <1>OldParts, <1>Peers, <1>PostTail
    <3> HIDE DEF w, r
    <3> QED
      BY <2>1, <2>3, <3>1, <3>3, <1>RequestClosePaired
  <2>4. CASE UNCHANGED <<obj, buf>> /\ wire' = w
    <3>1. Posted(w, obj)
      BY <2>1, <1>Peers, <1>PostTail DEF Paired, Mail
    <3> HIDE DEF w
    <3> QED
      BY <2>1, <2>4, <3>1, <1>TrafficPaired DEF Paired, Mail
  <2> QED
    BY <2>2, <2>3, <2>4

<1>OutgoingResetPaired.
      ASSUME NEW n \in Nodes, NEW i \in Ids, OutgoingReset(n, i)
      PROVE  Paired'
  <2> USE <1>OutgoingResetPaired
  <2> DEFINE o == Found(n, i)
             d == Closed(obj[o])
  <2>1. UNCHANGED <<loop, sendq, buf, wire, inbox>>
    BY DEF OutgoingReset
  <2>2. CASE o # None
    <3>1. o \in Objs /\ Live(obj[o])
      BY <2>2, FoundChannel DEF Live
    <3>2. obj' = [obj EXCEPT ![o] = d]
      BY <2>2, <3>1 DEF OutgoingReset, IInv, Core
    <3> HIDE DEF o
    <3>3. obj[o] \in Channel /\ Sound(obj[o])
      BY <3>1 DEF IInv, Core
    <3>4. /\ d.node = obj[o].node /\ d.id = obj[o].id /\ d.opened = obj[o].opened
          /\ d.state # "none"
      BY <3>1, <3>3, ClosedSound, <1>OpenedSame DEF Live
    <3>5. AckStays
      BY <2>1 DEF AckStays
    <3> HIDE DEF d
    <3> QED
      BY <2>1, <3>1, <3>2, <3>4, <3>5, <1>OnePaired
  <2>3. CASE o = None
    <3>1. UNCHANGED obj
      BY <2>3 DEF OutgoingReset
    <3> QED
      BY <2>1, <3>1, <1>TrafficPaired DEF Paired, Mail
  <2> QED
    BY <2>2, <2>3

<1>AckSentPaired.
      ASSUME NEW n \in Nodes, AckSent(n)
      PROVE  Paired'
  <2> USE <1>AckSentPaired
  <2> DEFINE o == loop[n].o
             c == [obj[o] EXCEPT !.state = "open", !.opened = TRUE]
             i == c.id
             m == [sid |-> i, kind |-> "ack", size |-> 0]
             h == [c EXCEPT !.held = TRUE]
             g == Gone(c)
  <2>1. /\ loop[n].at = "ack" /\ loop' = [loop EXCEPT ![n] = Onward(n, inbox[n])]
        /\ sendq[n] # <<>> /\ sendq' = [sendq EXCEPT ![n] = Tail(@)] /\ UNCHANGED inbox
        /\ obj' = [obj EXCEPT ![o] = h] \/ obj' = [obj EXCEPT ![o] = g]
    BY DEF AckSent
  <2>2. /\ buf' = [buf EXCEPT ![n][i] = Append(@, m)] \/ buf' = [buf EXCEPT ![n][i] = <<>>]
        /\ \/ UNCHANGED wire
           \/ \E sent \in {<<>>, buf[n][i] \o <<m>>} :
                wire' = [wire EXCEPT ![n][i] = @ \o sent \o <<Reset(i)>>]
    BY DEF AckSent
  <2>3. o \in Objs /\ obj[o] \in Channel /\ obj[o].state = "connecting" /\ obj[o].node = n
    BY SMT, <2>1 DEF IInv, Core, AckPending
  <2>4. ~Own(n, obj[o].id) /\ MadeAt(obj, Peer(n), obj[o].id)
    BY <2>1 DEF Books, Table, Answering, Paired, Asked
  <2>5. AckStays
    BY <2>1, OnwardAt, <1>LoopAsks
  <2> HIDE DEF o
  <2>6. c \in Channel /\ c.node = n /\ c.id = obj[o].id /\ c.state = "open" /\ c.opened
    <3>1. c \in Channel
      BY ZenonT(30), <2>3 DEF Channel, States
    <3>2. c.node = n /\ c.id = obj[o].id /\ c.state = "open" /\ c.opened
      BY <2>3 DEF Channel
    <3> QED
      BY <3>1, <3>2
  <2>7. i \in Ids /\ i = obj[o].id
    BY <2>6 DEF Channel
  <2> HIDE DEF c
  <2>8. h.node = n /\ h.id = i /\ h.state # "none" /\ h.opened
    BY <2>6 DEF Channel
  <2>9. g.node = n /\ g.id = i /\ g.state # "none" /\ g.opened
    BY <2>6, GoneFields, <1>OpenedSame
  <2> HIDE DEF i, h, g
  <2>10. PICK d : /\ obj' = [obj EXCEPT ![o] = d]
                  /\ d.node = n /\ d.id = i /\ d.state # "none" /\ d.opened
    BY <2>1, <2>8, <2>9
  <2>11. OtherEnds(obj') /\ Asked' /\ Grows
    <3>1. obj[o].state # "none" /\ obj[o].id = i
      BY SMT, <2>3, <2>7
    <3>2. MadeAt(obj, Peer(n), i) /\ (Own(n, i) => OpenAt(obj, Peer(n), i))
      BY <2>4, <2>7
    <3> QED
      BY <2>3, <2>5, <2>7, <2>10, <3>1, <3>2, <1>OneOpens
  <2>12. m \in Backed(obj', n)
    <3>1. OpenAt(obj', n, i)
      BY <2>3, <2>10 DEF OpenAt, IInv, Core
    <3>2. m \in Message /\ m.sid = i /\ m.kind = "ack"
      BY <2>7 DEF Message
    <3> HIDE DEF m
    <3> QED
      BY <3>1, <3>2 DEF Backed
  <2> HIDE DEF m
  <2>13. Posted(buf, obj') /\ Posted(wire, obj') /\ Arrived(inbox, obj') /\ ToSend(sendq, obj')
    BY <2>11, <1>OldParts
  <2>14. ToSend(sendq', obj')
    BY <2>1, <2>13, <1>SendsTail
  <2>15. Posted(buf', obj')
    <3>1. Posted([buf EXCEPT ![n][i] = Append(@, m)], obj')
      BY <2>7, <2>12, <2>13, <1>PostAppend
    <3>2. Posted([buf EXCEPT ![n][i] = <<>>], obj')
      BY <2>7, <2>13, EmptyPost, <1>PostTo
    <3> QED
      BY <2>2, <3>1, <3>2
  <2>16. Posted(wire', obj')
    <3>1. CASE UNCHANGED wire
      BY <2>13, <3>1
    <3>2. CASE \E sent \in {<<>>, buf[n][i] \o <<m>>} :
                 wire' = [wire EXCEPT ![n][i] = @ \o sent \o <<Reset(i)>>]
      <4> DEFINE S == Backed(obj', n)
      <4>1. PICK sent \in {<<>>, buf[n][i] \o <<m>>} :
              wire' = [wire EXCEPT ![n][i] = @ \o sent \o <<Reset(i)>>]
        BY <3>2
      <4>2. /\ buf[n][i] \in Seq(S) /\ wire[n][i] \in Seq(S) /\ m \in S
            /\ Reset(i) \in S
        BY <2>7, <2>12, <2>13, <1>ResetBacked DEF Posted
      <4> HIDE DEF S
      <4>3. sent \in Seq(S) /\ <<Reset(i)>> \in Seq(S)
        <5>1. <<m>> \in Seq(S) /\ <<Reset(i)>> \in Seq(S)
          BY SMT, <4>2
        <5>2. <<>> \in Seq(S) /\ buf[n][i] \o <<m>> \in Seq(S)
          BY <4>2, <5>1, EmptyPost, ConcatProperties
        <5> QED
          BY <4>1, <5>1, <5>2
      <4>4. wire[n][i] \o sent \o <<Reset(i)>> \in Seq(S)
        BY <4>2, <4>3, ConcatProperties
      <4> QED
        BY <2>7, <2>13, <4>1, <4>4, <1>PostTo DEF S
    <3> QED
      BY <2>2, <3>1, <3>2
  <2> QED
    BY <2>1, <2>11, <2>13, <2>14, <2>15, <2>16 DEF Paired, Mail

\* The steps.
<1>1. CASE ApplicationStep
  BY <1>1, <1>SendPaired, <1>StartPaired, <1>StopPaired, <1>CreatePaired, <1>CreateNegotiatedPaired,
     <1>ReadPaired, <1>ClosePaired, <1>ReleasePaired DEF ApplicationStep
<1>2. CASE PostedStep
  BY <1>2, <1>ReadTurnPaired, <1>CloseTurnPaired, <1>LoopTurnPaired, <1>StopTurnPaired
     DEF PostedStep
<1>3. CASE LoopStep
  BY <1>3, <1>LoopDataPaired, <1>LoopAckPaired, <1>StopPaired, <1>LoopOpenPaired DEF LoopStep
<1>4. CASE SctpStep
  BY <1>4, <1>SendEndsPaired, <1>AckSentPaired, <1>AckFailsPaired, <1>TransmitPaired,
     <1>DeliverPaired, <1>IncomingResetPaired, <1>DenyResetPaired, <1>OutgoingResetPaired
     DEF SctpStep
<1>5. CASE \E n \in Nodes : Down(n)
  BY <1>5, <1>DownPaired
<1>6. CASE UNCHANGED vars
  BY <1>6, <1>StutterPaired
<1> QED
  BY <1>1, <1>2, <1>3, <1>4, <1>5, <1>6 DEF Next
=============================================================================
