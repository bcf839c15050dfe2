---------------------------- MODULE DataChannels ----------------------------
(***************************************************************************)
(* Two data channel managers, the client and the server of one SCTP        *)
(* association (src/include/asioice/impl/data_channel_impl.hpp).           *)
(*                                                                         *)
(* A manager keeps in _channels a raw pointer per stream id to channel     *)
(* objects the application owns.  Its read_loop() takes the messages of    *)
(* all streams one at a time; opens are answered on the same stream, and   *)
(* the end of a channel is a reset of its stream in each direction, of     *)
(* which the callbacks of the association tell the manager.                *)
(*                                                                         *)
(* A step is the code between two suspensions.  The association (dcsctp,   *)
(* not part of the repository) is modelled from the calls and callbacks    *)
(* the manager uses: per stream it delivers in order, what is delivered    *)
(* waits in one inbox until read, and a reset is reported at once, also    *)
(* when messages sent before it are still unread.                          *)
(***************************************************************************)
EXTENDS Integers, Sequences, FiniteSets

CONSTANTS ObjMax,      \* channel objects the two sides can make
          Plans,       \* what the applications do
          IdMax,       \* the last stream id, 65535 in the code
          MaxStreams,  \* max_datachannel_count(), which makes it even
          CacheMax,    \* max_cache_bytes()
          Sizes,       \* sizes of the application's messages
          ReadersMax   \* read() calls that wait for a channel at a time

ASSUME DataChannelsAssumption ==
    /\ ObjMax \in Nat
    /\ IdMax \in Nat /\ IdMax % 2 = 1
    /\ MaxStreams \in 1 .. IdMax /\ MaxStreams % 2 = 0
    /\ Sizes \subseteq Nat /\ CacheMax \in Nat
    /\ \A s \in Sizes : s <= CacheMax
    /\ ReadersMax \in Nat

VARIABLES
    plan,      \* the plan the applications follow
    obj,       \* the channel objects
    channels,  \* _channels of each side: a stream id to an object, or None
    next,      \* _next_stream_id
    cache,     \* _cache_bytes
    loop,      \* read_loop(): where it waits, with the message that waits for
               \* room, or the channel whose open it is answering
    ended,     \* "no", stop() called by the application and then its hop, or
               \* called by read_loop() at the end of the association
    sendq,     \* sends that wait for the SCTP transport, oldest first
    up,        \* the SCTP socket of this side is connected
    buf,       \* per stream, messages dcsctp has buffered and not sent
    wire,      \* per stream, what is on its way to the other side
    resetting, \* a reset of the outgoing stream: none, asked, answered
    inbox      \* received messages nobody has read

vars == <<plan, obj, channels, next, cache, loop, ended, sendq, up, buf, wire,
          resetting, inbox>>

sctpVars == <<up, buf, wire, resetting, inbox>>

Nodes == {"client", "server"}

Objs == 1 .. ObjMax

Peer(n) == IF n = "client" THEN "server" ELSE "client"

\* Stream ids are unsigned 16-bit numbers.  A negotiated one, and
\* _next_stream_id, can be beyond max_datachannel_count().
Ids == 0..IdMax

After(i) == IF i = IdMax THEN 0 ELSE i + 1

None == 0

States == {"none", "connecting", "open", "closing", "closed", "gone"}

\* A data_channel.  `reader` is the read() that holds _mutex, `readers` those
\* that wait for it, `closer` a close(); `held` says that the channel is the
\* application's, from the call of create_data_channel() on, and `opened` that
\* it has been open.
Channel == [node : Nodes, id : Ids, state : States, q : Seq(Sizes \cup {0}),
            reader : {"idle", "wait", "hop", "stop"}, readers : Nat,
            closer : {"idle", "wait", "hop"}, negotiated : BOOLEAN,
            held : BOOLEAN, opened : BOOLEAN]

Message == [sid : Ids, kind : {"open", "ack", "data", "reset"},
            size : Sizes \cup {0}]

Sending == [o : Objs, kind : {"open", "ack", "data"}, size : Sizes \cup {0}]

TypeOK ==
    /\ obj \in [Objs -> Channel]
    /\ channels \in [Nodes -> [Ids -> Objs \cup {None}]]
    /\ next \in [Nodes -> Ids]
    /\ loop \in [Nodes -> [at : {"idle", "read", "ack", "full", "hop", "done"},
                           sid : Ids, size : Sizes \cup {0},
                           o : Objs \cup {None}]]
    /\ ended \in [Nodes -> {"no", "hop", "cut", "eof"}]
    /\ sendq \in [Nodes -> Seq(Sending)]
    /\ up \in [Nodes -> BOOLEAN]
    /\ buf \in [Nodes -> [Ids -> Seq(Message)]]
    /\ wire \in [Nodes -> [Ids -> Seq(Message)]]
    /\ resetting \in [Nodes -> [Ids -> {"no", "asked", "answered"}]]
    /\ inbox \in [Nodes -> Seq(Message)]

Unmade == [node |-> "client", id |-> 0, state |-> "none", q |-> <<>>,
           reader |-> "idle", readers |-> 0, closer |-> "idle",
           negotiated |-> FALSE, held |-> FALSE, opened |-> FALSE]

Idle == [at |-> "idle", sid |-> 0, size |-> 0, o |-> None]

Init ==
    /\ plan \in Plans
    /\ obj = [o \in Objs |-> Unmade]
    /\ channels = [n \in Nodes |-> [i \in Ids |-> None]]
    /\ next = [n \in Nodes |-> IF n = "client" THEN 0 ELSE 1]
    /\ cache = [n \in Nodes |-> 0]
    /\ loop = [n \in Nodes |-> Idle]
    /\ ended = [n \in Nodes |-> "no"]
    /\ sendq = [n \in Nodes |-> <<>>]
    /\ up = [n \in Nodes |-> TRUE]
    /\ buf = [n \in Nodes |-> [i \in Ids |-> <<>>]]
    /\ wire = [n \in Nodes |-> [i \in Ids |-> <<>>]]
    /\ resetting = [n \in Nodes |-> [i \in Ids |-> "no"]]
    /\ inbox = [n \in Nodes |-> <<>>]

-----------------------------------------------------------------------------
(* The association.                                                        *)

Reset(i) == [sid |-> i, kind |-> "reset", size |-> 0]

\* ResetStreams(): what is buffered for the stream is thrown away and the
\* request follows what has been sent.  A reset in progress is not repeated.
\* w and r are `wire` and `resetting` when it is called.
ResetStreams(n, i, w, r) ==
    IF up[n] /\ r[n][i] = "no"
    THEN /\ resetting' = [r EXCEPT ![n][i] = "asked"]
         /\ buf' = [buf EXCEPT ![n][i] = <<>>]
         /\ wire' = [w EXCEPT ![n][i] = Append(@, Reset(i))]
    ELSE resetting' = r /\ wire' = w /\ UNCHANGED buf

\* The association of one side ends, in the end on both sides; messages nobody
\* has read may go with it.
Down(n) ==
    /\ up[n]
    /\ plan.down \/ ~up[Peer(n)]
    /\ up' = [up EXCEPT ![n] = FALSE]
    /\ \E kept \in {<<>>, inbox[n]} : inbox' = [inbox EXCEPT ![n] = kept]
    /\ buf' = [buf EXCEPT ![n] = [i \in Ids |-> <<>>]]
    /\ wire' = [wire EXCEPT ![n] = [i \in Ids |-> <<>>],
                            ![Peer(n)] = [i \in Ids |-> <<>>]]
    /\ resetting' = [resetting EXCEPT ![n] = [i \in Ids |-> "no"]]
    /\ UNCHANGED <<plan, obj, channels, next, cache, loop, ended, sendq>>

\* A message reaches the other side and waits to be read.
Deliver(n, i) ==
    LET m == Peer(n) IN
    /\ up[m] /\ wire[n][i] # <<>> /\ Head(wire[n][i]) # Reset(i)
    /\ wire' = [wire EXCEPT ![n][i] = Tail(@)]
    /\ inbox' = [inbox EXCEPT ![m] = Append(@, Head(wire[n][i]))]
    /\ UNCHANGED <<plan, obj, channels, next, cache, loop, ended, sendq, up,
                   buf, resetting>>

-----------------------------------------------------------------------------
(* A channel.                                                              *)

\* Mutant: set_state() leaves the readers waiting.
ClosedToWriters(c) ==
    [c EXCEPT !.state = "closed",
              !.closer = IF @ = "wait" THEN "hop" ELSE @]

\* Mutant: close() is not told of the state set by set_state().
ClosedSilently(c) ==
    [c EXCEPT !.state = "closed",
              !.reader = IF @ = "wait" THEN "stop" ELSE @]

\* set_state(closed): a reader that waits is stopped, and a close() that waits
\* for the change of state hops.
Closed(c) ==
    [c EXCEPT !.state = "closed",
              !.reader = IF @ = "wait" THEN "stop" ELSE @,
              !.closer = IF @ = "wait" THEN "hop" ELSE @]

\* The mutex of c is free and m calls of read() want it.  Each in its turn
\* takes a message that is there; the first that finds none waits for data, or
\* ends if the channel is closed.
Serve(c, m) ==
    LET k == IF m < Len(c.q) THEN m ELSE Len(c.q)
    IN [c EXCEPT !.q = SubSeq(@, k + 1, Len(@)),
                 !.reader = IF m = k THEN "idle"
                            ELSE IF c.state = "closed" THEN "stop" ELSE "wait",
                 !.readers = IF m = k THEN 0 ELSE m - k - 1]

\* push()
Push(c, size) ==
    [c EXCEPT !.q = Append(@, size),
              !.reader = IF c.q = <<>> /\ @ = "wait" THEN "hop" ELSE @]

\* f[1] + ... + f[n]
SumTo(f, n) ==
    LET S[i \in 0 .. n] == IF i = 0 THEN 0 ELSE S[i - 1] + f[i] IN S[n]

Bytes(q) == SumTo(q, Len(q))

\* Mutant: read() does not tell _not_full.
FreedSilently(n, c, d) ==
    /\ cache' = [cache EXCEPT ![n] = @ - (Bytes(c.q) - Bytes(d.q))]
    /\ UNCHANGED loop

\* The bytes c gives back when it becomes d, and _not_full.set_one_value().
Freed(n, c, d) ==
    IF d.q = c.q THEN UNCHANGED <<cache, loop>>
    ELSE /\ cache' = [cache EXCEPT ![n] = @ - (Bytes(c.q) - Bytes(d.q))]
         /\ loop' = IF loop[n].at = "full" THEN [loop EXCEPT ![n].at = "hop"]
                    ELSE loop

\* request_close(): the reset waits for the buffered messages to be sent.  c is
\* the object with what else its caller changes of it.
RequestClose(o, c, w, r) ==
    LET first == obj[o].state \notin {"closing", "closed"} IN
    /\ obj' = [obj EXCEPT ![o] = IF first THEN [c EXCEPT !.state = "closing"]
                                 ELSE c]
    /\ IF first /\ buf[c.node][c.id] = <<>>
       THEN ResetStreams(c.node, c.id, w, r)
       ELSE resetting' = r /\ wire' = w /\ UNCHANGED buf

\* The object itself, no longer used.
Gone(c) == [Unmade EXCEPT !.node = c.node, !.id = c.id, !.state = "gone",
                          !.negotiated = c.negotiated, !.opened = c.opened]

\* Mutant: a closed channel is taken to be unregistered already.
DestructClosed(o, c, chs) ==
    /\ obj' = [obj EXCEPT ![o] = Gone(c)]
    /\ channels' = IF c.state = "closed" THEN chs
                   ELSE [chs EXCEPT ![c.node][c.id] = None]
    /\ IF c.state # "closed" THEN ResetStreams(c.node, c.id, wire, resetting)
       ELSE UNCHANGED <<buf, wire, resetting>>

\* Mutant: the destructor does not reset the stream.
DestructQuietly(o, c, chs) ==
    /\ obj' = [obj EXCEPT ![o] = Gone(c)]
    /\ channels' = [chs EXCEPT ![c.node][c.id] = None]
    /\ UNCHANGED <<buf, wire, resetting>>

\* ~data_channel(): erases what _channels holds under its id, gives its bytes
\* back, and resets the stream unless the channel is closed.  c is the object
\* and chs the map, as they are when it runs.
Destruct(o, c, chs) ==
    /\ obj' = [obj EXCEPT ![o] = Gone(c)]
    /\ channels' = [chs EXCEPT ![c.node][c.id] = None]
    /\ IF c.state # "closed" THEN ResetStreams(c.node, c.id, wire, resetting)
       ELSE UNCHANGED <<buf, wire, resetting>>

-----------------------------------------------------------------------------
(* What the application calls.                                             *)

May(n, op) == <<n, op>> \in plan.ops

\* The application has the channel in hand: create_data_channel() has returned.
InHand(o) ==
    /\ obj[o].held
    /\ \A k \in DOMAIN sendq[obj[o].node] :
         LET s == sendq[obj[o].node][k] IN s.o = o => s.kind # "open"

\* Mutant: a channel is open from the start, with no answer waited for.
MakeOpen(n, i) == [Unmade EXCEPT !.node = n, !.id = i, !.state = "open", !.opened = TRUE]

\* data_channel::make_channel() and set_attributes()
Make(n, i) == [Unmade EXCEPT !.node = n, !.id = i, !.state = "connecting"]

\* The object the next channel will be.
Fresh(o) == /\ obj[o].state = "none"
            /\ \A p \in Objs : p < o => obj[p].state # "none"

Registered(n) == {i \in Ids : channels[n][i] # None}

Own(n, i) == (i % 2 = 0) <=> (n = "client")

FreeIds(n) == {i \in Ids : Own(n, i) /\ i < MaxStreams /\ channels[n][i] = None}

\* allocate_stream_id(): the next id, or if that is taken the lowest free one
\* by a bitmap.  The bitmap is right while the ids are at most 30; with others
\* it is built by shifts the language does not define, and shows as free some
\* of the free ids.
Allocable(n) ==
    IF channels[n][next[n]] = None THEN {next[n]}
    ELSE {i \in FreeIds(n) : \/ \E j \in Registered(n) : j > 30
                             \/ \A j \in FreeIds(n) : i <= j}

\* create_data_channel(), in band, up to the await of the open message.
Create(n, o) ==
    /\ May(n, "create") /\ ended[n] \in {"no", "eof"} /\ Fresh(o)
    /\ plan.creates > 0 /\ plan' = [plan EXCEPT !.creates = @ - 1]
    /\ Cardinality(Registered(n)) < MaxStreams
    /\ \E i \in Allocable(n) :
       /\ obj' = [obj EXCEPT ![o] = [Make(n, i) EXCEPT !.held = TRUE]]
       /\ channels' = [channels EXCEPT ![n][i] = o]
       /\ next' = IF channels[n][next[n]] = None
                  THEN [next EXCEPT ![n] = (i + 2) % MaxStreams] ELSE next
       /\ sendq' = [sendq EXCEPT ![n] =
                        Append(@, [o |-> o, kind |-> "open", size |-> 0])]
    /\ UNCHANGED <<cache, loop, ended, sctpVars>>

\* create_data_channel() of a negotiated channel: nothing is sent, and it stays
\* connecting.
CreateNegotiated(n, o, i) ==
    /\ May(n, "negotiate") /\ ended[n] \in {"no", "eof"} /\ Fresh(o)
    /\ plan.creates > 0 /\ plan' = [plan EXCEPT !.creates = @ - 1]
    /\ i \in plan.ids /\ channels[n][i] = None
    /\ obj' = [obj EXCEPT ![o] =
                   [Make(n, i) EXCEPT !.negotiated = TRUE, !.held = TRUE]]
    /\ channels' = [channels EXCEPT ![n][i] = o]
    /\ next' = [next EXCEPT ![n] = IF Own(n, After(i)) THEN After(i)
                                 ELSE After(After(i))]
    /\ UNCHANGED <<cache, loop, ended, sendq, sctpVars>>

\* send(): refused on a channel that is closing or closed, else the message is
\* the transport's, whatever becomes of the channel.
Send(o, size) ==
    LET n == obj[o].node IN
    /\ May(n, "send") /\ InHand(o) /\ plan.sends > 0
    /\ obj[o].state \in {"connecting", "open"}
    /\ plan' = [plan EXCEPT !.sends = @ - 1]
    /\ sendq' = [sendq EXCEPT ![n] =
                     Append(@, [o |-> o, kind |-> "data", size |-> size])]
    /\ UNCHANGED <<obj, channels, next, cache, loop, ended, sctpVars>>

\* read()
Read(o) ==
    LET c == obj[o]
        d == IF c.reader = "idle" THEN Serve(c, 1)
             ELSE [c EXCEPT !.readers = @ + 1]
    IN /\ May(c.node, "read") /\ InHand(o) /\ c.readers < ReadersMax
       /\ obj' = [obj EXCEPT ![o] = d]
       /\ Freed(c.node, c, d)
       /\ UNCHANGED <<plan, channels, next, ended, sendq, sctpVars>>

\* close(), up to the wait for the change of state.
Close(o) ==
    LET c == obj[o] IN
    /\ May(c.node, "close") /\ InHand(o) /\ c.closer = "idle"
    /\ c.state # "closed"
    /\ RequestClose(o, [c EXCEPT !.closer = "wait"], wire, resetting)
    /\ UNCHANGED <<plan, channels, next, cache, loop, ended, sendq, up, inbox>>

\* Mutant: the destructor does not give its bytes back.
ReleaseKeepsBytes(o) ==
    LET c == obj[o] IN
    /\ May(c.node, "release") /\ c.held
    /\ c.reader = "idle" /\ c.closer = "idle"
    /\ \A k \in DOMAIN sendq[c.node] : sendq[c.node][k].o # o
    /\ Destruct(o, c, channels)
    /\ loop' = IF loop[c.node].at = "full"
               THEN [loop EXCEPT ![c.node].at = "hop"] ELSE loop
    /\ UNCHANGED <<plan, next, cache, ended, sendq, up, inbox>>

\* The application lets go of a channel no call of its own uses.
Release(o) ==
    LET c == obj[o] IN
    /\ May(c.node, "release") /\ c.held
    /\ c.reader = "idle" /\ c.closer = "idle"
    /\ \A k \in DOMAIN sendq[c.node] : sendq[c.node][k].o # o
    /\ Destruct(o, c, channels)
    /\ cache' = [cache EXCEPT ![c.node] = @ - Bytes(c.q)]
    /\ loop' = IF loop[c.node].at = "full"
               THEN [loop EXCEPT ![c.node].at = "hop"] ELSE loop
    /\ UNCHANGED <<plan, next, ended, sendq, up, inbox>>

\* start()
Start(n) ==
    /\ loop[n].at = "idle" /\ ended[n] = "no"
    /\ loop' = [loop EXCEPT ![n].at = "read"]
    /\ UNCHANGED <<plan, obj, channels, next, cache, ended, sendq, sctpVars>>

\* stop(): every registered channel is closed and forgotten.
StopEffects(n) ==
    /\ obj' = [o \in Objs |-> IF \E i \in Ids : channels[n][i] = o
                             THEN Closed(obj[o]) ELSE obj[o]]
    /\ channels' = [channels EXCEPT ![n] = [i \in Ids |-> None]]

Stop(n) ==
    /\ May(n, "stop") /\ ended[n] \in {"no", "eof"}
    /\ StopEffects(n)
    /\ ended' = [ended EXCEPT ![n] = "hop"]
    /\ UNCHANGED <<plan, next, cache, loop, sendq, sctpVars>>

-----------------------------------------------------------------------------
(* Calls that go on.                                                       *)

\* A read() that was woken takes its message, or ends because the channel was
\* closed; the mutex goes to the next.
ReadTurn(o) ==
    LET c == obj[o]
        d == IF c.reader = "hop" THEN [c EXCEPT !.q = Tail(@)] ELSE c
        e == Serve(d, c.readers)
    IN /\ c.reader \in {"hop", "stop"}
       /\ obj' = [obj EXCEPT ![o] = e]
       /\ Freed(c.node, c, e)
       /\ UNCHANGED <<plan, channels, next, ended, sendq, sctpVars>>

\* close() returns.
CloseTurn(o) ==
    /\ obj[o].closer = "hop"
    /\ obj' = [obj EXCEPT ![o].closer = "idle"]
    /\ UNCHANGED <<plan, channels, next, cache, loop, ended, sendq, sctpVars>>

-----------------------------------------------------------------------------
(* read_loop().                                                            *)

\* Where read_loop() is after its step, when `rest` is still unread.  Nothing
\* sets _stopped: a stop that has come ends the loop where it would wait next.
Onward(n, rest) ==
    [Idle EXCEPT !.at = IF ended[n] = "cut" /\ rest = <<>> /\ up[n] THEN "done"
                        ELSE "read"]

Received(n) == Head(inbox[n])

\* A message for a channel: it waits for room in the cache of all channels, and
\* then for the channel that has the id.
Accept(n, sid, size, rest) ==
    LET o == channels[n][sid] IN
    IF cache[n] + size > CacheMax
    THEN /\ loop' = [loop EXCEPT ![n] =
                         IF ended[n] = "cut" THEN [Idle EXCEPT !.at = "done"]
                         ELSE [Idle EXCEPT !.at = "full", !.sid = sid,
                                           !.size = size]]
         /\ UNCHANGED <<obj, cache>>
    ELSE /\ loop' = [loop EXCEPT ![n] = Onward(n, rest)]
         /\ obj' = IF o = None THEN obj
                   ELSE [obj EXCEPT ![o] = Push(@, size)]
         /\ cache' = IF o = None THEN cache
                     ELSE [cache EXCEPT ![n] = @ + size]

LoopData(n) ==
    /\ loop[n].at = "read" /\ inbox[n] # <<>> /\ Received(n).kind = "data"
    /\ inbox' = [inbox EXCEPT ![n] = Tail(@)]
    /\ LET m == Received(n) IN
       IF m.sid < MaxStreams /\ channels[n][m.sid] # None
       THEN Accept(n, m.sid, m.size, Tail(inbox[n]))
       ELSE /\ loop' = [loop EXCEPT ![n] = Onward(n, Tail(inbox[n]))]
            /\ UNCHANGED <<obj, cache>>
    /\ UNCHANGED <<plan, channels, next, ended, sendq, up, buf, wire,
                   resetting>>

\* The wait for room is over: the channel is looked up again.
LoopTurn(n) ==
    /\ loop[n].at = "hop"
    /\ Accept(n, loop[n].sid, loop[n].size, inbox[n])
    /\ UNCHANGED <<plan, channels, next, ended, sendq, sctpVars>>

\* Mutant: the parity of the two sides is swapped.
LoopOpenSwapped(n, o) ==
    LET i == Received(n).sid IN
    /\ loop[n].at = "read" /\ inbox[n] # <<>> /\ Received(n).kind = "open"
    /\ Fresh(o)
    /\ inbox' = [inbox EXCEPT ![n] = Tail(@)]
    /\ IF i < MaxStreams /\ Own(n, i) /\ channels[n][i] = None
       THEN /\ obj' = [obj EXCEPT ![o] = Make(n, i)]
            /\ sendq' = [sendq EXCEPT ![n] =
                             Append(@, [o |-> o, kind |-> "ack", size |-> 0])]
            /\ loop' = [loop EXCEPT ![n] = [Idle EXCEPT !.at = "ack", !.o = o]]
       ELSE /\ loop' = [loop EXCEPT ![n] = Onward(n, Tail(inbox[n]))]
            /\ UNCHANGED <<obj, sendq>>
    /\ UNCHANGED <<plan, channels, next, cache, ended, up, buf, wire,
                   resetting>>

\* Mutant: an id in use is not refused.
LoopOpenUnchecked(n, o) ==
    LET i == Received(n).sid IN
    /\ loop[n].at = "read" /\ inbox[n] # <<>> /\ Received(n).kind = "open"
    /\ Fresh(o)
    /\ inbox' = [inbox EXCEPT ![n] = Tail(@)]
    /\ IF i < MaxStreams /\ ~Own(n, i)
       THEN /\ obj' = [obj EXCEPT ![o] = Make(n, i)]
            /\ sendq' = [sendq EXCEPT ![n] =
                             Append(@, [o |-> o, kind |-> "ack", size |-> 0])]
            /\ loop' = [loop EXCEPT ![n] = [Idle EXCEPT !.at = "ack", !.o = o]]
       ELSE /\ loop' = [loop EXCEPT ![n] = Onward(n, Tail(inbox[n]))]
            /\ UNCHANGED <<obj, sendq>>
    /\ UNCHANGED <<plan, channels, next, cache, ended, up, buf, wire,
                   resetting>>

\* handle_dcep(): an open is refused under an id of our own or one in use;
\* else the channel is made, and registered once the answer has been sent.
LoopOpen(n, o) ==
    LET i == Received(n).sid IN
    /\ loop[n].at = "read" /\ inbox[n] # <<>> /\ Received(n).kind = "open"
    /\ Fresh(o)
    /\ inbox' = [inbox EXCEPT ![n] = Tail(@)]
    /\ IF i < MaxStreams /\ ~Own(n, i) /\ channels[n][i] = None
       THEN /\ obj' = [obj EXCEPT ![o] = Make(n, i)]
            /\ sendq' = [sendq EXCEPT ![n] =
                             Append(@, [o |-> o, kind |-> "ack", size |-> 0])]
            /\ loop' = [loop EXCEPT ![n] = [Idle EXCEPT !.at = "ack", !.o = o]]
       ELSE /\ loop' = [loop EXCEPT ![n] = Onward(n, Tail(inbox[n]))]
            /\ UNCHANGED <<obj, sendq>>
    /\ UNCHANGED <<plan, channels, next, cache, ended, up, buf, wire,
                   resetting>>

\* Mutant: the answer opens whatever has the id.
LoopAckAlways(n) ==
    LET i == Received(n).sid IN
    /\ loop[n].at = "read" /\ inbox[n] # <<>> /\ Received(n).kind = "ack"
    /\ inbox' = [inbox EXCEPT ![n] = Tail(@)]
    /\ obj' = IF i < MaxStreams /\ channels[n][i] # None
              THEN [obj EXCEPT ![channels[n][i]].state = "open",
                               ![channels[n][i]].opened = TRUE]
              ELSE obj
    /\ loop' = [loop EXCEPT ![n] = Onward(n, Tail(inbox[n]))]
    /\ UNCHANGED <<plan, channels, next, cache, ended, sendq, up, buf, wire,
                   resetting>>

\* handle_dcep(): the answer opens a channel that is connecting.
LoopAck(n) ==
    LET i == Received(n).sid IN
    /\ loop[n].at = "read" /\ inbox[n] # <<>> /\ Received(n).kind = "ack"
    /\ inbox' = [inbox EXCEPT ![n] = Tail(@)]
    /\ obj' = IF i < MaxStreams /\ channels[n][i] # None
                 /\ obj[channels[n][i]].state = "connecting"
              THEN [obj EXCEPT ![channels[n][i]].state = "open",
                               ![channels[n][i]].opened = TRUE]
              ELSE obj
    /\ loop' = [loop EXCEPT ![n] = Onward(n, Tail(inbox[n]))]
    /\ UNCHANGED <<plan, channels, next, cache, ended, sendq, up, buf, wire,
                   resetting>>

\* The association has ended and nothing is left to read.
LoopEnds(n) ==
    /\ loop[n].at = "read" /\ inbox[n] = <<>> /\ ~up[n]
    /\ StopEffects(n)
    /\ loop' = [loop EXCEPT ![n] = [Idle EXCEPT !.at = "done"]]
    /\ ended' = [ended EXCEPT ![n] = IF @ = "no" THEN "eof" ELSE @]
    /\ UNCHANGED <<plan, next, cache, sendq, sctpVars>>

\* s without its element k
Without(s, k) == SubSeq(s, 1, k - 1) \o SubSeq(s, k + 1, Len(s))

\* The stop of read_loop() reaches it: it ends if it waits, and goes on if it
\* has been posted.  An answer that has not been sent is given up with its
\* channel, also one that a loop that goes on would wait to send.
StopTurn(n) ==
    LET cut == [loop EXCEPT ![n] = [Idle EXCEPT !.at = "done"]]
        waits == \/ loop[n].at = "full"
                 \/ loop[n].at = "read" /\ inbox[n] = <<>> /\ up[n]
    IN
    /\ ended' = [ended EXCEPT ![n] = "cut"]
    /\ \/ /\ ended[n] \in {"hop", "cut"}
          /\ loop[n].at = "ack" /\ loop' = cut
          /\ Destruct(loop[n].o, obj[loop[n].o], channels)
          /\ \E k \in DOMAIN sendq[n] :
               /\ sendq[n][k].kind = "ack"
               /\ sendq' = [sendq EXCEPT ![n] = Without(@, k)]
       \/ /\ ended[n] = "hop" /\ loop[n].at # "ack"
          /\ loop' = IF waits THEN cut ELSE loop
          /\ UNCHANGED <<obj, channels, sendq, buf, wire, resetting>>
    /\ UNCHANGED <<plan, next, cache, up, inbox>>

-----------------------------------------------------------------------------
(* What the association tells.                                             *)

\* The transport has room for the oldest send: open and data messages are
\* buffered.  create_data_channel() returns its channel now, whether or not the
\* open was sent.
SendEnds(n) ==
    LET s == Head(sendq[n])
        c == obj[s.o]
        m == [sid |-> c.id, kind |-> s.kind, size |-> s.size]
    IN /\ sendq[n] # <<>> /\ s.kind # "ack"
       /\ sendq' = [sendq EXCEPT ![n] = Tail(@)]
       /\ buf' = IF up[n] THEN [buf EXCEPT ![n][c.id] = Append(@, m)] ELSE buf
       /\ UNCHANGED <<plan, obj, channels, next, cache, loop, ended, up, wire,
                      resetting, inbox>>

\* The answer to an open has been sent: the channel is registered, open, and
\* handed to _on_remote_channel.
AckSent(n) ==
    LET o == loop[n].o
        c == [obj[o] EXCEPT !.state = "open", !.opened = TRUE]
        i == c.id
        m == [sid |-> i, kind |-> "ack", size |-> 0]
        chs == [channels EXCEPT ![n][i] = o]
    IN /\ loop[n].at = "ack" /\ up[n]
       /\ sendq[n] # <<>> /\ Head(sendq[n]).kind = "ack"
       /\ sendq' = [sendq EXCEPT ![n] = Tail(@)]
       /\ next' = [next EXCEPT ![n] = After(i)]
       /\ loop' = [loop EXCEPT ![n] = Onward(n, inbox[n])]
       /\ \/ /\ plan.accepts /\ ended[n] = "no"
             /\ obj' = [obj EXCEPT ![o] = [c EXCEPT !.held = TRUE]]
             /\ channels' = chs
             /\ buf' = [buf EXCEPT ![n][i] = Append(@, m)]
             /\ UNCHANGED <<wire, resetting>>
          \/ /\ ~(plan.accepts /\ ended[n] = "no")
             /\ obj' = [obj EXCEPT ![o] = Gone(c)]
             /\ channels' = [chs EXCEPT ![n][i] = None]
             /\ IF resetting[n][i] # "no"
                THEN /\ buf' = [buf EXCEPT ![n][i] = Append(@, m)]
                     /\ UNCHANGED <<wire, resetting>>
                ELSE /\ buf' = [buf EXCEPT ![n][i] = <<>>]
                     /\ resetting' = [resetting EXCEPT ![n][i] = "asked"]
                     /\ \E sent \in {<<>>, buf[n][i] \o <<m>>} :
                          wire' = [wire EXCEPT ![n][i] =
                                       @ \o sent \o <<Reset(i)>>]
       /\ UNCHANGED <<plan, cache, ended, up, inbox>>

\* The answer could not be sent: the channel is given up.
AckFails(n) ==
    /\ loop[n].at = "ack" /\ ~up[n]
    /\ sendq[n] # <<>> /\ Head(sendq[n]).kind = "ack"
    /\ sendq' = [sendq EXCEPT ![n] = Tail(@)]
    /\ Destruct(loop[n].o, obj[loop[n].o], channels)
    /\ loop' = [loop EXCEPT ![n] = Onward(n, inbox[n])]
    /\ UNCHANGED <<plan, next, cache, ended, up, inbox>>

\* The channel the callbacks of the association find under an id.
Found(n, i) == IF ended[n] = "no" THEN channels[n][i] ELSE None

\* Mutant: the messages that were buffered are sent and nothing follows.
TransmitOnly(n, i) ==
    /\ up[n] /\ resetting[n][i] = "no" /\ buf[n][i] # <<>>
    /\ wire' = [wire EXCEPT ![n][i] = Append(@, Head(buf[n][i]))]
    /\ buf' = [buf EXCEPT ![n][i] = Tail(@)]
    /\ UNCHANGED <<plan, obj, channels, next, cache, loop, ended, sendq, up,
                   resetting, inbox>>

\* dcsctp sends a message; the last one brings on_buffered_amount_low(), which
\* resets the stream of a channel that is closing.
Transmit(n, i) ==
    LET o == Found(n, i)
        w == [wire EXCEPT ![n][i] = Append(@, Head(buf[n][i]))]
    IN /\ up[n] /\ resetting[n][i] = "no" /\ buf[n][i] # <<>>
       /\ IF Len(buf[n][i]) = 1 /\ o # None /\ obj[o].state = "closing"
          THEN ResetStreams(n, i, w, resetting)
          ELSE /\ wire' = w
               /\ buf' = [buf EXCEPT ![n][i] = Tail(@)]
               /\ UNCHANGED resetting
       /\ UNCHANGED <<plan, obj, channels, next, cache, loop, ended, sendq, up,
                      inbox>>

\* on_incoming_reseted(): the other side has reset the stream.
IncomingReset(n, i) ==
    LET m == Peer(n)
        o == Found(n, i)
        w == [wire EXCEPT ![m][i] = Tail(@)]
        r == [resetting EXCEPT ![m][i] = "answered"]
    IN /\ up[n] /\ wire[m][i] # <<>> /\ Head(wire[m][i]) = Reset(i)
       /\ IF o # None THEN RequestClose(o, obj[o], w, r)
          ELSE wire' = w /\ resetting' = r /\ UNCHANGED <<obj, buf>>
       /\ UNCHANGED <<plan, channels, next, cache, loop, ended, sendq, up,
                      inbox>>

\* The other side may deny a reset: to its manager nothing happens.
DenyReset(n, i) ==
    /\ plan.denies /\ up[Peer(n)]
    /\ wire[n][i] # <<>> /\ Head(wire[n][i]) = Reset(i)
    /\ wire' = [wire EXCEPT ![n][i] = Tail(@)]
    /\ resetting' = [resetting EXCEPT ![n][i] = "answered"]
    /\ UNCHANGED <<plan, obj, channels, next, cache, loop, ended, sendq, up,
                   buf, inbox>>

\* on_outgoing_reseted(): our reset is answered, and the channel is closed, also
\* when it was denied.
OutgoingReset(n, i) ==
    LET o == Found(n, i) IN
    /\ up[n] /\ resetting[n][i] = "answered"
    /\ resetting' = [resetting EXCEPT ![n][i] = "no"]
    /\ obj' = IF o = None THEN obj ELSE [obj EXCEPT ![o] = Closed(@)]
    /\ UNCHANGED <<plan, channels, next, cache, loop, ended, sendq, up, buf,
                   wire, inbox>>

-----------------------------------------------------------------------------
ApplicationStep ==
    \/ \E n \in Nodes : Start(n) \/ Stop(n)
    \/ \E n \in Nodes, o \in Objs : Create(n, o)
    \/ \E n \in Nodes, o \in Objs, i \in Ids : CreateNegotiated(n, o, i)
    \/ \E o \in Objs, size \in Sizes : Send(o, size)
    \/ \E o \in Objs : Read(o) \/ Close(o) \/ Release(o)

PostedStep ==
    \/ \E o \in Objs : ReadTurn(o) \/ CloseTurn(o)
    \/ \E n \in Nodes : LoopTurn(n) \/ StopTurn(n)

LoopStep ==
    \E n \in Nodes :
        \/ LoopData(n) \/ LoopAck(n) \/ LoopEnds(n)
        \/ \E o \in Objs : LoopOpen(n, o)

SctpStep ==
    \E n \in Nodes :
        \/ SendEnds(n) \/ AckSent(n) \/ AckFails(n)
        \/ \E i \in Ids : \/ Transmit(n, i) \/ Deliver(n, i)
                          \/ IncomingReset(n, i) \/ DenyReset(n, i)
                          \/ OutgoingReset(n, i)

Next == \/ ApplicationStep \/ PostedStep \/ LoopStep \/ SctpStep
        \/ \E n \in Nodes : Down(n)

\* The executor runs what is posted, and the association moves on: what is sent
\* arrives unless the association ends, and then it ends on both sides.
Spec == Init /\ [][Next]_vars
        /\ WF_vars(PostedStep) /\ WF_vars(LoopStep) /\ WF_vars(SctpStep)
        /\ WF_vars(\E n \in Nodes : ~up[Peer(n)] /\ Down(n))

-----------------------------------------------------------------------------
(* Properties.                                                             *)

\* The raw pointers of _channels point to live channels of that id: whatever
\* the order of creation, failed answers, stop() and destruction, the lookups of
\* read_loop() and of the callbacks never reach a destroyed object.
EntriesLive ==
    \A n \in Nodes, i \in Ids :
        channels[n][i] # None =>
            LET c == obj[channels[n][i]] IN
            c.node = n /\ c.id = i /\ c.state \notin {"none", "gone"}

\* A channel the application holds that is not closed is in _channels, so that
\* messages, resets and stop() reach it, as long as its manager runs.  The
\* exception is an id that was also negotiated: handle_dcep() registers its
\* channel after an await, over one created under that id meanwhile.
ChannelsReachable ==
    \A o \in Objs :
        LET c == obj[o] IN
        c.held /\ c.state # "closed" /\ ended[c.node] = "no" =>
            \/ channels[c.node][c.id] = o
            \/ \E p \in Objs : /\ obj[p].node = c.node /\ obj[p].id = c.id
                               /\ obj[p].negotiated

\* _cache_bytes is what the queues of the live channels hold, so that it ends at
\* 0 as ~data_channel_manager_impl() asserts, and never exceeds its limit.
CacheAccounted ==
    \A n \in Nodes :
        /\ cache[n] = SumTo([o \in Objs |-> IF obj[o].node = n
                                            THEN Bytes(obj[o].q) ELSE 0],
                            ObjMax)
        /\ cache[n] <= CacheMax

\* read_loop() waits for room only while its message does not fit: every way a
\* message leaves a queue, the destructor included, tells it.
LoopWaitsForRoom ==
    \A n \in Nodes : loop[n].at = "full" => cache[n] + loop[n].size > CacheMax

\* A woken read() finds a message (the assertion in read()), one that waits has
\* none to take and an open end to wait for, and _mutex is held while others
\* wait for it.
ReaderFinds ==
    \A o \in Objs :
        LET c == obj[o] IN
        /\ c.reader = "hop" => c.q # <<>>
        /\ c.reader = "wait" => c.q = <<>> /\ c.state # "closed"
        /\ c.readers > 0 => c.reader # "idle"

\* A close() that waits is on a channel that is closing, and returns on one that
\* is closed: the next change of state it is told of is the last.
CloseReturnsClosed ==
    \A o \in Objs :
        /\ obj[o].closer = "wait" => obj[o].state = "closing"
        /\ obj[o].closer = "hop" => obj[o].state = "closed"

\* A channel is open only with an end on the other side: the answer that opened
\* a channel of one's own id was sent by a channel that opened there, and one
\* opened for the other side answers a channel that was made there.  No answer
\* is made up, or reaches another stream, however ids are used again.
OpensPaired ==
    \A o \in Objs :
        obj[o].opened =>
            \E p \in Objs :
                /\ obj[p].node = Peer(obj[o].node)
                /\ obj[p].id = obj[o].id /\ obj[p].state # "none"
                /\ Own(obj[o].node, obj[o].id) => obj[p].opened

Rank(s) == CASE s = "none" -> 0 [] s = "connecting" -> 1 [] s = "open" -> 2
             [] s = "closing" -> 3 [] s = "closed" -> 4 [] s = "gone" -> 5

\* A channel never goes back: an answer that comes late opens no channel that is
\* closing, and a reset that comes late does not reopen one that is closed.
StatesAdvance ==
    [][\A o \in Objs : Rank(obj[o].state) <= Rank(obj'[o].state)]_vars

\* A registered channel that is closing is closed in the end: its buffered
\* messages are sent, its reset is asked for once and answered, or the end of
\* the association is read.  That is not read by a loop that was not started,
\* or that waits for a reader to make room.
ClosingEnds ==
    <>[](\A n \in Nodes, i \in Ids :
            Found(n, i) # None /\ obj[Found(n, i)].state = "closing" =>
                ~up[n] /\ loop[n].at \in {"idle", "full"})

\* At most one channel of each side has had the id, and none by negotiation.
Once(i) ==
    LET had == {o \in Objs : obj[o].state # "none" /\ obj[o].id = i} IN
    /\ \A o \in had : ~obj[o].negotiated
    /\ \A o, p \in had : obj[o].node = obj[p].node => o = p

Runs(n) == up[n] /\ ended[n] = "no" /\ loop[n].at \notin {"idle", "full"}

\* An open is answered: a channel created in band does not stay connecting while
\* both sides run, under an id of the range that no other channel has had.  A
\* second channel under an id the other side still holds is never answered.
OpensAnswered ==
    <>[](\A o \in Objs :
            LET c == obj[o] IN
            /\ c.state = "connecting" /\ ~c.negotiated /\ Own(c.node, c.id)
            /\ c.id < MaxStreams /\ Once(c.id)
            => ~(Runs("client") /\ Runs("server")))

\* When one end of a channel that was open on both leaves the open state, by
\* close(), by its destruction or by a reset, so does the other, under an id no
\* other channel has had.  A reset that is denied closes one end only.
BothEndsClose ==
    <>[](\A o, p \in Objs :
            /\ ~plan.denies
            /\ obj[o].opened /\ obj[p].opened
            /\ obj[o].node # obj[p].node /\ obj[o].id = obj[p].id
            /\ Once(obj[o].id)
            /\ \A n \in Nodes : up[n] /\ ended[n] = "no"
            => (obj[o].state = "open" => obj[p].state = "open"))

=============================================================================
