------------------------ MODULE DataChannelsInvariant ------------------------
(***************************************************************************)
(* The inductive invariant of the data channel managers: the channels and  *)
(* who refers to them, what the association holds, and the room in the     *)
(* cache.                                                                  *)
(***************************************************************************)
EXTENDS DataChannels

\* What holds of one channel: its readers, its close() and its owner.
Sound(c) ==
    /\ c.reader = "hop" => c.q # <<>>
    /\ c.reader = "wait" => c.q = <<>> /\ c.state # "closed"
    /\ c.readers > 0 => c.reader # "idle"
    /\ c.closer = "wait" => c.state = "closing"
    /\ c.closer = "hop" => c.state = "closed"
    /\ c.held => c.state \notin {"none", "gone"}

\* The channel whose open is being answered has just been made, is in nobody's
\* hands and in no table.
AckPending ==
    \A n \in Nodes :
        loop[n].at = "ack" =>
            /\ loop[n].o \in Objs
            /\ obj[loop[n].o].node = n
            /\ obj[loop[n].o].state = "connecting"
            /\ ~obj[loop[n].o].held
            /\ obj[loop[n].o].id < MaxStreams
            /\ channels[n][obj[loop[n].o].id] # loop[n].o

LoopAt == [at : {"idle", "read", "ack", "full", "hop", "done"}, sid : Ids,
           size : Sizes \cup {0}, o : Objs \cup {None}]
Queues == [Nodes -> [Ids -> Seq(Message)]]
Resets == [Nodes -> [Ids -> {"no", "asked", "answered"}]]

\* The inductive invariant: the channels and who refers to them, what the
\* association holds, and the room in the cache.
Core == /\ obj \in [Objs -> Channel]
        /\ channels \in [Nodes -> [Ids -> Objs \cup {None}]]
        /\ loop \in [Nodes -> LoopAt]
        /\ \A o \in Objs : Sound(obj[o])
        /\ EntriesLive
        /\ AckPending

Traffic == /\ next \in [Nodes -> Ids]
           /\ ended \in [Nodes -> {"no", "hop", "cut", "eof"}]
           /\ sendq \in [Nodes -> Seq(Sending)]
           /\ up \in [Nodes -> BOOLEAN]
           /\ buf \in Queues /\ wire \in Queues /\ resetting \in Resets
           /\ inbox \in [Nodes -> Seq(Message)]

Room == DOMAIN cache = Nodes /\ LoopWaitsForRoom

IInv == Core /\ Traffic /\ Room

\* The channel read_loop() is answering the open of.
Pending(o) == \E n \in Nodes : loop[n].at = "ack" /\ loop[n].o = o

\* read_loop() takes on no new channel to answer.
LoopMoves ==
    /\ loop' \in [Nodes -> LoopAt]
    /\ \A n \in Nodes : loop'[n].at = "ack" =>
                            loop[n].at = "ack" /\ loop'[n].o = loop[n].o

\* No channel goes back to an earlier state.
Advance == \A o \in Objs : Rank(obj[o].state) <= Rank(obj'[o].state)
-----------------------------------------------------------------------------
(* What a manager records of its channels.                                *)

\* Some channel was negotiated under this id.
Twin(ob, n, i) == \E p \in Objs :
    ob[p].node = n /\ ob[p].id = i /\ ob[p].negotiated

Live(c) == c.state \notin {"none", "gone"}

\* Objects are made in order; allocate_stream_id() gives out ids of one's own
\* only; under the id of an open that is being answered, which is one of the
\* other side's, only a negotiated channel can be registered meanwhile; and a
\* live channel is registered, being answered, or shares a negotiated id.
UnmadeYet == \A o \in Objs : obj[o].state = "none" => obj[o] = Unmade

NextOwn == \A n \in Nodes : Own(n, next[n])

Answering == \A n \in Nodes : loop[n].at = "ack" =>
    /\ ~Own(n, obj[loop[n].o].id)
    /\ channels[n][obj[loop[n].o].id] # None =>
           obj[channels[n][obj[loop[n].o].id]].negotiated

Listed == \A o \in Objs :
    Live(obj[o]) /\ ended[obj[o].node] = "no" =>
        \/ channels[obj[o].node][obj[o].id] = o
        \/ Pending(o)
        \/ Twin(obj, obj[o].node, obj[o].id)

Table == UnmadeYet /\ NextOwn /\ Answering /\ Listed

\* Nothing is in the queue of the channel whose open is being answered.
PendingEmpty == \A n \in Nodes : loop[n].at = "ack" => obj[loop[n].o].q = <<>>

Books == Table /\ CacheAccounted /\ PendingEmpty
-----------------------------------------------------------------------------
(* The two ends of a channel.                                              *)

\* The side n has, or had, a channel under the id i, or an open one.
MadeAt(ob, n, i) == \E p \in Objs : ob[p].node = n /\ ob[p].id = i /\ ob[p].state # "none"
OpenAt(ob, n, i) == \E p \in Objs : ob[p].node = n /\ ob[p].id = i /\ ob[p].opened

\* The messages n may have sent, and the sends n may be in.
Backed(ob, n) == {m \in Message : /\ m.kind = "open" => MadeAt(ob, n, m.sid)
                                  /\ m.kind = "ack" => OpenAt(ob, n, m.sid)}
Sends(ob, n) == {s \in Sending : ob[s.o].node = n /\ ob[s.o].state # "none"}

Posted(f, ob) == /\ f \in Queues
                 /\ \A n \in Nodes, i \in Ids : f[n][i] \in Seq(Backed(ob, n))
Arrived(f, ob) == /\ DOMAIN f = Nodes
                  /\ \A n \in Nodes : f[n] \in Seq(Backed(ob, Peer(n)))
ToSend(f, ob) == DOMAIN f = Nodes /\ \A n \in Nodes : f[n] \in Seq(Sends(ob, n))

Mail(b, w, x, s, ob) == Posted(b, ob) /\ Posted(w, ob) /\ Arrived(x, ob) /\ ToSend(s, ob)

\* An open that is being answered came from a channel of the other side.
Asked == \A n \in Nodes :
    loop[n].at = "ack" => MadeAt(obj, Peer(n), obj[loop[n].o].id)

OtherEnds(ob) == \A o \in Objs : ob[o].opened =>
    /\ MadeAt(ob, Peer(ob[o].node), ob[o].id)
    /\ Own(ob[o].node, ob[o].id) => OpenAt(ob, Peer(ob[o].node), ob[o].id)

Paired == OtherEnds(obj) /\ Asked /\ Mail(buf, wire, inbox, sendq, obj)
=============================================================================
