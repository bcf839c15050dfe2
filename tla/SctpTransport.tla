---------------------------- MODULE SctpTransport ----------------------------
(***************************************************************************)
(* The SCTP transport (exsctp::impl::transport_impl and sctp::impl's       *)
(* io_interface) over the DTLS transport it sends and receives with: the   *)
(* calls send(), read(), connect(), accept(), shutdown(), close() and      *)
(* stop(), and the three coroutines start() launches, packet_sender(),     *)
(* timeout_handler() and read_loop().                                      *)
(*                                                                         *)
(* The dcsctp socket is external: its state, how many messages it still    *)
(* has to get acknowledged (`buffered`), how many it has received          *)
(* (`inbox`).  Each call into it may hand up to one packet to              *)
(* SendPacketWithStatus() and may start and stop timeouts.                 *)
(*                                                                         *)
(* Every wait but the one for a mutex ends through a post (continues_on);  *)
(* the mutexes are FIFO queues whose head has the mutex, and the next head *)
(* runs on inside the unlock.                                              *)
(***************************************************************************)
EXTENDS DtlsTransport, FiniteSets

CONSTANTS
    Calls,          \* calls of the application (bound); each is made once
    Timers,         \* timeout_impl objects
    Plans,          \* the calls, of which kinds, and the timers (bound)
    QueueMax,       \* packets _send_q holds
    QueueHigh,      \* send_queue_buffered_high() from here on
    SendBatch,      \* packets packet_sender() sends at once (batch_count)
    BufferMax,      \* messages dcsctp buffers before it refuses more
    BufferLow,      \* total_buffered_amount_low_threshold
    InboxMax,       \* messages dcsctp keeps for read() (its receive window)
    Horizon         \* the longest timeout, in ticks

CallOps == {"send", "read", "connect", "accept", "shutdown"}

ASSUME SctpAssumption ==
    /\ Calls \subseteq Nat
    /\ Plans \subseteq [calls : SUBSET Calls, ops : SUBSET CallOps,
                         timers : SUBSET Timers]
    /\ QueueHigh \in 1 .. QueueMax /\ QueueMax \in Nat
    /\ SendBatch \in Nat \ {0}
    /\ BufferMax \in Nat /\ BufferLow \in 0 .. BufferMax - 1
    /\ InboxMax \in Nat \ {0} /\ Horizon \in Nat \ {0}

VARIABLES
    plan,           \* what the application does in this behaviour
    started,        \* start() was called
    running,        \* _running
    sock,           \* _dcsctp->state()
    buffered,       \* messages in dcsctp's send buffer
    inbox,          \* messages GetNextMessage() has
    queue,          \* packets in _send_q
    batch,          \* of those, the ones being sent
    sender,         \* packet_sender()
    loop,           \* io_interface::read_loop()
    timer,          \* ticks until each timeout of _timeout_set, or Unset
    handler,        \* timeout_handler()
    deadline,       \* ticks until its timer fires, or Unset for the hour
    call,           \* the calls
    sendMtx,        \* _send_mtx, holder first
    readMtx         \* _read_mtx, holder first

sctpVars == <<plan, started, running, sock, buffered, inbox, queue, batch,
              sender, loop, timer, handler, deadline, call, sendMtx, readMtx>>
vars == <<dtlsVars, sctpVars>>

Unset == -1

TaskAt == {"none", "posted", "wait", "hop", "busy", "done"}

Call == [op : CallOps \cup {"none"},
         at : {"idle", "lock", "turn", "low", "room", "wait", "hop",
               "hop2", "done"}]

TypeOK ==
    /\ DtlsTypeOK
    /\ plan \in Plans /\ started \in BOOLEAN /\ running \in BOOLEAN
    /\ sock \in {"closed", "connecting", "connected", "shutting"}
    /\ buffered \in 0 .. BufferMax /\ inbox \in 0 .. InboxMax
    /\ queue \in 0 .. QueueMax /\ batch \in 0 .. SendBatch
    /\ sender \in TaskAt /\ loop \in TaskAt /\ handler \in TaskAt
    /\ timer \in [Timers -> Unset .. Horizon]
    /\ deadline \in Unset .. Horizon
    /\ call \in [Calls -> Call]
    /\ sendMtx \in Seq(Calls) /\ readMtx \in Seq(Calls)

NoCall == [op |-> "none", at |-> "idle"]
Done == [op |-> "none", at |-> "done"]

Init ==
    /\ DtlsInit
    /\ plan \in Plans /\ started = FALSE /\ running = TRUE
    /\ sock = "closed" /\ buffered = 0 /\ inbox = 0
    /\ queue = 0 /\ batch = 0
    /\ sender = "none" /\ loop = "none" /\ handler = "none"
    /\ timer = [t \in Timers |-> Unset] /\ deadline = Unset
    /\ call = [c \in Calls |-> NoCall]
    /\ sendMtx = <<>> /\ readMtx = <<>>
-----------------------------------------------------------------------------
(* Notifications *)

Move(cl, from, to) ==
    [c \in Calls |-> IF cl[c].at = from THEN [cl[c] EXCEPT !.at = to]
                     ELSE cl[c]]

\* Mutant: a closed socket does not wake the calls that wait for messages.
StateChangedUnread(cl) == Move(Move(cl, "low", "hop"), "room", "hop2")

\* _notify_send_queue_buffered_low, _notify_total_buffered_amount_low and
\* _on_state_changed, all set_value().
QueueLow(cl) == Move(cl, "low", "hop")
TotalLow(cl) == Move(cl, "room", "hop2")
StateChanged(cl) == Move(QueueLow(TotalLow(cl)), "wait", "hop")

\* OnMessageReady(): _notify_reader.set_one_value().
MessageReady(cl) ==
    [c \in Calls |-> IF cl[c].op = "read" /\ cl[c].at = "wait"
                     THEN [cl[c] EXCEPT !.at = "hop"] ELSE cl[c]]

\* Mutant: packet_sender() is notified when the second packet is queued.
NotifiedLate(k) ==
    IF queue = 1 /\ k > 0 /\ sender = "wait" THEN "hop" ELSE sender

\* SendPacketWithStatus(): a packet that does not fit is refused, and
\* packet_sender() is woken when the queue was empty.
Put(q, k) == IF q + k <= QueueMax THEN q + k ELSE q
Notified(k) ==
    IF queue = 0 /\ k > 0 /\ sender = "wait" THEN "hop" ELSE sender

High(q) == q >= QueueHigh

Linked == {t \in Timers : timer[t] # Unset}
First(tm) ==
    LET set == {tm[t] : t \in Timers} \ {Unset}
    IN IF set = {} THEN Unset ELSE CHOOSE x \in set : \A y \in set : x <= y

\* _notify_timeout_set_changed.set_value(): the timer is cancelled.
WakeHandler(h) == IF h = "wait" THEN "hop" ELSE h
-----------------------------------------------------------------------------
(* The dcsctp socket (external) *)

\* A call into the socket, made with the calls in the state cl and q packets
\* queued, leaves it in state s with b messages buffered and i received, and
\* hands down k packets.
Socket(cl, q, s, b, i, k) ==
    /\ sock' = s /\ buffered' = b /\ inbox' = i
    /\ queue' = Put(q, k)
    /\ call' = LET c1 == IF s # sock /\ s \in {"closed", "connected"}
                         THEN StateChanged(cl) ELSE cl
                   c2 == IF buffered > BufferLow /\ b <= BufferLow
                         THEN TotalLow(c1) ELSE c1
               IN IF i > inbox THEN MessageReady(c2) ELSE c2

\* Closing stops every timeout.
TimersAfter(s) ==
    IF s = "closed" /\ Linked # {}
    THEN /\ timer' = [t \in Timers |-> Unset] /\ deadline' = Unset
         /\ handler' = WakeHandler(handler)
    ELSE UNCHANGED <<timer, deadline, handler>>

\* Close(): an ABORT to a peer that has the association; what was received
\* and not read may be lost.
Aborts == IF sock \in {"connected", "shutting"} THEN 1 ELSE 0
SocketClose(cl, q) ==
    IF sock = "closed" THEN Socket(cl, q, sock, buffered, inbox, 0)
    ELSE \E i \in {0, inbox} : Socket(cl, q, "closed", buffered, i, Aborts)

\* ReceivePacket()
ReceiveEffects ==
    {[sock |-> sock, buf |-> buffered, inbox |-> inbox]}
    \cup (IF sock \in {"closed", "connecting"}
          THEN {[sock |-> "connected", buf |-> buffered, inbox |-> inbox]}
          ELSE {})
    \cup (IF sock = "connected"
          THEN {[sock |-> "shutting", buf |-> buffered, inbox |-> inbox]}
          ELSE {})
    \cup (IF sock \in {"connected", "shutting"} /\ inbox < InboxMax
          THEN {[sock |-> sock, buf |-> buffered, inbox |-> inbox + 1]}
          ELSE {})
    \cup (IF sock \in {"connected", "shutting"} /\ buffered > 0
          THEN {[sock |-> sock, buf |-> buffered - 1, inbox |-> inbox]}
          ELSE {})
    \cup (IF sock # "closed"
          THEN {[sock |-> "closed", buf |-> buffered, inbox |-> i] :
                  i \in {0, inbox}}
          ELSE {})
-----------------------------------------------------------------------------
(* packet_sender *)

\* The top of the loop, with q packets queued.
SenderLoop(q) ==
    /\ reply' = [reply EXCEPT !["send"] = "none"]
    /\ IF running /\ q > 0
       THEN /\ sender' = "busy"
            /\ batch' = IF q < SendBatch THEN q ELSE SendBatch
            /\ Start(at, "send")
       ELSE /\ sender' = IF running THEN "wait" ELSE "done"
            /\ batch' = 0
            /\ UNCHANGED <<at, holder, waiters, verdict, out, in, ssl,
                           dtlsClosed>>

SenderTurn ==
    /\ sender \in {"posted", "hop"}
    /\ SenderLoop(queue)
    /\ UNCHANGED <<plan, started, running, sock, buffered, inbox, queue, loop,
                   timer, handler, deadline, call, sendMtx, readMtx>>

\* Mutant: stop() leaves read_loop() to the layer below.
StopEffectsAlone(q) ==
    /\ running' = FALSE
    /\ SocketClose(StateChanged(call), q)
    /\ timer' = [t \in Timers |-> Unset] /\ deadline' = Unset
    /\ handler' = WakeHandler(handler)
    /\ UNCHANGED <<plan, started, loop, sendMtx, readMtx>>

\* stop() with q packets queued: the socket is closed, every waiting call
\* and task is woken, and read_loop() is stopped by a post.
StopEffects(q) ==
    /\ running' = FALSE
    /\ SocketClose(StateChanged(call), q)
    /\ timer' = [t \in Timers |-> Unset] /\ deadline' = Unset
    /\ handler' = WakeHandler(handler)
    /\ loop' = IF loop = "busy" THEN "hop" ELSE loop
    /\ UNCHANGED <<plan, started, sendMtx, readMtx>>

\* Mutant: what could not be sent stays in the queue and is tried again.
SenderSentAgain ==
    LET failed == \/ reply["send"] = "failed"
                  \/ reply["send"] = "over" /\ batch = 1
        q      == IF failed THEN queue ELSE queue - batch
    IN /\ sender = "busy" /\ reply["send"] # "none"
       /\ SenderLoop(q)
       /\ queue' = q
       /\ call' = IF High(q) THEN call ELSE QueueLow(call)
       /\ UNCHANGED <<plan, started, running, sock, buffered, inbox, loop,
                      timer, handler, deadline, sendMtx, readMtx>>

\* The send of a batch has ended; its packets leave the queue whatever the
\* result.  An error, or a single packet of which nothing was sent, ends the
\* task, and its exit guard calls stop().
SenderSent ==
    LET q      == queue - batch
        failed == \/ reply["send"] = "failed"
                  \/ reply["send"] = "over" /\ batch = 1
    IN /\ sender = "busy" /\ reply["send"] # "none"
       /\ IF failed /\ running
          THEN /\ StopEffects(q)
               /\ sender' = "done" /\ batch' = 0
               /\ reply' = [reply EXCEPT !["send"] = "none"]
               /\ UNCHANGED <<at, holder, waiters, verdict, out, in, ssl,
                              dtlsClosed>>
          ELSE /\ SenderLoop(q)
               /\ queue' = q
               /\ call' = IF High(q) THEN call ELSE QueueLow(call)
               /\ UNCHANGED <<plan, started, running, sock, buffered, inbox,
                              loop, timer, handler, deadline, sendMtx,
                              readMtx>>

\* stop() by the application; a send that still waits for the DTLS mutex is
\* given up.
Stop ==
    LET given == sender = "busy" /\ at["send"] = "lock"
    IN /\ started /\ running
       /\ StopEffects(IF given THEN queue - batch ELSE queue)
       /\ at' = IF given THEN Cancelled(at, "send") ELSE at
       /\ waiters' = IF given THEN Unlinked(waiters, "send") ELSE waiters
       /\ batch' = IF given THEN 0 ELSE batch
       /\ sender' = IF given THEN "done"
                    ELSE IF sender = "wait" THEN "hop" ELSE sender
       /\ UNCHANGED <<reply, holder, verdict, out, in, ssl, dtlsClosed>>
-----------------------------------------------------------------------------
(* read_loop *)

\* A packet was received: dispatch_packet(), unless stop() has taken the
\* callback away, and the next async_receive().
ReadLoopPacket ==
    /\ loop \in {"busy", "hop"} /\ reply["receive"] = "ok"
    /\ reply' = [reply EXCEPT !["receive"] = "none"]
    /\ Start(at, "receive")
    /\ IF ~running THEN UNCHANGED sctpVars
       ELSE \E e \in ReceiveEffects : \E k \in {0, 1} :
              /\ Socket(call, queue, e.sock, e.buf, e.inbox, k)
              /\ sender' = Notified(k)
              /\ TimersAfter(e.sock)
              /\ UNCHANGED <<plan, started, running, batch, loop, sendMtx,
                             readMtx>>

\* An error or the peer's close ends the loop; its exit guard closes the
\* socket, unless stop() has taken the callback away.
ReadLoopEnds ==
    /\ loop \in {"busy", "hop"} /\ reply["receive"] \in {"over", "failed"}
    /\ reply' = [reply EXCEPT !["receive"] = "none"]
    /\ loop' = "done"
    /\ IF ~running THEN UNCHANGED <<sock, buffered, inbox, queue, call, sender,
                                    timer, deadline, handler>>
       ELSE /\ SocketClose(call, queue)
            /\ sender' = IF sock = "closed" THEN sender ELSE Notified(Aborts)
            /\ TimersAfter("closed")
    /\ UNCHANGED <<at, holder, waiters, verdict, out, in, ssl, dtlsClosed,
                   plan, started, running, batch, sendMtx, readMtx>>

\* The posted stop arrives: the receive is given up.
ReadLoopStopped ==
    /\ loop = "hop"
    /\ loop' = "done"
    /\ at' = Cancelled(at, "receive")
    /\ waiters' = Unlinked(waiters, "receive")
    /\ UNCHANGED <<reply, holder, verdict, out, in, ssl, dtlsClosed, plan,
                   started, running, sock, buffered, inbox, queue, batch,
                   sender, timer, handler, deadline, call, sendMtx, readMtx>>

\* A result whose coroutine was stopped meanwhile.
ReplyDropped ==
    /\ loop = "done" /\ reply["receive"] # "none"
    /\ reply' = [reply EXCEPT !["receive"] = "none"]
    /\ UNCHANGED <<at, holder, waiters, verdict, out, in, ssl, dtlsClosed,
                   sctpVars>>
-----------------------------------------------------------------------------
(* timeout_handler *)

\* timeout_impl::Start(): _timeout_set is keyed by the expiry, and a timeout
\* that expires with another one is left out.
StartTimeout(t, d) ==
    /\ sock # "closed" /\ t \in plan.timers /\ timer[t] = Unset
    /\ \A u \in Timers : timer[u] # d
    /\ timer' = [timer EXCEPT ![t] = d]
    /\ handler' = IF First(timer') = d THEN WakeHandler(handler) ELSE handler
    /\ deadline' = IF handler' = "wait" THEN deadline ELSE Unset
    /\ UNCHANGED <<dtlsVars, plan, started, running, sock, buffered, inbox,
                   queue, batch, sender, loop, call, sendMtx, readMtx>>

\* Mutant: the handler is not told when the first timeout is stopped.
StopTimeoutSilently(t) ==
    /\ timer[t] # Unset
    /\ timer' = [timer EXCEPT ![t] = Unset]
    /\ UNCHANGED <<dtlsVars, plan, started, running, sock, buffered, inbox,
                   queue, batch, sender, loop, handler, deadline, call,
                   sendMtx, readMtx>>

\* timeout_impl::Stop()
StopTimeout(t) ==
    /\ timer[t] # Unset
    /\ timer' = [timer EXCEPT ![t] = Unset]
    /\ handler' = IF First(timer) = timer[t] THEN WakeHandler(handler)
                  ELSE handler
    /\ deadline' = IF handler' = "wait" THEN deadline ELSE Unset
    /\ UNCHANGED <<dtlsVars, plan, started, running, sock, buffered, inbox,
                   queue, batch, sender, loop, call, sendMtx, readMtx>>

\* HandleTimeout() of every timeout that is due: the socket sends again,
\* gives up, or starts the timeout anew.
Expire(due) ==
    \E again \in [due -> (Unset .. Horizon) \ {0}] :
    \E s \in {sock} \cup (IF due = {} THEN {} ELSE {"closed"}) :
    \E k \in {0, 1} :
        LET tm == [t \in Timers |-> IF t \in due THEN again[t] ELSE timer[t]]
        IN /\ \A t, u \in Timers : t # u /\ tm[t] # Unset => tm[t] # tm[u]
           /\ due = {} => k = 0
           /\ Socket(call, queue, s, buffered, inbox, k)
           /\ sender' = Notified(k)
           /\ timer' = IF s = "closed" THEN [t \in Timers |-> Unset] ELSE tm

\* One turn of the loop, from its start, a notification or its timer.
HandlerTurn ==
    /\ \/ handler \in {"posted", "hop"}
       \/ handler = "wait" /\ deadline = 0
    /\ IF running
       THEN /\ Expire({t \in Timers : timer[t] = 0})
            /\ handler' = "wait" /\ deadline' = First(timer')
       ELSE /\ handler' = "done" /\ deadline' = Unset
            /\ UNCHANGED <<sock, buffered, inbox, queue, sender, call, timer>>
    /\ UNCHANGED <<dtlsVars, plan, started, running, batch, loop, sendMtx,
                   readMtx>>

\* Time passes.
Tick ==
    LET down(x) == IF x > 0 THEN x - 1 ELSE x
    IN /\ \E t \in Timers : timer[t] > 0
       /\ timer' = [t \in Timers |-> down(timer[t])]
       /\ deadline' = down(deadline)
       /\ UNCHANGED <<dtlsVars, plan, started, running, sock, buffered, inbox,
                      queue, batch, sender, loop, handler, call, sendMtx,
                      readMtx>>
-----------------------------------------------------------------------------
(* Calls *)

Keep == UNCHANGED <<dtlsVars, plan, started, running, batch, loop>>

\* The application makes its calls in the order of their numbers.
MayCall(c, op) ==
    /\ started /\ op \in plan.ops /\ c \in plan.calls /\ call[c].at = "idle"
    /\ \A d \in plan.calls : d < c => call[d].at # "idle"

Returns(cl, c) == [cl EXCEPT ![c] = Done]

\* Mutant: unlock() hands the mutex to nobody.
ReleasedToNobody(cl, mtx) == cl

\* Leaving the scope of a guard: the next call has the mutex and runs on.
Released(cl, mtx) ==
    IF Len(mtx) > 1 THEN [cl EXCEPT ![mtx[2]].at = "turn"] ELSE cl

\* send() from its first co_await.
Send(c) ==
    /\ MayCall(c, "send")
    /\ IF sock = "closed"
       THEN call' = Returns(call, c) /\ UNCHANGED sendMtx
       ELSE /\ call' = [call EXCEPT ![c] =
                          [op |-> "send",
                           at |-> IF sendMtx = <<>> THEN "turn" ELSE "lock"]]
            /\ sendMtx' = Append(sendMtx, c)
    /\ Keep
    /\ UNCHANGED <<sock, buffered, inbox, queue, sender, timer, handler,
                   deadline, readMtx>>

\* The two loops of send(), from the mutex ("turn"), a low queue ("hop") or
\* room in the socket ("hop2").
SendTurn(c) ==
    /\ call[c].op = "send" /\ call[c].at \in {"turn", "hop", "hop2"}
    /\ Keep /\ UNCHANGED <<timer, handler, deadline, readMtx>>
    /\ \/ /\ call[c].at # "hop2" /\ High(queue) /\ sock # "closed"
          /\ call' = [call EXCEPT ![c].at = "low"]
          /\ UNCHANGED <<sock, buffered, inbox, queue, sender, sendMtx>>
       \/ /\ sock = "closed"
          /\ call' = Released(Returns(call, c), sendMtx)
          /\ sendMtx' = Tail(sendMtx)
          /\ UNCHANGED <<sock, buffered, inbox, queue, sender>>
       \/ /\ sock # "closed" /\ (call[c].at = "hop2" \/ ~High(queue))
          /\ \/ /\ sock = "shutting"
                /\ call' = Released(Returns(call, c), sendMtx)
                /\ sendMtx' = Tail(sendMtx)
                /\ UNCHANGED <<sock, buffered, inbox, queue, sender>>
             \/ /\ sock # "shutting" /\ buffered = BufferMax
                /\ call' = [call EXCEPT ![c].at = "room"]
                /\ UNCHANGED <<sock, buffered, inbox, queue, sender, sendMtx>>
             \/ /\ sock # "shutting" /\ buffered < BufferMax
                /\ \E k \in {0, 1} :
                    /\ Socket(Released(Returns(call, c), sendMtx),
                              queue, sock, buffered + 1, inbox, k)
                    /\ sender' = Notified(k)
                /\ sendMtx' = Tail(sendMtx)

\* read()
Read(c) ==
    /\ MayCall(c, "read")
    /\ call' = [call EXCEPT ![c] =
                  [op |-> "read",
                   at |-> IF readMtx = <<>> THEN "turn" ELSE "lock"]]
    /\ readMtx' = Append(readMtx, c)
    /\ Keep
    /\ UNCHANGED <<sock, buffered, inbox, queue, sender, timer, handler,
                   deadline, sendMtx>>

ReadTurn(c) ==
    /\ call[c].op = "read" /\ call[c].at \in {"turn", "hop"}
    /\ Keep
    /\ UNCHANGED <<sock, buffered, queue, sender, timer, handler, deadline,
                   sendMtx>>
    /\ IF inbox > 0 \/ sock = "closed"
       THEN /\ call' = Released(Returns(call, c), readMtx)
            /\ inbox' = IF inbox > 0 THEN inbox - 1 ELSE 0
            /\ readMtx' = Tail(readMtx)
       ELSE /\ call' = [call EXCEPT ![c].at = "wait"]
            /\ UNCHANGED <<inbox, readMtx>>

\* connect(), accept() and shutdown() call into the socket and wait for its
\* next change, unless it is there already.
Await(c, op, there, s, k) ==
    /\ MayCall(c, op)
    /\ Socket(IF there THEN Returns(call, c)
              ELSE [call EXCEPT ![c] = [op |-> op, at |-> "wait"]],
              queue, s, buffered, inbox, k)
    /\ sender' = Notified(k)
    /\ TimersAfter(s)
    /\ Keep
    /\ UNCHANGED <<sendMtx, readMtx>>

Connect(c) ==
    IF sock = "closed" THEN Await(c, "connect", FALSE, "connecting", 1)
    ELSE Await(c, "connect", sock = "connected", sock, 0)

Accept(c) == Await(c, "accept", sock = "connected", sock, 0)

\* Shutdown() closes a socket that has no association yet.
Shutdown(c) ==
    CASE sock = "connected" -> Await(c, "shutdown", FALSE, "shutting", 1)
      [] sock = "connecting" -> Await(c, "shutdown", TRUE, "closed", 0)
      [] OTHER -> Await(c, "shutdown", sock = "closed", sock, 0)

\* The change has come; what the call returns is the state of now.
AwaitTurn(c) ==
    /\ call[c].op \in {"connect", "accept", "shutdown"}
    /\ call[c].at = "hop"
    /\ call' = Returns(call, c)
    /\ Keep
    /\ UNCHANGED <<sock, buffered, inbox, queue, sender, timer, handler,
                   deadline, sendMtx, readMtx>>

\* close()
Close ==
    /\ started /\ sock # "closed"
    /\ SocketClose(call, queue)
    /\ sender' = Notified(Aborts)
    /\ TimersAfter("closed")
    /\ Keep /\ UNCHANGED <<sendMtx, readMtx>>

\* The handshake is over: with its success the application start()s the
\* transport, and read_loop() runs up to its first async_receive().
HandshakeReturned ==
    /\ reply["handshake"] # "none"
    /\ reply' = [reply EXCEPT !["handshake"] = "none"]
    /\ IF reply["handshake"] = "ok"
       THEN /\ started' = TRUE
            /\ sender' = "posted" /\ handler' = "posted" /\ loop' = "busy"
            /\ Start(at, "receive")
       ELSE UNCHANGED <<started, sender, handler, loop, at, holder, waiters,
                        verdict, out, in, ssl, dtlsClosed>>
    /\ UNCHANGED <<plan, running, sock, buffered, inbox, queue, batch, timer,
                   deadline, call, sendMtx, readMtx>>
-----------------------------------------------------------------------------
\* Code that runs on inside the call that resumed it comes first.
Inline == DtlsInline \/ \E c \in Calls : call[c].at = "turn"

DtlsStep(o) == (Run(o, batch) \/ Recheck(o)) /\ UNCHANGED sctpVars

CallTurn(c) == SendTurn(c) \/ ReadTurn(c) \/ AwaitTurn(c)

InlineStep ==
    \/ \E o \in Ops : DtlsStep(o)
    \/ HandshakeReturned
    \/ SenderSent
    \/ ReadLoopPacket
    \/ ReadLoopEnds
    \/ ReplyDropped
    \/ \E c \in Calls : call[c].at = "turn" /\ CallTurn(c)

PostedStep ==
    \/ SenderTurn
    \/ HandlerTurn
    \/ ReadLoopStopped
    \/ \E c \in Calls : CallTurn(c)

FlushedStep(o, ok) == Flushed(o, ok) /\ UNCHANGED sctpVars

ApplicationStep ==
    \/ Handshake /\ UNCHANGED sctpVars
    \/ \E c \in Calls : Send(c) \/ Read(c) \/ Connect(c) \/ Accept(c)
                         \/ Shutdown(c)
    \/ Close
    \/ Stop

\* The network, time, the layer below and the timeouts of the socket.
OutsideStep ==
    \/ \E o \in Ops : \E ok \in BOOLEAN : FlushedStep(o, ok)
    \/ (DatagramReceived \/ RetransmitTimer \/ DtlsClose)
         /\ UNCHANGED sctpVars
    \/ Tick
    \/ \E t \in Timers : StopTimeout(t) \/ \E d \in 1 .. Horizon :
                                             StartTimeout(t, d)

Next ==
    \/ InlineStep
    \/ ~Inline /\ (PostedStep \/ ApplicationStep \/ OutsideStep)

Spec == Init /\ [][Next]_vars

\* Posted work waits for the executor.
Posted ==
    \/ sender \in {"posted", "hop"} \/ handler \in {"posted", "hop"}
    \/ loop = "hop" \/ \E c \in Calls : call[c].at \in {"hop", "hop2"}

\* What is posted runs before the next datagram or timer; only calls of the
\* application that were queued already come in between.
PromptNext ==
    \/ InlineStep
    \/ ~Inline /\ (PostedStep \/ ApplicationStep)
    \/ ~Inline /\ ~Posted /\ OutsideStep

\* Resumed and posted code runs, and the layer below finishes what it sends.
PromptSpec ==
    /\ Init /\ [][PromptNext]_vars
    /\ WF_vars(InlineStep)
    /\ WF_vars(~Inline /\ PostedStep)
    /\ SF_vars(~Inline /\ ~Posted /\ \E o \in Ops : \E ok \in BOOLEAN :
                                           FlushedStep(o, ok))
-----------------------------------------------------------------------------
(* Properties *)

\* packet_sender() sleeps only on an empty queue, and a send() that waits
\* for it to drain waits for a queue that is high and a sender that is at
\* work: SendPacketWithStatus() notifies only when the queue was empty.
SenderWakes ==
    running => /\ sender = "wait" => queue = 0
               /\ \A c \in Calls : call[c].at = "low" =>
                      High(queue) /\ sender \in {"posted", "hop", "busy"}

\* A call waits only for what has not happened yet: a send() for room while
\* the socket is above its low mark, a read() while there is no message, and
\* both only on a socket that is not closed.
CallsWaitForReason ==
    \A c \in Calls :
        /\ call[c].at = "room" => buffered > BufferLow
        /\ call[c].op = "read" /\ call[c].at = "wait" => inbox = 0
        /\ call[c].op \in {"send", "read"}
             /\ call[c].at \in {"low", "room", "wait"} => sock # "closed"

\* _send_mtx and _read_mtx are handed on: the call at the head is never one
\* that still waits for the mutex or has returned.
MutexesHandedOn ==
    \A m \in {sendMtx, readMtx} :
        /\ m # <<>> => call[Head(m)].at \notin {"idle", "lock", "done"}
        /\ \A i \in 2 .. Len(m) : call[m[i]].at = "lock"

\* timeout_handler() sleeps until the first timeout of _timeout_set, however
\* the socket starts and stops them.
HandlerSleepsToFirst ==
    handler = "wait" => deadline = First(timer)

\* After stop(), and after the stop() a failed send makes, the three tasks
\* end, and on a socket that stays closed every send() and read() returns.
StopEnds ==
    <>[](started /\ ~running =>
           /\ sender = "done" /\ handler = "done" /\ loop = "done"
           /\ sock = "closed" => \A c \in Calls :
                call[c].op \in {"send", "read"} => call[c].at = "done")

\* A send() that waits for the packet queue to get low is woken, again and
\* again if need be, as long as the transport runs: what fails to be sent
\* leaves the queue as well.  Only a socket that goes on queuing packets, such
\* as acknowledgements, faster than batches are sent can make it wait for ever.
QueueDrains ==
    \/ []<>(running => \A c \in Calls : call[c].at # "low")
    \/ []<><<queue' > queue>>_vars
=============================================================================
