---------------------------- MODULE DtlsTransport ----------------------------
(***************************************************************************)
(* The DTLS transport (ssl::impl::dtls_impl): every operation is one        *)
(* perform() that takes _ssl_mutex, runs OpenSSL over two memory queues,    *)
(* sends what OpenSSL wrote and, when OpenSSL wants to read, gives the      *)
(* mutex back and waits for a datagram.                                     *)
(*                                                                          *)
(* perform() suspends at four places: for the mutex, for the layer below    *)
(* to send, for a datagram and, in timeout_handler(), for a timer.  What it *)
(* does between two of them is one step.  A mutex that is handed on, a      *)
(* queue that becomes non-empty and a result resume their coroutine inline: *)
(* such a step comes before everything that is posted, timed or received    *)
(* (Inline).                                                                *)
(*                                                                          *)
(* OpenSSL is external: an operation reads datagrams of `in`, writes        *)
(* records to `out` and ends in one of the four ways perform() tells apart. *)
(* One operation never writes more than the 256 KiB `out` holds, so the     *)
(* SSL_ERROR_WANT_WRITE branch, and _last_io_failed with it, is left out.   *)
(***************************************************************************)
EXTENDS Integers, Sequences

CONSTANTS
    InMax,          \* datagrams recv_queue holds
    SslBatch        \* packets perform() sends at once (batch_size)

ASSUME DtlsAssumption == InMax \in Nat \ {0} /\ SslBatch \in Nat \ {0}

VARIABLES
    at,             \* where the perform() of each operation is
    reply,          \* its result, until the caller has taken it
    holder,         \* who has _ssl_mutex
    waiters,        \* _ssl_mutex._waiters
    verdict,        \* how the holder's operation ended, while `out` is sent
    out,            \* records in _bio.out
    in,             \* datagrams in _bio.in
    ssl,            \* the state of the SSL object
    dtlsClosed      \* _closed (_peer_closed is only reported, by is_open())

dtlsVars == <<at, reply, holder, waiters, verdict, out, in, ssl, dtlsClosed>>

Ops == {"handshake", "send", "receive", "shutdown", "retransmit"}

\* The operations somebody awaits; close() and the loop of timeout_handler()
\* ignore what theirs returned.
Awaited == {"handshake", "send", "receive"}

NoOp == "none"

DtlsTypeOK ==
    /\ at \in [Ops -> {"idle", "sleep", "lock", "run", "flush", "wait",
                       "woken"}]
    /\ reply \in [Awaited -> {"none", "ok", "over", "failed"}]
    /\ holder \in Ops \cup {NoOp}
    /\ waiters \in Seq(Ops)
    /\ verdict \in {"none", "success", "want_read", "zero_return", "error"}
    /\ out \in Nat /\ in \in 0 .. InMax
    /\ ssl \in {"new", "handshaking", "open", "half", "over"}
    /\ dtlsClosed \in BOOLEAN

DtlsInit ==
    /\ at = [o \in Ops |-> "idle"]
    /\ reply = [o \in Awaited |-> "none"]
    /\ holder = NoOp /\ waiters = <<>>
    /\ verdict = "none" /\ out = 0 /\ in = 0
    /\ ssl = "new" /\ dtlsClosed = FALSE
-----------------------------------------------------------------------------
(* _ssl_mutex (async_mutex) *)

\* lock(): the operation runs on at once, or queues.
Lock(a, o) ==
    IF holder = NoOp
    THEN at' = [a EXCEPT ![o] = "run"] /\ holder' = o /\ UNCHANGED waiters
    ELSE /\ at' = [a EXCEPT ![o] = "lock"]
         /\ waiters' = Append(waiters, o) /\ UNCHANGED holder

\* unlock(): the first waiter has it and runs on inside this call.
Unlock(a) ==
    IF waiters = <<>>
    THEN at' = a /\ holder' = NoOp /\ UNCHANGED waiters
    ELSE /\ at' = [a EXCEPT ![Head(waiters)] = "run"]
         /\ holder' = Head(waiters) /\ waiters' = Tail(waiters)
-----------------------------------------------------------------------------
(* OpenSSL (external) *)

Ends(take, put, res, next) ==
    [take : take, put : put, res : {res}, ssl : {next}]

\* SSL_connect / SSL_accept
HandshakeEnds ==
    CASE ssl = "new" -> Ends({in}, {0, 1}, "want_read", "handshaking")
      [] ssl = "handshaking" ->
           Ends({in}, {0, 1}, "want_read", "handshaking")
             \cup (IF in > 0 THEN Ends({1}, {0, 1}, "success", "open")
                                    \cup Ends({1}, {0, 1}, "error", "over")
                   ELSE {})
      [] OTHER -> Ends({0}, {0}, "error", "over")

\* SSL_write of n packets
SendEnds(n) ==
    CASE ssl = "open" -> Ends({0}, {n}, "success", "open")
      [] ssl = "half" -> Ends({0}, {n}, "success", "half")
      [] OTHER -> Ends({0}, {0}, "error", ssl)
                    \cup Ends({0}, {0}, "zero_return", ssl)

\* SSL_read
ReceiveEnds ==
    CASE ssl = "open" /\ in = 0 -> Ends({0}, {0}, "want_read", "open")
      [] ssl = "open" /\ in > 0 ->
           Ends(1 .. in, {0}, "success", "open")
             \cup Ends({in}, {0}, "want_read", "open")
             \cup Ends({1}, {0}, "zero_return", "half")
             \cup Ends({1}, {0, 1}, "error", "over")
      [] ssl = "half" -> Ends({0}, {0}, "zero_return", "half")
      [] OTHER -> Ends({0}, {0}, "error", ssl)

\* SSL_read until nothing is left, then SSL_shutdown, with fast_shutdown
ShutdownEnds ==
    Ends({in}, {0, 1}, "success", "over") \cup Ends({in}, {0}, "error", "over")

\* DTLSv1_handle_timeout; past the last retransmission it fails.
RetransmitEnds ==
    Ends({0}, {0, 1}, "success", ssl) \cup Ends({0}, {0}, "error", ssl)

\* n is the number of packets a send was given.
OpEnds(o, n) ==
    CASE o = "handshake" -> HandshakeEnds
      [] o = "send" -> SendEnds(n)
      [] o = "receive" -> ReceiveEnds
      [] o = "shutdown" -> ShutdownEnds
      [] o = "retransmit" -> RetransmitEnds

\* DTLSv1_get_timeout
TimerPending(s) == s = "handshaking"
-----------------------------------------------------------------------------
(* perform *)

\* Mutant: an error leaves its records in `out`.
ReturnUncleared(a, o, res) ==
    /\ Unlock([a EXCEPT ![o] = IF o = "retransmit" /\ TimerPending(ssl')
                                     /\ ~dtlsClosed
                               THEN "sleep" ELSE "idle"])
    /\ out' = IF res = "failed" THEN out ELSE 0
    /\ reply' = IF o \in Awaited THEN [reply EXCEPT ![o] = res] ELSE reply
    /\ verdict' = "none"
    /\ UNCHANGED dtlsClosed

\* co_return: `out` is cleared, the mutex given back, the result handed up.
\* timeout_handler() goes round for the next timeout.
Return(a, o, res) ==
    /\ Unlock([a EXCEPT ![o] = IF o = "retransmit" /\ TimerPending(ssl')
                                     /\ ~dtlsClosed
                               THEN "sleep" ELSE "idle"])
    /\ out' = 0
    /\ reply' = IF o \in Awaited THEN [reply EXCEPT ![o] = res] ELSE reply
    /\ verdict' = "none"
    /\ UNCHANGED dtlsClosed

\* The mutex is given back, then the operation looks at _bio.in.
AwaitInput(a, o) ==
    /\ Unlock([a EXCEPT ![o] = "woken"])
    /\ out' = 0 /\ verdict' = "none"
    /\ UNCHANGED <<reply, dtlsClosed>>

Conclude(a, o, res) ==
    CASE res = "success" -> Return(a, o, "ok")
      [] res = "want_read" -> AwaitInput(a, o)
      [] res = "zero_return" -> Return(a, o, "over")
      [] res = "error" -> Return(a, o, "failed")

\* handle_timeout(): timeout_handler() is started unless it is there.
HandleTimeout ==
    IF at["retransmit"] = "idle" /\ ~dtlsClosed /\ TimerPending(ssl)
    THEN [at EXCEPT !["retransmit"] = "sleep"] ELSE at

\* One turn of the loop, from the mutex to the next co_await.  The first turn
\* calls handle_timeout() with the mutex, a later one has called it in Recheck,
\* before the mutex: called here once more it finds the same handler, which
\* stays until the handshake is over or close() is called.
Run(o, n) ==
    /\ at[o] = "run"
    /\ \E e \in OpEnds(o, n) :
        /\ ssl' = e.ssl
        /\ in' = in - e.take
        /\ IF e.put = 0 THEN Conclude(HandleTimeout, o, e.res)
           ELSE /\ at' = [HandleTimeout EXCEPT ![o] = "flush"]
                /\ out' = e.put /\ verdict' = e.res
                /\ UNCHANGED <<reply, holder, waiters, dtlsClosed>>

\* The layer below has sent a batch of `out`, or failed to.
Flushed(o, ok) ==
    /\ at[o] = "flush"
    /\ UNCHANGED <<in, ssl>>
    /\ IF ~ok THEN Return(at, o, "failed")
       ELSE IF out > SslBatch
       THEN /\ out' = out - SslBatch
            /\ UNCHANGED <<at, reply, holder, waiters, verdict, dtlsClosed>>
       ELSE Conclude(at, o, verdict)

\* Mutant: a datagram that came before the wait is not looked for.
RecheckNever(o) ==
    /\ at[o] = "woken"
    /\ at' = [at EXCEPT ![o] = "wait"]
    /\ UNCHANGED <<reply, holder, waiters, verdict, out, in, ssl, dtlsClosed>>

\* while (_bio.in.empty()) co_await wait(), then the next turn up to the lock.
Recheck(o) ==
    /\ at[o] = "woken"
    /\ UNCHANGED <<reply, verdict, out, in, ssl, dtlsClosed>>
    /\ IF in = 0 THEN at' = [at EXCEPT ![o] = "wait"]
                      /\ UNCHANGED <<holder, waiters>>
       ELSE Lock(HandleTimeout, o)

\* A caller starts an operation.
Start(a, o) ==
    /\ Lock(a, o)
    /\ UNCHANGED <<verdict, out, in, ssl, dtlsClosed>>

\* async_handshake()
Handshake ==
    /\ ssl = "new" /\ at["handshake"] = "idle"
    /\ Start(at, "handshake")
    /\ UNCHANGED reply

\* The timer of timeout_handler() fires.
RetransmitTimer ==
    /\ at["retransmit"] = "sleep"
    /\ Start(at, "retransmit")
    /\ UNCHANGED reply

\* datagram_received(): recv_queue::push() drops what does not fit and wakes
\* everybody when the queue was empty.
DatagramReceived ==
    /\ in < InMax
    /\ in' = in + 1
    /\ at' = [o \in Ops |-> IF in = 0 /\ at[o] = "wait" THEN "woken"
                            ELSE at[o]]
    /\ UNCHANGED <<reply, holder, waiters, verdict, out, ssl, dtlsClosed>>

\* A stopped waiter unlinks itself from the queue of the mutex.
Unlinked(s, o) ==
    IF \A k \in DOMAIN s : s[k] # o THEN s
    ELSE LET k == CHOOSE i \in DOMAIN s : s[i] = o
         IN [j \in 1 .. Len(s) - 1 |-> IF j < k THEN s[j] ELSE s[j + 1]]

\* A coroutine that waits is stopped: it leaves the queue it waits in; the
\* layer below finishes what it sends.
Cancelled(a, o) ==
    IF a[o] \in {"lock", "wait", "sleep"} THEN [a EXCEPT ![o] = "idle"] ELSE a

\* close(): timeout_handler() is stopped and a fast shutdown started.
DtlsClose ==
    LET a == Cancelled(at, "retransmit")
    IN /\ ~dtlsClosed
       /\ dtlsClosed' = TRUE
       /\ IF holder = NoOp
          THEN at' = [a EXCEPT !["shutdown"] = "run"] /\ holder' = "shutdown"
               /\ UNCHANGED waiters
          ELSE /\ at' = [a EXCEPT !["shutdown"] = "lock"]
               /\ waiters' = Append(Unlinked(waiters, "retransmit"), "shutdown")
               /\ UNCHANGED holder
       /\ UNCHANGED <<reply, verdict, out, in, ssl>>

\* Code that runs on inside the call that resumed it.
DtlsInline ==
    \/ \E o \in Ops : at[o] \in {"run", "woken"}
    \/ \E o \in Awaited : reply[o] # "none"
-----------------------------------------------------------------------------
(* Properties *)

\* assert(self->_bio.out.empty()) of perform(): whoever gets the mutex,
\* after a send, an error, a stop or a wait, finds no record of another
\* operation to be sent as its own.
OutBelongsToHolder ==
    /\ out # 0 => holder # NoOp /\ at[holder] = "flush"
    /\ \A o \in Ops : at[o] \in {"run", "flush"} => holder = o

\* No wake-up is lost: an operation waits for a datagram only while there is
\* none, and for the mutex only while another has it.
DtlsWaitsForReason ==
    /\ \A o \in Ops : at[o] = "wait" => in = 0
    /\ \A o \in Ops : at[o] = "lock" <=> \E i \in DOMAIN waiters : waiters[i] = o
    /\ waiters # <<>> => holder # NoOp /\ at[holder] \in {"run", "flush"}
=============================================================================
