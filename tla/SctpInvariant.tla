---------------------------- MODULE SctpInvariant ----------------------------
(***************************************************************************)
(* What holds between two steps of the SCTP transport and of the DTLS      *)
(* transport below it, for any number of calls, timeouts and packets and   *)
(* any limits of the queues.                                               *)
(***************************************************************************)
EXTENDS SctpTransport

(* No wake-up is lost: packet_sender() sleeps only on an empty queue, a    *)
(* call waits only for what has not happened, and timeout_handler() sleeps *)
(* until the first timeout.  The three parts stand on different variables. *)

Shape(cl) == DOMAIN cl = Calls /\ \A c \in Calls : cl[c] \in Call

\* What the calls wait for has not happened, with the socket in state s, b
\* messages buffered and i received.
Waits(cl, s, b, i) ==
    \A c \in Calls :
        /\ cl[c].at = "room" => b > BufferLow
        /\ cl[c].op = "read" /\ cl[c].at = "wait" => i = 0
        /\ cl[c].op \in {"send", "read"}
             /\ cl[c].at \in {"low", "room", "wait"} => s # "closed"

\* No call is made before start().
Begun(cl, st) == \A c \in Calls : cl[c].at # "idle" => st

CallsGood(cl, s, b, i, st) ==
    Shape(cl) /\ Waits(cl, s, b, i) /\ Begun(cl, st) /\ b \in Nat /\ i \in Nat

\* The sender is at work, or will be.
Active == {"posted", "hop", "busy"}

Lows(cl, q, sd) == \A c \in Calls : cl[c].at = "low" => High(q) /\ sd \in Active

QueueGood(cl, q, n, sd, st, rn) ==
    /\ q \in Nat /\ n \in Nat /\ n <= q
    /\ sd # "none" => st
    /\ rn /\ st => sd \in Active \cup {"wait"}
    /\ rn => (sd = "wait" => q = 0) /\ Lows(cl, q, sd)

TimersGood(tm, h, d) ==
    tm \in [Timers -> Unset .. Horizon] /\ (h = "wait" => d = First(tm))

\* The inductive invariant.
IInv == /\ CallsGood(call, sock, buffered, inbox, started)
        /\ QueueGood(call, queue, batch, sender, started, running)
        /\ TimersGood(timer, handler, deadline)

-----------------------------------------------------------------------------
(* The mutexes: _ssl_mutex with its holder, its waiters and the records in *)
(* _bio.out, and _send_mtx and _read_mtx, queues whose head has the mutex. *)

\* No element is twice in s.
Distinct(s) == \A i, j \in DOMAIN s : s[i] = s[j] => i = j

In(x, s) == \E i \in DOMAIN s : s[i] = x

\* With the operations at a, h has the mutex and w wait for it.
MutexGood(a, h, w) ==
    /\ a \in [Ops -> {"idle", "sleep", "lock", "run", "flush", "wait", "woken"}]
    /\ w \in Seq(Ops) /\ Distinct(w)
    /\ h \in Ops \cup {NoOp}
    /\ \A o \in Ops : a[o] \in {"run", "flush"} <=> h = o
    /\ \A o \in Ops : a[o] = "lock" <=> In(o, w)
    /\ h = NoOp => w = <<>>

\* An operation is started only when it is not under way: the handshake once,
\* the shutdown once, a send by packet_sender() and a receive by read_loop().
OpsGood(a, r, s, dc, st, sd) ==
    /\ DOMAIN r = Awaited
    /\ \A o \in Awaited : r[o] # "none" => a[o] = "idle"
    /\ a["handshake"] \in {"flush", "woken", "wait"} => s # "new"
    /\ r["handshake"] # "none" \/ st => s # "new"
    /\ st => a["handshake"] = "idle" /\ r["handshake"] = "none"
    /\ \A o \in {"send", "receive"} : ~st => a[o] = "idle" /\ r[o] = "none"
    /\ sd # "busy" => a["send"] = "idle"
    /\ ~dc => a["shutdown"] = "idle"

\* What is in the two queues of _bio.
BuffersGood(a, h, v, x, n) ==
    /\ n \in 0 .. InMax /\ x \in Nat
    /\ \A o \in Ops : a[o] = "wait" => n = 0
    /\ x # 0 => h # NoOp /\ a[h] = "flush"
    /\ h # NoOp /\ a[h] = "flush" =>
           v \in {"success", "want_read", "zero_return", "error"}

DtlsGood ==
    /\ MutexGood(at, holder, waiters)
    /\ OpsGood(at, reply, ssl, dtlsClosed, started, sender)
    /\ BuffersGood(at, holder, verdict, out, in)

\* The calls of kind op that are under way queue in m, the head at work.
QueueOf(op, cl, m) ==
    /\ m \in Seq(Calls) /\ Distinct(m)
    /\ \A i \in DOMAIN m : cl[m[i]].op = op
    /\ m # <<>> => cl[Head(m)].at \notin {"idle", "lock", "done"}
    /\ \A i \in 2 .. Len(m) : cl[m[i]].at = "lock"
    /\ \A c \in Calls : cl[c].op = op /\ cl[c].at \notin {"idle", "done", "lock"} =>
           m # <<>> /\ Head(m) = c

CallsQueue ==
    QueueOf("send", call, sendMtx) /\ QueueOf("read", call, readMtx)

\* The inductive invariant, with IInv of the waits.
LocksGood == DtlsGood /\ CallsQueue
==============================================================================
