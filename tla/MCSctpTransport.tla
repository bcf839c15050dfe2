--------------------------- MODULE MCSctpTransport ---------------------------
(* Instance of SctpTransport over DtlsTransport: applications that send, *)
(* that receive, and that shut down, and a socket with two timeouts.        *)
EXTENDS SctpTransport

CONSTANTS t1, t2

MCPlans ==
    {[calls |-> {1, 2}, ops |-> {"send", "connect"}, timers |-> {}],
     [calls |-> {1, 2}, ops |-> {"read"}, timers |-> {}],
     [calls |-> {1}, ops |-> {"accept", "shutdown"}, timers |-> {}],
     [calls |-> {}, ops |-> {}, timers |-> {t1, t2}]}
=============================================================================
