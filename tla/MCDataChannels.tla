--------------------------- MODULE MCDataChannels ---------------------------
(***************************************************************************)
(* The data channel managers of a small association.  The applications     *)
(* follow one of a few plans: which calls each side makes, how many        *)
(* channels and messages, and whether the association may end.             *)
(***************************************************************************)
EXTENDS DataChannels

Plan(client, server, creates, sends) ==
    [ops |-> ({"client"} \X client) \cup ({"server"} \X server),
     ids |-> {}, accepts |-> TRUE, down |-> FALSE, denies |-> FALSE,
     creates |-> creates, sends |-> sends]

MCPlans ==
    {\* an id is given to a second channel while the first one ends
     Plan({"create", "release"}, {"close"}, 2, 0),
     \* channels of both sides, ended by one or the other
     Plan({"create", "close"}, {"create", "release"}, 2, 0),
     \* messages that fill the cache, and readers that come and go
     Plan({"create", "send"}, {"read", "release"}, 1, 3),
     Plan({"create", "send", "close"}, {"read", "stop"}, 1, 2),
     \* the association ends, or the managers stop
     [Plan({"create", "close", "stop"}, {"send", "stop"}, 1, 1)
         EXCEPT !.down = TRUE],
     \* a channel negotiated under the id of an open that is being answered
     [Plan({"create"}, {"negotiate", "close", "stop"}, 2, 0)
         EXCEPT !.ids = {0}],
     \* the next id is taken, beyond the range, and a lower one is free
     [Plan({}, {"negotiate", "release", "create"}, 3, 0)
         EXCEPT !.ids = {1, 3}],
     \* the other side denies resets
     [Plan({"create", "close"}, {"close"}, 2, 0) EXCEPT !.denies = TRUE],
     \* nobody takes the channels of the other side
     [Plan({"create", "send"}, {}, 1, 1) EXCEPT !.accepts = FALSE]}

=============================================================================
