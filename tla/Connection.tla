----------------------------- MODULE Connection -----------------------------
(***************************************************************************)
(* What agent promises its application, without candidates, checks, timers *)
(* or queues: connect() starts once, one pair after another is chosen for  *)
(* data, at most one in a component and never to be exchanged for another, *)
(* the agent is CONNECTED with the choice for the last component and not   *)
(* before, and close() is final.                                           *)
(***************************************************************************)
CONSTANTS Components,     \* the components of the stream
          Keys,           \* the pairs of candidates there may be
          CompOfKey(_)    \* the component of a pair

VARIABLES phase,          \* _state
          chosen          \* the nominated pairs

\* Every component has a pair to send on.
Full(S) == \A comp \in Components : \E k \in S : CompOfKey(k) = comp

Init == phase = "INIT" /\ chosen = {}

Connect == phase = "INIT" /\ phase' = "CONNECTING" /\ UNCHANGED chosen

Choose(k) ==
    /\ phase = "CONNECTING"
    /\ \A j \in chosen : CompOfKey(j) # CompOfKey(k)
    /\ chosen' = chosen \cup {k}
    /\ phase' = IF Full(chosen') THEN "CONNECTED" ELSE phase

Close == phase # "CLOSED" /\ phase' = "CLOSED" /\ chosen' = {}

Next == Connect \/ (\E k \in Keys : Choose(k)) \/ Close

Spec == Init /\ [][Next]_<<phase, chosen>>
=============================================================================
