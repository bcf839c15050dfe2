---------------------------- MODULE MCTurnClient ----------------------------
(* Model-checking instance of TurnClient. *)
EXTENDS TurnClient

CONSTANTS i1, i2, p1, p2

MCIpOf == [p \in Peers |-> IF p = p2 THEN i2 ELSE i1]
=============================================================================
