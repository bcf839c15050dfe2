---------------------------- MODULE MCIceSession ----------------------------
(* Small sessions: candidates h1 and h2 of A, r1 of B, one component.          *)
EXTENDS IceSession, TLC

CONSTANTS h1, h2, r1, c1, c2, c3, q1, q2

MCComponent == [x \in AHosts \cup BHosts |-> 1]
MCFoundation == [k \in KeysOf(AHosts, BHosts) |-> k]

\* The priority of a candidate depends on its type and component alone.
MCPriority == [k \in KeysOf(AHosts, BHosts) |-> IF k[1] \in ARelays THEN 1 ELSE 2]

MCSymmetry == Permutations(CheckIds) \cup Permutations(HandlerIds)
=============================================================================
