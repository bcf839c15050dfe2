----------------------------- MODULE MCIceAgent -----------------------------
(* Small instances of IceAgent: host h1 and remotes r1, r2 in component 1,     *)
(* host h2 and remote s1 in component 2, and a NAT that shows h1 as m1.  A cfg *)
(* takes the candidates it needs; the functions follow.                        *)
EXTENDS IceAgentPromise, TLC

CONSTANTS h1, h2, m1, r1, r2, s1, c1, c2, c3, q1

MCComponent == [x \in Locals \cup Remotes |-> IF x \in {h2, s1} THEN 2 ELSE 1]

\* The priority of a candidate depends on its type and component alone:
\* component 1 above component 2, a host above a reflexive or relayed address,
\* r1 and r2 alike.
MCPriority ==
    [k \in Keys |-> (IF MCComponent[k[1]] = 1 THEN 2 ELSE 0)
                  + (IF k[1] \in Reflexive \cup Relays THEN 0 ELSE 1)]

MCOneFoundation == [k \in Keys |-> 1]
MCOwnFoundations == [k \in Keys |-> k[2]]

MCSeen == [k \in Keys |-> IF k[1] = h1 /\ m1 \in Reflexive THEN m1 ELSE k[1]]

MCSymmetry == Permutations(CheckIds)
=============================================================================
