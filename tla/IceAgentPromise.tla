--------------------------- MODULE IceAgentPromise --------------------------
(***************************************************************************)
(* The agent as its application sees it: IceAgent with a lite peer imple-  *)
(* ments Connection.  With a full peer it does not: a check that fails     *)
(* late takes a nomination back (NominationKept).                          *)
(***************************************************************************)
EXTENDS IceAgent

\* nominated_pairs()
Chosen == {e.key : e \in {f \in valid : f.nominated}}

Promise == INSTANCE Connection WITH CompOfKey <- KeyComp, phase <- state, chosen <- Chosen

\* Every step of agent is one of connect(), the choice of a pair for a
\* component without one, close(), or invisible to the application: no check,
\* timer or late answer takes a choice back, makes a second one, or announces
\* CONNECTED (set_nominated) while a component has no pair.
ConnectionPromise == Promise!Spec
=============================================================================
