---------------------------- MODULE MCAgentRuns ----------------------------
(***************************************************************************)
(* Instances of AgentRuns for TLC.                                         *)
(***************************************************************************)
EXTENDS AgentRuns, TLC

\* Responses are interchangeable: no action and no invariant names one.
Symmetry == Permutations(Subs)
=============================================================================
