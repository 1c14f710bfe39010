---------------------------- MODULE MCRuntimeJobs ----------------------------
(***************************************************************************)
(* Small instances of RuntimeJobs for TLC.                                 *)
(***************************************************************************)
EXTENDS RuntimeJobs, TLC

Symmetry == Permutations(Jobs) \cup Permutations(Calls)
=============================================================================
