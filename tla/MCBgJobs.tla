------------------------------ MODULE MCBgJobs ------------------------------
(***************************************************************************)
(* Small instances of BgJobs for TLC.                                      *)
(***************************************************************************)
EXTENDS BgJobs, TLC

Symmetry == Permutations(Jobs) \cup Permutations(Sessions)
=============================================================================
