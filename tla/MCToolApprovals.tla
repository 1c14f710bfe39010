-------------------------- MODULE MCToolApprovals --------------------------
(* Instances of the tool approvals for TLC. *)
EXTENDS ToolApprovals, TLC

CONSTANTS alice

\* Every chat is hers.
Together == [c \in Chats |-> alice]
RunSymmetry == Permutations(Runs) \cup Permutations(Approvals)

=============================================================================
