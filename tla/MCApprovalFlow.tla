--------------------------- MODULE MCApprovalFlow ---------------------------
(* Instances of ApprovalFlow for TLC. *)
EXTENDS ApprovalFlow, TLC

(* Approve requests are interchangeable: nothing orders or names them. *)
ApproverSymmetry == Permutations(Approvers)
=============================================================================
