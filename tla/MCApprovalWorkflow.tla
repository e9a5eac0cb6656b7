------------------------- MODULE MCApprovalWorkflow -------------------------
(* Instances of the approval workflow for TLC. *)
EXTENDS ApprovalWorkflow
=============================================================================
