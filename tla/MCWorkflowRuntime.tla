---------------------------- MODULE MCWorkflowRuntime ----------------------------
(* Instances of WorkflowRuntime for TLC. *)
EXTENDS WorkflowRuntime, TLC

=============================================================================
