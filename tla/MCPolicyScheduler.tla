-------------------------- MODULE MCPolicyScheduler --------------------------
(* Small instances of PolicyScheduler for TLC. *)
EXTENDS PolicyScheduler
=============================================================================
