---------------------------- MODULE MCLeasePool ----------------------------
(* TLC instances of LeasePool. *)
EXTENDS LeasePool

CONSTANTS e1, e2

MCEndpoints == {e1, e2}
=============================================================================
