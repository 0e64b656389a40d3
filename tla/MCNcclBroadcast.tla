-------------------------- MODULE MCNcclBroadcast --------------------------
(* TLC instances of NcclBroadcast. *)
EXTENDS NcclBroadcast

CONSTANTS s1, s2, r0, r1

MCServers == {s1, s2}
MCOthers == {r1}
MCStarts == {0, 2}
=============================================================================
