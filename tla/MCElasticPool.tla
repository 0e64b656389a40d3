--------------------------- MODULE MCElasticPool ---------------------------
(* TLC instances of ElasticPool. *)
EXTENDS ElasticPool

CONSTANTS s1, s2

MCServers == {s1, s2}
=============================================================================
