---------------------------- MODULE MCQueryCache ----------------------------
(* The web interface with two controls used, one of them asking first.     *)
EXTENDS QueryCache
=============================================================================
