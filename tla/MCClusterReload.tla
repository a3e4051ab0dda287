-------------------------- MODULE MCClusterReload --------------------------
(* Instances of ClusterReload for TLC. *)
EXTENDS ClusterReload, TLC

CONSTANTS c1, c2, m1, m2

\* Two definitions that differ in their connection only.
TwoConns == {[conn |-> c1, masking |-> m1], [conn |-> c2, masking |-> m1]}

\* The same, and an edit that leaves the connection alone.
ThreeDefs == TwoConns \cup {[conn |-> c1, masking |-> m2]}

OneDef == {[conn |-> c1, masking |-> m1]}

\* Explore only as long as every stamp is fresh (MaxClock fetches).
ClockRuns == clock < MaxClock

Interchangeable ==
    Permutations(Scrapers) \cup Permutations(Requests) \cup Permutations(Appliers)

=============================================================================
