--------------------------- MODULE MCReaderPool ----------------------------
(* Instances of ReaderPool for TLC. *)
EXTENDS ReaderPool, TLC

CONSTANTS n1, t1, t2

\* Two topics of one cluster.
TwoTopics == {[name |-> n1, topic |-> t1], [name |-> n1, topic |-> t2]}

Interchangeable == Permutations(Sessions) \cup Permutations(Clients)

=============================================================================
