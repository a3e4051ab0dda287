---------------------------- MODULE MCKeyedLock ----------------------------
(* Instances of KeyedLock for TLC. *)
EXTENDS KeyedLock, TLC

Interchangeable ==
    Permutations(Keys) \cup Permutations(Procs) \cup Permutations(Ids)

=============================================================================
