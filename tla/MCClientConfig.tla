-------------------------- MODULE MCClientConfig ---------------------------
(* Instances of ClientConfig for TLC. *)
EXTENDS ClientConfig, TLC

CONSTANT MaxInodes

\* Every transaction allocates inodes: bound how many are tried.
FewInodes == inodes <= MaxInodes

=============================================================================
