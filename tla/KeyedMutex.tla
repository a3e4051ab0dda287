---------------------------- MODULE KeyedMutex -----------------------------
(***************************************************************************)
(* What keyedLocker promises its callers: one mutex per key, for any key,  *)
(* without the caller knowing how the mutexes are kept.  A caller asks for *)
(* a key, gets it when nobody else has it, and gives it back once.         *)
(***************************************************************************)
CONSTANTS Keys, Procs, None

VARIABLES
    owner,   \* the caller that has each key, or None
    want     \* the key each caller waits for or has, or None

Init ==
    /\ owner = [k \in Keys |-> None]
    /\ want = [p \in Procs |-> None]

Ask(p, k) ==
    /\ want[p] = None
    /\ want' = [want EXCEPT ![p] = k]
    /\ UNCHANGED owner

Get(p) ==
    /\ want[p] # None
    /\ owner[want[p]] = None
    /\ owner' = [owner EXCEPT ![want[p]] = p]
    /\ UNCHANGED want

Put(p) ==
    /\ want[p] # None
    /\ owner[want[p]] = p
    /\ owner' = [owner EXCEPT ![want[p]] = None]
    /\ want' = [want EXCEPT ![p] = None]

Next == \E p \in Procs : (\E k \in Keys : Ask(p, k)) \/ Get(p) \/ Put(p)

Spec == Init /\ [][Next]_<<owner, want>>

=============================================================================
