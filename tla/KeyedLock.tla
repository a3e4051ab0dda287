----------------------------- MODULE KeyedLock -----------------------------
(***************************************************************************)
(* keyedLocker: a mutex per key, created on demand and reclaimed when its  *)
(* reference count drops to zero.  The bookkeeping under l.mu and the wait *)
(* on entry.mu are separate steps, so an entry can be taken, waited for    *)
(* and given back while others come and go.                                *)
(***************************************************************************)
EXTENDS Naturals, FiniteSets

CONSTANTS
    Keys,    \* what is locked
    Procs,   \* goroutines that lock
    Ids,     \* addresses of keyedLockEntry values
    Nil     \* nil

ASSUME NilAssumption == Nil \notin Keys \cup Procs \cup Ids
ASSUME FiniteAssumption == IsFiniteSet(Procs)

VARIABLES
    entries,   \* l.entries
    refs,      \* entry.refs
    holder,    \* who holds entry.mu, or Nil
    pc,        \* where each goroutine is in lock and in the unlock it returns
    key,       \* the key it locks
    entry      \* the entry it refers to

lockVars == <<entries, refs, holder, pc, key, entry>>

Pcs == {"idle", "waiting", "critical", "releasing"}

Users(i) == {p \in Procs : entry[p] = i}

LockInit ==
    /\ entries = [k \in Keys |-> Nil]
    /\ refs = [i \in Ids |-> 0]
    /\ holder = [i \in Ids |-> Nil]
    /\ pc = [p \in Procs |-> "idle"]
    /\ key = [p \in Procs |-> Nil]
    /\ entry = [p \in Procs |-> Nil]

\* Fault: an entry found in the map is used without counting the reference.
BugUncountedWaiter(p, k) ==
    /\ pc[p] = "idle"
    /\ \E i \in Ids :
         /\ IF entries[k] = Nil
              THEN /\ Users(i) = {} /\ \A j \in Keys : entries[j] # i
                   /\ refs' = [refs EXCEPT ![i] = 1]
                   /\ holder' = [holder EXCEPT ![i] = Nil]
              ELSE i = entries[k] /\ UNCHANGED <<refs, holder>>
         /\ entries' = [entries EXCEPT ![k] = i]
         /\ entry' = [entry EXCEPT ![p] = i]
    /\ key' = [key EXCEPT ![p] = k]
    /\ pc' = [pc EXCEPT ![p] = "waiting"]

\* lock, under l.mu: the key's entry is found or made (at an address nobody
\* refers to: zeroed memory), and counted.
Lock(p, k) ==
    /\ pc[p] = "idle"
    /\ \E i \in Ids :
         /\ IF entries[k] = Nil
              THEN /\ Users(i) = {} /\ \A j \in Keys : entries[j] # i
                   /\ refs' = [refs EXCEPT ![i] = 1]
                   /\ holder' = [holder EXCEPT ![i] = Nil]
              ELSE /\ i = entries[k]
                   /\ refs' = [refs EXCEPT ![i] = @ + 1]
                   /\ UNCHANGED holder
         /\ entries' = [entries EXCEPT ![k] = i]
         /\ entry' = [entry EXCEPT ![p] = i]
    /\ key' = [key EXCEPT ![p] = k]
    /\ pc' = [pc EXCEPT ![p] = "waiting"]

\* entry.mu.Lock() returns.
Enter(p) ==
    /\ pc[p] = "waiting" /\ holder[entry[p]] = Nil
    /\ holder' = [holder EXCEPT ![entry[p]] = p]
    /\ pc' = [pc EXCEPT ![p] = "critical"]
    /\ UNCHANGED <<entries, refs, key, entry>>

\* Fault: entry.mu stays locked.
BugHeldForever(p) ==
    /\ pc[p] = "critical"
    /\ pc' = [pc EXCEPT ![p] = "releasing"]
    /\ UNCHANGED <<entries, refs, holder, key, entry>>

\* The returned func runs (once): entry.mu.Unlock() ...
Unlock(p) ==
    /\ pc[p] = "critical"
    /\ holder' = [holder EXCEPT ![entry[p]] = Nil]
    /\ pc' = [pc EXCEPT ![p] = "releasing"]
    /\ UNCHANGED <<entries, refs, key, entry>>

\* Fault: the entry is kept for the next caller.
BugNeverReclaimed(p) ==
    /\ pc[p] = "releasing"
    /\ refs' = [refs EXCEPT ![entry[p]] = @ - 1]
    /\ entry' = [entry EXCEPT ![p] = Nil]
    /\ key' = [key EXCEPT ![p] = Nil]
    /\ pc' = [pc EXCEPT ![p] = "idle"]
    /\ UNCHANGED <<entries, holder>>

\* Fault: the holder deletes the entry though others are waiting on it.
BugReclaimedInUse(p) ==
    /\ pc[p] = "releasing"
    /\ refs' = [refs EXCEPT ![entry[p]] = @ - 1]
    /\ entries' = [entries EXCEPT ![key[p]] = Nil]
    /\ entry' = [entry EXCEPT ![p] = Nil]
    /\ key' = [key EXCEPT ![p] = Nil]
    /\ pc' = [pc EXCEPT ![p] = "idle"]
    /\ UNCHANGED holder

\* ... and then, under l.mu, the reference is dropped and an entry nobody refers
\* to any more is deleted, by key.
Drop(p) ==
    /\ pc[p] = "releasing"
    /\ refs' = [refs EXCEPT ![entry[p]] = @ - 1]
    /\ entries' = IF refs[entry[p]] = 1
                    THEN [entries EXCEPT ![key[p]] = Nil] ELSE entries
    /\ entry' = [entry EXCEPT ![p] = Nil]
    /\ key' = [key EXCEPT ![p] = Nil]
    /\ pc' = [pc EXCEPT ![p] = "idle"]
    /\ UNCHANGED holder

LockNext ==
    \E p \in Procs :
        (\E k \in Keys : Lock(p, k)) \/ Enter(p) \/ Unlock(p) \/ Drop(p)

LockSpec == LockInit /\ [][LockNext]_lockVars

\* Callers give back what they hold.  sync.Mutex hands itself to the longest
\* waiter once it has waited a millisecond (starvation mode), so a waiter for
\* whom the mutex is free again and again does get it.
LockFairSpec ==
    /\ LockSpec
    /\ \A p \in Procs :
         SF_lockVars(Enter(p)) /\ WF_lockVars(Unlock(p)) /\ WF_lockVars(Drop(p))

----------------------------------------------------------------------------
(* Properties *)

\* Every variable holds what its Go type allows.
LockTypeOK ==
    /\ entries \in [Keys -> Ids \cup {Nil}]
    /\ refs \in [Ids -> Nat]
    /\ holder \in [Ids -> Procs \cup {Nil}]
    /\ pc \in [Procs -> Pcs]
    /\ key \in [Procs -> Keys \cup {Nil}]
    /\ entry \in [Procs -> Ids \cup {Nil}]

\* Two callers are never in the critical section of one key at once, although
\* the mutex behind the key is deleted and made anew under them (lock).
MutualExclusion ==
    \A p, q \in Procs :
        pc[p] = "critical" /\ pc[q] = "critical" /\ key[p] = key[q] => p = q

\* Nobody is stranded on an orphaned mutex: whoever waits for, holds or gives
\* back a key does so on the very entry the map has for it, so later callers
\* queue behind them (keyedLocker's comment).
NoStrandedWaiter ==
    \A p \in Procs : pc[p] # "idle" => entries[key[p]] = entry[p]

\* Idle entries are reclaimed: the map holds exactly the keys in use, so it
\* does not grow with the keys ever locked (the unlock func of lock).
IdleReclaimed ==
    \A k \in Keys : entries[k] # Nil => \E p \in Procs : key[p] = k

\* Every caller that asks for a key gets it.
EveryWaiterEnters ==
    \A p \in Procs : pc[p] = "waiting" ~> pc[p] = "critical"

\* The reference count counts the holder, the waiters and those giving back.
RefsExact == \A i \in Ids : refs[i] = Cardinality(Users(i))

\* The keyed lock is a lock and leaves nothing behind: the parts above
\* together (keyed_lock.go).
LockSafe == MutualExclusion /\ NoStrandedWaiter /\ IdleReclaimed /\ RefsExact

\* keyedLocker implements one mutex per key: giving back ends with the unlock
\* of entry.mu for the key's owner, and with the dropped reference for the map.
Abstract ==
    INSTANCE KeyedMutex
        WITH None <- Nil,
             owner <- [k \in Keys |->
                         IF \E p \in Procs : pc[p] = "critical" /\ key[p] = k
                           THEN CHOOSE p \in Procs :
                                  pc[p] = "critical" /\ key[p] = k
                           ELSE Nil],
             want <- [p \in Procs |->
                        IF pc[p] \in {"waiting", "critical"} THEN key[p]
                        ELSE Nil]

\* The steps of keyedLocker are steps of one mutex per key.
IsKeyedMutex == Abstract!Spec

=============================================================================
