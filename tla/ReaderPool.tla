----------------------------- MODULE ReaderPool ----------------------------
(***************************************************************************)
(* The Pool's idle message readers: browse and analysis sessions lease a   *)
(* kgo client, give it back when they close, and the next session with the *)
(* same key (cluster, topic, assignment) reuses it.  At most MaxIdle       *)
(* clients are kept, and a generation per cluster keeps a session that was *)
(* open during an Invalidate from returning its client.                    *)
(***************************************************************************)
EXTENDS Integers, Sequences, FiniteSets, SequencesExt

CONSTANTS
    Names,      \* cluster names
    Keys,       \* readerPoolKey: records with at least a field name
    Conns,      \* connections a Definition can describe
    Sessions,   \* concurrent reader sessions
    Clients,    \* addresses of kgo clients
    Nil,        \* nil
    MaxIdle,    \* maxIdleReaderClients
    MaxFlush    \* bound on invalidations (and the one Close) per cluster

ASSUME ReaderPoolAssumption ==
    /\ \A k \in Keys : k.name \in Names
    /\ Nil \notin Conns \cup Clients \cup Nat
    /\ MaxIdle \in Nat /\ MaxFlush \in Nat

VARIABLES
    defs,      \* the connection the Resolver has for each cluster
    stale,     \* clusters a reload has replaced but not yet invalidated
    idle,      \* Pool.idleReaders
    count,     \* Pool.idleReaderCount
    gens,      \* Pool.readerGenerations; Nil: no entry (which reads as 0)
    conn,      \* the connection each client was built from; Nil: not open
    pc,        \* where each session is
    key,       \* its readerPoolKey
    def,       \* the connection its Definition describes
    gen,       \* readerSession.generation
    cl,        \* readerSession.cl
    reusable,  \* readerSession.reusable
    flushes,   \* history: invalidations of each cluster, Close included
    since,     \* history: flushes of its cluster when the session was opened
    born       \* history: the same for the session that last had a client

sessionVars == <<pc, key, def, gen, cl, reusable, since>>
poolVars == <<idle, count, gens, conn, flushes, born>>
readerVars == <<defs, stale, sessionVars, poolVars>>

Generation(n) == IF gens[n] = Nil THEN 0 ELSE gens[n]
Leased == {cl[s] : s \in Sessions} \ {Nil}
IdleClients == UNION {ToSet(idle[k]) : k \in Keys}
KeysOf(n) == {k \in Keys : k.name = n}

\* The places that readers (idle, or what it becomes) has for the keys of K: one
\* per client kept.
Slots(readers, K) == UNION {{k} \X DOMAIN readers[k] : k \in K}

PoolInit ==
    /\ defs \in [Names -> Conns]
    /\ stale = {}
    /\ idle = [k \in Keys |-> <<>>]
    /\ count = 0
    /\ gens = [n \in Names |-> Nil]
    /\ conn = [c \in Clients |-> Nil]
    /\ pc = [s \in Sessions |-> "none"]
    /\ key = [s \in Sessions |-> Nil]
    /\ def = [s \in Sessions |-> Nil]
    /\ gen = [s \in Sessions |-> 0]
    /\ cl = [s \in Sessions |-> Nil]
    /\ reusable = [s \in Sessions |-> FALSE]
    /\ flushes = [n \in Names |-> 0]
    /\ since = [s \in Sessions |-> 0]
    /\ born = [c \in Clients |-> 0]

----------------------------------------------------------------------------
(* Sessions *)

\* A service looks the cluster up on its way to Open.
Lookup(s, k) ==
    /\ pc[s] = "none"
    /\ key' = [key EXCEPT ![s] = k]
    /\ def' = [def EXCEPT ![s] = defs[k.name]]
    /\ pc' = [pc EXCEPT ![s] = "looked"]
    /\ UNCHANGED <<defs, stale, gen, cl, reusable, since, poolVars>>

\* Fault: reading the generation does not record the cluster.
BugGenerationNotRecorded(n) == gens

\* The generation read under p.mu is written back, so that Close, which walks
\* the map, also finds clusters that were never invalidated.
RecordGeneration(n) == [gens EXCEPT ![n] = Generation(n)]

\* Fault: the client is reused and stays in the pool.
BugNotPopped(k) == idle

\* readers[:len-1], or no entry at all.
PopReader(k) == [idle EXCEPT ![k] = Front(@)]

\* openReader under p.mu: an idle client of the very key is leased, last in
\* first out.
LeaseIdle(s) ==
    /\ pc[s] = "looked" /\ idle[key[s]] # <<>>
    /\ gen' = [gen EXCEPT ![s] = Generation(key[s].name)]
    /\ gens' = RecordGeneration(key[s].name)
    /\ since' = [since EXCEPT ![s] = flushes[key[s].name]]
    /\ cl' = [cl EXCEPT ![s] = Last(idle[key[s]])]
    /\ idle' = PopReader(key[s])
    /\ count' = count - 1
    /\ reusable' = [reusable EXCEPT ![s] = TRUE]
    /\ pc' = [pc EXCEPT ![s] = "open"]
    /\ UNCHANGED <<defs, stale, key, def, conn, flushes, born>>

\* openReader under p.mu when there is none: a client has to be built.
NoneIdle(s) ==
    /\ pc[s] = "looked" /\ idle[key[s]] = <<>>
    /\ gen' = [gen EXCEPT ![s] = Generation(key[s].name)]
    /\ gens' = RecordGeneration(key[s].name)
    /\ since' = [since EXCEPT ![s] = flushes[key[s].name]]
    /\ pc' = [pc EXCEPT ![s] = "build"]
    /\ UNCHANGED <<defs, stale, key, def, cl, reusable, idle, count, conn,
                   flushes, born>>

\* ... outside p.mu, from the Definition the caller looked up.
Build(s) ==
    /\ pc[s] = "build"
    /\ \E c \in Clients :
         /\ conn[c] = Nil
         /\ conn' = [conn EXCEPT ![c] = def[s]]
         /\ cl' = [cl EXCEPT ![s] = c]
    /\ reusable' = [reusable EXCEPT ![s] = TRUE]
    /\ pc' = [pc EXCEPT ![s] = "open"]
    /\ UNCHANGED <<defs, stale, key, def, gen, since, idle, count, gens, flushes,
                   born>>

\* The session's locals go out of scope.
End(s) ==
    /\ pc' = [pc EXCEPT ![s] = "none"]
    /\ key' = [key EXCEPT ![s] = Nil]
    /\ def' = [def EXCEPT ![s] = Nil]
    /\ gen' = [gen EXCEPT ![s] = 0]
    /\ cl' = [cl EXCEPT ![s] = Nil]
    /\ reusable' = [reusable EXCEPT ![s] = FALSE]
    /\ since' = [since EXCEPT ![s] = 0]

BuildFails(s) ==
    /\ pc[s] = "build"
    /\ End(s)
    /\ UNCHANGED <<defs, stale, poolVars>>

\* Poll surfaces an error that is neither a cancellation nor a deadline.
PollFails(s) ==
    /\ pc[s] = "open" /\ reusable[s]
    /\ reusable' = [reusable EXCEPT ![s] = FALSE]
    /\ UNCHANGED <<defs, stale, pc, key, def, gen, cl, since, poolVars>>

\* readerSession.Close, once: a client that failed is closed ...
CloseBroken(s) ==
    /\ pc[s] = "open" /\ ~reusable[s]
    /\ conn' = [conn EXCEPT ![cl[s]] = Nil]
    /\ End(s)
    /\ UNCHANGED <<defs, stale, idle, count, gens, flushes, born>>

\* ... a healthy one is paused first.
Pause(s) ==
    /\ pc[s] = "open" /\ reusable[s]
    /\ pc' = [pc EXCEPT ![s] = "paused"]
    /\ UNCHANGED <<defs, stale, key, def, gen, cl, reusable, since, poolVars>>

\* Fault: the limit is checked per key.
BugLimitPerKey(s) ==
    Generation(key[s].name) # gen[s] \/ Len(idle[key[s]]) >= MaxIdle

Unwelcome(s) == Generation(key[s].name) # gen[s] \/ count >= MaxIdle

\* releaseReader under p.mu: the client is kept, or closed right after when its
\* generation has passed or the pool is full.
Release(s) ==
    /\ pc[s] = "paused"
    /\ IF Unwelcome(s)
         THEN /\ conn' = [conn EXCEPT ![cl[s]] = Nil]
              /\ UNCHANGED <<idle, count, born>>
         ELSE /\ idle' = [idle EXCEPT ![key[s]] = Append(@, cl[s])]
              /\ count' = count + 1
              /\ born' = [born EXCEPT ![cl[s]] = since[s]]
              /\ UNCHANGED conn
    /\ End(s)
    /\ UNCHANGED <<defs, stale, gens, flushes>>

----------------------------------------------------------------------------
(* Pool and reload *)

\* Reloader.applyLocked replaces the definitions ...
Replace(n, d) ==
    /\ n \notin stale /\ d # defs[n] /\ flushes[n] < MaxFlush
    /\ defs' = [defs EXCEPT ![n] = d]
    /\ stale' = stale \cup {n}
    /\ UNCHANGED <<sessionVars, poolVars>>

\* idleReaderCount after the readers of n have been taken out.
CountWithout(n) == count - Cardinality(Slots(idle, KeysOf(n)))

\* ... and invalidates what changed; a forced refresh invalidates as well.  The
\* clients taken out are closed outside the lock.
Invalidate(n) ==
    /\ flushes[n] < MaxFlush
    /\ gens' = [gens EXCEPT ![n] = Generation(n) + 1]
    /\ count' = CountWithout(n)
    /\ conn' = [c \in Clients |->
                  IF \E k \in KeysOf(n) : c \in ToSet(idle[k])
                    THEN Nil ELSE conn[c]]
    /\ idle' = [k \in Keys |-> IF k.name = n THEN <<>> ELSE idle[k]]
    /\ flushes' = [flushes EXCEPT ![n] = @ + 1]
    /\ stale' = stale \ {n}
    /\ UNCHANGED <<defs, sessionVars, born>>

\* Pool.Close: every idle reader is taken out, and the generation of every
\* recorded cluster moves on.
Close ==
    /\ \A n \in Names : flushes[n] < MaxFlush
    /\ gens' = [n \in Names |-> IF gens[n] = Nil THEN Nil ELSE gens[n] + 1]
    /\ conn' = [c \in Clients |-> IF c \in IdleClients THEN Nil ELSE conn[c]]
    /\ idle' = [k \in Keys |-> <<>>]
    /\ count' = 0
    /\ flushes' = [n \in Names |-> flushes[n] + 1]
    /\ UNCHANGED <<defs, stale, sessionVars, born>>

PoolNext ==
    \/ \E s \in Sessions :
         \/ \E k \in Keys : Lookup(s, k)
         \/ LeaseIdle(s) \/ NoneIdle(s) \/ Build(s) \/ BuildFails(s)
         \/ PollFails(s) \/ CloseBroken(s) \/ Pause(s) \/ Release(s)
    \/ \E n \in Names : Invalidate(n) \/ \E d \in Conns : Replace(n, d)
    \/ Close

PoolSpec == PoolInit /\ [][PoolNext]_readerVars

----------------------------------------------------------------------------
(* Properties *)

\* Every variable holds what its Go type allows.
PoolTypeOK ==
    /\ defs \in [Names -> Conns]
    /\ stale \subseteq Names
    /\ idle \in [Keys -> Seq(Clients)]
    /\ count \in Nat
    /\ gens \in [Names -> Nat \cup {Nil}]
    /\ conn \in [Clients -> Conns \cup {Nil}]
    /\ pc \in [Sessions -> {"none", "looked", "build", "open", "paused"}]
    /\ key \in [Sessions -> Keys \cup {Nil}]
    /\ def \in [Sessions -> Conns \cup {Nil}]
    /\ gen \in [Sessions -> Nat]
    /\ cl \in [Sessions -> Clients \cup {Nil}]
    /\ reusable \in [Sessions -> BOOLEAN]
    /\ flushes \in [Names -> Nat] /\ since \in [Sessions -> Nat]
    /\ born \in [Clients -> Nat]

\* The idle pool stays within its global limit whatever sessions close at the
\* same time, and its counter is the number of clients actually kept: a counter
\* that drifts up would disable reuse for good, one that drifts down would lift
\* the limit (openReader, releaseReader, Invalidate).
BoundedIdle ==
    /\ count <= MaxIdle
    /\ count = Cardinality(Slots(idle, Keys))

\* A reader is never shared: a client is leased by one session, or waits in one
\* place of the pool, not both and not twice (Pool's comment: a session has its
\* client to itself for the time of the lease).
ExclusiveLease ==
    /\ \A s, t \in Sessions :
         s # t /\ cl[s] # Nil => cl[s] # cl[t]
    /\ Leased \cap IdleClients = {}
    /\ \A k, j \in Keys : k # j => ToSet(idle[k]) \cap ToSet(idle[j]) = {}
    /\ \A k \in Keys : IsInjective(idle[k])

\* No connection is leaked and none is used after it was closed: the open
\* clients are exactly the leased and the idle ones.
NoLeakNoUseAfterClose ==
    {c \in Clients : conn[c] # Nil} = Leased \cup IdleClients

\* An invalidation is final for the sessions it overtakes: an idle reader of a
\* cluster was returned by a session opened after the last Invalidate of that
\* cluster, and after Close, whenever the session itself closes
\* (readerSession.Close's comment: stale configuration generations are closed).
GenerationFences ==
    \A k \in Keys : \A c \in ToSet(idle[k]) : born[c] = flushes[k.name]

\* What waits in a pool is bounded and, once its cluster changed, nothing old
\* gets in: the parts above together (pool.go).
IdleSound == PoolTypeOK /\ BoundedIdle /\ GenerationFences

\* An idle reader of a cluster is connected to what the cluster's current
\* Definition describes whenever no reload is between Replace and Invalidate.
IdleReaderCurrent ==
    \A k \in Keys : k.name \notin stale =>
        \A c \in ToSet(idle[k]) : conn[c] = defs[k.name]

=============================================================================
