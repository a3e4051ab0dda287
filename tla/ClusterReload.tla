--------------------------- MODULE ClusterReload ---------------------------
(***************************************************************************)
(* The cluster runtime of the sidecar and the smooth reload of its         *)
(* configuration: the Resolver (name -> Definition), the Pool's one        *)
(* management client per cluster, the StateCache with its background       *)
(* scrape goroutines, the Reloader, and the HTTP requests that refresh the *)
(* cache or write to Kafka.  Every critical section of Resolver.mu,        *)
(* Pool.mu and StateCache.mu is one action; everything between two         *)
(* critical sections interleaves.                                          *)
(*                                                                         *)
(* A task is either a scrape goroutine (Scrapers) or a request (Requests). *)
(* Both end in refreshOne, whose FetchState is cut at the points where     *)
(* other tasks can get in: clientFor, the Metadata answer (which stamps    *)
(* RefreshedAt), the offset listing, and the write to the cache.           *)
(***************************************************************************)
EXTENDS Naturals, FiniteSets

CONSTANTS
    Clusters,     \* cluster names
    Definitions,  \* cluster definitions: records with at least a field conn
    Scrapers,     \* slots for scrape goroutines (cancelled ones included)
    Requests,     \* concurrent HTTP requests
    Appliers,     \* concurrent PUT /api/config requests
    None,         \* "no entry", distinct from every value of the model
    MaxClock,     \* time stamps saturate here (equal stamps may be written)
    MaxWrites     \* writes per cluster

Tasks == Scrapers \cup Requests
Conns == {d.conn : d \in Definitions}
Configs == [Clusters -> Definitions \cup {None}]
Configured(cfg) == {n \in Clusters : cfg[n] # None}

ASSUME TaskAssumption ==
    /\ Scrapers \cap Requests = {}
    /\ None \notin Tasks \cup Definitions \cup Conns \cup Appliers
    /\ None \notin Clusters \cup {"topic", "record"}
ASSUME BoundAssumption ==
    /\ MaxClock \in Nat \ {0}
    /\ MaxWrites \in Nat
    /\ None \notin Nat

VARIABLES
    disk,      \* the configuration last saved by config.Store
    defs,      \* Resolver.defs
    clients,   \* Pool.clients: the conn each pooled client was built from
    states,    \* StateCache.states: [def, at, meta, data] or None
    cancels,   \* StateCache.cancels: the goroutine each CancelFunc stops
    booted,    \* StateCache.Start has run (baseCtx is set)
    pc,        \* where each task is
    name,      \* the cluster a task works for
    def,       \* the Definition a task looked up
    at,        \* RefreshedAt of the RuntimeState being built
    meta,      \* the topics in that RuntimeState: writes the answer includes
    data,      \* the offsets in that RuntimeState (None: unknown)
    live,      \* the task's ctx is not cancelled
    due,       \* writes the request has to see in the cache, its own included
    kind,      \* what the request wrote
    applyMu,   \* holder of Reloader.applyMu, or None
    applyPc,   \* where each applier is
    snap,      \* the ConfigSnapshot an applier was given
    todo,      \* names an applier still has to invalidate or launch
    clock,     \* wall clock
    log,       \* writes (topics or records) each cluster has accepted
    acked,     \* per kind, the writes whose refresh has succeeded since the
               \* cluster was last removed
    tainted    \* history: clusters a task looked up before a reload changed them

fetchVars == <<name, def, at, meta, data, live, due, kind>>
applyVars == <<applyMu, applyPc, snap, todo>>
envVars == <<clock, log, acked>>
vars == <<disk, defs, clients, states, cancels, booted, pc, name, def, at,
          meta, data, live, due, kind, applyMu, applyPc, snap, todo, clock, log,
          acked, tainted>>

TaskPcs == {"free", "scrape", "wait",                             \* scrapers
            "idle", "topic", "create", "delete", "purge", "produce", \* requests
            "refresh", "nudge", "invalidate",
            "looked", "client", "answered", "stamped", "listed", "fetched"}
ApplyPcs == {"idle", "save", "replace", "invalidate", "align", "launch"}
Kinds == {"topic", "record"}
Seen == 0..MaxWrites \cup {None}
RuntimeStates == [def : Definitions, at : 0..MaxClock, meta : Seen, data : Seen]

ASSUME StateAssumption == None \notin RuntimeStates

----------------------------------------------------------------------------
(* Helpers *)

\* A task whose lookup of n no longer agrees with the Resolver's connection
\* and that has a clientFor still ahead of it.
Outdated(t, n, cfg) ==
    /\ pc[t] \in {"topic", "delete", "invalidate", "looked", "client",
                  "answered", "stamped", "listed"}
    /\ name[t] = n
    /\ cfg[n] = None \/ def[t].conn # cfg[n].conn

\* Fault: only removed clusters count as stale.
BugRemovedOnly(old, next) == {n \in Configured(old) : next[n] = None}

\* changedOrRemoved: connection identity only, so a masking or readOnly edit
\* does not drop the client.
ChangedOrRemoved(old, next) ==
    {n \in Configured(old) : next[n] = None \/ old[n].conn # next[n].conn}

\* StateCache.launch for n by whoever holds no lock: nothing before Start, and
\* nothing when a goroutine for n is already registered.
Launch(n) ==
    \/ /\ ~booted \/ cancels[n] # None
       /\ UNCHANGED <<cancels, pc, name, live>>
    \/ /\ booted /\ cancels[n] = None
       /\ \E t \in Scrapers :
            /\ pc[t] = "free"
            /\ cancels' = [cancels EXCEPT ![n] = t]
            /\ pc' = [pc EXCEPT ![t] = "scrape"]
            /\ name' = [name EXCEPT ![t] = n]
            /\ live' = [live EXCEPT ![t] = TRUE]

\* Pool.Invalidate: the client of n leaves the pool (it is closed afterwards,
\* outside the lock).  Only a task that still holds an old lookup can put a
\* stale client back.
Invalidate(n) ==
    /\ clients' = [clients EXCEPT ![n] = None]
    /\ tainted' = IF \E t \in Tasks : Outdated(t, n, defs)
                    THEN tainted ELSE tainted \ {n}

Tick == IF clock < MaxClock THEN clock + 1 ELSE clock

----------------------------------------------------------------------------
Init ==
    /\ defs \in Configs
    /\ disk = defs
    /\ clients = [n \in Clusters |-> None]
    /\ states = [n \in Clusters |-> None]
    /\ cancels = [n \in Clusters |-> None]
    /\ booted = FALSE
    /\ pc = [t \in Tasks |-> IF t \in Scrapers THEN "free" ELSE "idle"]
    /\ name = [t \in Tasks |-> None]
    /\ def = [t \in Tasks |-> None]
    /\ at = [t \in Tasks |-> 0]
    /\ meta = [t \in Tasks |-> None]
    /\ data = [t \in Tasks |-> None]
    /\ live = [t \in Tasks |-> TRUE]
    /\ due = [t \in Tasks |-> 0]
    /\ kind = [t \in Tasks |-> None]
    /\ applyMu = None
    /\ applyPc = [a \in Appliers |-> "idle"]
    /\ snap = [a \in Appliers |-> None]
    /\ todo = [a \in Appliers |-> {}]
    /\ clock = 0
    /\ log = [n \in Clusters |-> 0]
    /\ acked = [k \in Kinds |-> [n \in Clusters |-> 0]]
    /\ tainted = {}

(***************************************************************************)
(* StateCache.Start, called by wireServices before the listener serves:    *)
(* baseCtx is recorded and one goroutine per configured cluster launched.  *)
(***************************************************************************)
Start ==
    /\ ~booted
    /\ booted' = TRUE
    /\ \E f \in [Configured(defs) -> Scrapers] :
         /\ \A m, n \in Configured(defs) : m # n => f[m] # f[n]
         /\ cancels' = [n \in Clusters |->
                          IF n \in Configured(defs) THEN f[n] ELSE None]
         /\ pc' = [t \in Tasks |->
                     IF \E n \in Configured(defs) : f[n] = t
                       THEN "scrape" ELSE pc[t]]
         /\ name' = [t \in Tasks |->
                       IF \E n \in Configured(defs) : f[n] = t
                         THEN CHOOSE n \in Configured(defs) : f[n] = t
                         ELSE name[t]]
    /\ UNCHANGED <<disk, defs, clients, states, def, at, meta, data, live, due,
                   kind, applyVars, envVars, tainted>>

----------------------------------------------------------------------------
(* Scrape goroutines: scrapeLoop and scrapeNow *)

\* scrapeNow resolves the name again each round; a cancelled ctx or a name the
\* Resolver no longer knows ends the round.
ScrapeNow(t) ==
    /\ pc[t] = "scrape"
    /\ IF live[t] /\ defs[name[t]] # None
         THEN /\ def' = [def EXCEPT ![t] = defs[name[t]]]
              /\ pc' = [pc EXCEPT ![t] = "looked"]
         ELSE /\ pc' = [pc EXCEPT ![t] = "wait"]
              /\ UNCHANGED def
    /\ UNCHANGED <<disk, defs, clients, states, cancels, booted, name, at, meta,
                   data, live, due, kind, applyVars, envVars, tainted>>

\* Fault: the goroutine scrapes once and never ticks.
BugNoTicker(t) == FALSE /\ UNCHANGED vars

\* The ticker fires.
ScrapeTick(t) ==
    /\ pc[t] = "wait" /\ live[t]
    /\ pc' = [pc EXCEPT ![t] = "scrape"]
    /\ UNCHANGED <<disk, defs, clients, states, cancels, booted, fetchVars,
                   applyVars, envVars, tainted>>

\* ctx.Done: the goroutine returns and its slot can be reused.
ScrapeExit(t) ==
    /\ pc[t] = "wait" /\ ~live[t]
    /\ pc' = [pc EXCEPT ![t] = "free"]
    /\ name' = [name EXCEPT ![t] = None]
    /\ UNCHANGED <<disk, defs, clients, states, cancels, booted, def, at, meta,
                   data, live, due, kind, applyVars, envVars, tainted>>

----------------------------------------------------------------------------
(* Requests *)

\* A request begins: POST /clusters/{c}/cache asks for a refresh only ...
RequestRefresh(r, n) ==
    /\ booted /\ pc[r] = "idle" /\ defs[n] # None
    /\ name' = [name EXCEPT ![r] = n]
    /\ pc' = [pc EXCEPT ![r] = "refresh"]
    /\ UNCHANGED <<disk, defs, clients, states, cancels, booted, def, at, meta,
                   data, live, due, kind, applyVars, envVars, tainted>>

\* ... while a write looks its cluster up first.
BeginWrite(r, n, k, next) ==
    /\ booted /\ pc[r] = "idle" /\ defs[n] # None
    /\ name' = [name EXCEPT ![r] = n]
    /\ def' = [def EXCEPT ![r] = defs[n]]
    /\ kind' = [kind EXCEPT ![r] = k]
    /\ pc' = [pc EXCEPT ![r] = next]
    /\ UNCHANGED <<disk, defs, clients, states, cancels, booted, at, meta, data,
                   live, due, applyVars, envVars, tainted>>

\* TopicService.Create and its siblings, and MessageService.Delete, write
\* through the pooled client; Send produces on a client of its own.
WriteTopic(r, n) == BeginWrite(r, n, "topic", "topic")
Delete(r, n) == BeginWrite(r, n, "record", "delete")
Send(r, n) == BeginWrite(r, n, "record", "produce")

\* The refresh a write is followed by: refreshAfterWrite of TopicService calls
\* Refresh, that of MessageService calls RefreshWithoutInvalidate.
AfterWrite == [create |-> "refresh", purge |-> "nudge", produce |-> "nudge"]

\* The cluster accepts the write.
Write(r) ==
    /\ pc[r] \in DOMAIN AfterWrite
    /\ log[name[r]] < MaxWrites
    /\ log' = [log EXCEPT ![name[r]] = @ + 1]
    /\ due' = [due EXCEPT ![r] = log[name[r]] + 1]
    /\ def' = [def EXCEPT ![r] = None]
    /\ pc' = [pc EXCEPT ![r] = AfterWrite[@]]
    /\ UNCHANGED <<disk, defs, clients, states, cancels, booted, name, at, meta,
                   data, live, kind, applyVars, clock, acked, tainted>>

\* The request answers its caller.
Answer(r) ==
    /\ pc' = [pc EXCEPT ![r] = "idle"]
    /\ name' = [name EXCEPT ![r] = None]
    /\ def' = [def EXCEPT ![r] = None]
    /\ due' = [due EXCEPT ![r] = 0]
    /\ kind' = [kind EXCEPT ![r] = None]
    /\ live' = [live EXCEPT ![r] = TRUE]

\* No client can be built, or the cluster refuses the write: the request fails.
WriteFails(r) ==
    /\ pc[r] \in {"topic", "delete"} \cup DOMAIN AfterWrite
    /\ Answer(r)
    /\ UNCHANGED <<disk, defs, clients, states, cancels, booted, at, meta, data,
                   applyVars, envVars, tainted>>

\* The Lookup both refreshes begin with; it fails when the cluster was removed
\* in the meantime, and the request ends.
LookupOrEnd(r, next) ==
    /\ IF defs[name[r]] # None
         THEN /\ def' = [def EXCEPT ![r] = defs[name[r]]]
              /\ pc' = [pc EXCEPT ![r] = next]
              /\ UNCHANGED <<name, due, kind, live>>
         ELSE Answer(r)
    /\ UNCHANGED <<disk, defs, clients, states, cancels, booted, at, meta, data,
                   applyVars, envVars, tainted>>

\* StateCache.Refresh: Lookup, then Invalidate, then refreshOne.
Refresh(r) == pc[r] = "refresh" /\ LookupOrEnd(r, "invalidate")

\* StateCache.RefreshWithoutInvalidate: Lookup, then refreshOne.
RefreshWithoutInvalidate(r) == pc[r] = "nudge" /\ LookupOrEnd(r, "looked")

RefreshInvalidate(r) ==
    /\ pc[r] = "invalidate"
    /\ pc' = [pc EXCEPT ![r] = "looked"]
    /\ Invalidate(name[r])
    /\ UNCHANGED <<disk, defs, states, cancels, booted, fetchVars, applyVars,
                   envVars>>

\* The HTTP client goes away while its refresh is under way.
CancelRequest(r) ==
    /\ pc[r] # "idle" /\ live[r]
    /\ live' = [live EXCEPT ![r] = FALSE]
    /\ UNCHANGED <<disk, defs, clients, states, cancels, booted, pc, name, def,
                   at, meta, data, due, kind, applyVars, envVars, tainted>>

----------------------------------------------------------------------------
(* refreshOne and FetchState *)

\* Where clientFor is called: by a write, at the start of FetchState, and
\* once more at its end, by the BrokerConfigs it reads.
AfterClient == [topic |-> "create", delete |-> "purge", looked |-> "client",
                listed |-> "fetched"]

\* clientFor: whatever client is pooled under the name is reused; only an
\* absent one is built from the Definition the task carries.
ClientFor(t) ==
    /\ pc[t] \in DOMAIN AfterClient
    /\ clients' = [clients EXCEPT ![name[t]] =
                     IF @ = None THEN def[t].conn ELSE @]
    /\ pc' = [pc EXCEPT ![t] = AfterClient[@]]
    /\ UNCHANGED <<disk, defs, states, cancels, booted, fetchVars, applyVars,
                   envVars, tainted>>

\* The broker answers the Metadata call ...
MetadataAnswer(t) ==
    /\ pc[t] = "client"
    /\ meta' = [meta EXCEPT ![t] = log[name[t]]]
    /\ pc' = [pc EXCEPT ![t] = "answered"]
    /\ UNCHANGED <<disk, defs, clients, states, cancels, booted, name, def, at,
                   data, live, due, kind, applyVars, envVars, tainted>>

\* ... and the task, once it gets to run again, stamps RefreshedAt before it
\* reads anything else from the cluster.
MetadataStamp(t) ==
    /\ pc[t] = "answered"
    /\ clock' = Tick
    /\ at' = [at EXCEPT ![t] = Tick]
    /\ pc' = [pc EXCEPT ![t] = "stamped"]
    /\ UNCHANGED <<disk, defs, clients, states, cancels, booted, name, def,
                   meta, data, live, due, kind, applyVars, log, acked, tainted>>

\* clientFor or Metadata fails: offlineState, stamped now, without any data.
FetchOffline(t) ==
    /\ pc[t] \in {"looked", "client"}
    /\ clock' = Tick
    /\ at' = [at EXCEPT ![t] = Tick]
    /\ meta' = [meta EXCEPT ![t] = None]
    /\ data' = [data EXCEPT ![t] = None]
    /\ pc' = [pc EXCEPT ![t] = "fetched"]
    /\ UNCHANGED <<disk, defs, clients, states, cancels, booted, name, def,
                   live, due, kind, applyVars, log, acked, tainted>>

\* The offsets are listed (a failure leaves them unknown and is not fatal).
ListOffsets(t) ==
    /\ pc[t] = "stamped"
    /\ \E v \in {log[name[t]], None} : data' = [data EXCEPT ![t] = v]
    /\ pc' = [pc EXCEPT ![t] = "listed"]
    /\ UNCHANGED <<disk, defs, clients, states, cancels, booted, name, def, at,
                   meta, live, due, kind, applyVars, envVars, tainted>>

\* The Metadata answer named no broker, or BrokerConfigs got no client: the
\* defaults stay.
SkipBrokerConfigs(t) ==
    /\ pc[t] = "listed"
    /\ pc' = [pc EXCEPT ![t] = "fetched"]
    /\ UNCHANGED <<disk, defs, clients, states, cancels, booted, fetchVars,
                   applyVars, envVars, tainted>>

\* Fault: the context is not checked again under the lock.
BugWriteWhenCancelled(t) ==
    IF states[name[t]] = None \/ states[name[t]].at <= at[t]
      THEN [states EXCEPT ![name[t]] =
              [def |-> def[t], at |-> at[t], meta |-> meta[t], data |-> data[t]]]
      ELSE states

\* Fault: the last writer wins.
BugLastWriterWins(t) ==
    IF live[t]
      THEN [states EXCEPT ![name[t]] =
              [def |-> def[t], at |-> at[t], meta |-> meta[t], data |-> data[t]]]
      ELSE states

\* The critical section of refreshOne: a cancelled ctx writes nothing, an older
\* RefreshedAt never replaces a newer one.
StoreState(t) ==
    IF /\ live[t]
       /\ states[name[t]] = None \/ states[name[t]].at <= at[t]
      THEN [states EXCEPT ![name[t]] =
              [def |-> def[t], at |-> at[t], meta |-> meta[t], data |-> data[t]]]
      ELSE states

\* The RuntimeState of a refresh goes out of scope.
Forget(t) ==
    /\ at' = [at EXCEPT ![t] = 0]
    /\ meta' = [meta EXCEPT ![t] = None]
    /\ data' = [data EXCEPT ![t] = None]

ScrapeStore(t) ==
    /\ pc[t] = "fetched"
    /\ states' = StoreState(t)
    /\ pc' = [pc EXCEPT ![t] = "wait"]
    /\ def' = [def EXCEPT ![t] = None]
    /\ Forget(t)
    /\ UNCHANGED <<disk, defs, clients, cancels, booted, name, live, due, kind,
                   applyVars, envVars, tainted>>

\* The same for a request, which then answers its caller; a write whose refresh
\* succeeded is one the caller expects to see from now on.
RequestStore(r) ==
    /\ pc[r] = "fetched"
    /\ states' = StoreState(r)
    /\ acked' =
         IF /\ live[r] /\ meta[r] # None /\ kind[r] # None
            /\ due[r] > acked[kind[r]][name[r]]
           THEN [acked EXCEPT ![kind[r]][name[r]] = due[r]] ELSE acked
    /\ Answer(r)
    /\ Forget(r)
    /\ UNCHANGED <<disk, defs, clients, cancels, booted, applyVars, clock, log,
                   tainted>>

----------------------------------------------------------------------------
(* Reloader.Apply *)

ApplyLock(a, cfg) ==
    /\ booted /\ applyPc[a] = "idle" /\ applyMu = None
    /\ applyMu' = a
    /\ applyPc' = [applyPc EXCEPT ![a] = "save"]
    /\ snap' = [snap EXCEPT ![a] = cfg]
    /\ UNCHANGED <<disk, defs, clients, states, cancels, booted, pc, fetchVars,
                   todo, envVars, tainted>>

\* applyMu is released and the request answers.
Unlock(a) ==
    /\ applyMu' = None
    /\ applyPc' = [applyPc EXCEPT ![a] = "idle"]
    /\ snap' = [snap EXCEPT ![a] = None]

ApplySave(a) ==
    /\ applyPc[a] = "save"
    /\ disk' = snap[a]
    /\ applyPc' = [applyPc EXCEPT ![a] = "replace"]
    /\ UNCHANGED <<defs, clients, states, cancels, booted, pc, fetchVars,
                   applyMu, snap, todo, envVars, tainted>>

\* Fault: the error of store.Save is ignored.
BugSaveErrorIgnored(a) ==
    /\ applyPc[a] = "save"
    /\ applyPc' = [applyPc EXCEPT ![a] = "replace"]
    /\ UNCHANGED <<disk, defs, clients, states, cancels, booted, pc, fetchVars,
                   applyMu, snap, todo, envVars, tainted>>

\* store.Save fails (it is atomic): nothing has changed at run time.
ApplySaveFails(a) ==
    /\ applyPc[a] = "save"
    /\ Unlock(a)
    /\ UNCHANGED <<disk, defs, clients, states, cancels, booted, pc, fetchVars,
                   todo, envVars, tainted>>

\* The stale set is computed against the old definitions, then they are swapped.
ApplyReplace(a) ==
    /\ applyPc[a] = "replace"
    /\ todo' = [todo EXCEPT ![a] = ChangedOrRemoved(defs, snap[a])]
    /\ defs' = snap[a]
    /\ tainted' = tainted \cup
         {n \in Clusters : \E t \in Tasks : Outdated(t, n, snap[a])}
    /\ applyPc' = [applyPc EXCEPT ![a] = "invalidate"]
    /\ UNCHANGED <<disk, clients, states, cancels, booted, pc, fetchVars,
                   applyMu, snap, envVars>>

ApplyInvalidate(a) ==
    /\ applyPc[a] = "invalidate"
    /\ \/ \E n \in todo[a] :
            /\ Invalidate(n)
            /\ todo' = [todo EXCEPT ![a] = @ \ {n}]
            /\ UNCHANGED applyPc
       \/ /\ todo[a] = {}
          /\ applyPc' = [applyPc EXCEPT ![a] = "align"]
          /\ UNCHANGED <<clients, todo, tainted>>
    /\ UNCHANGED <<disk, defs, states, cancels, booted, pc, fetchVars, applyMu,
                   snap, envVars>>

\* Fault: a removed goroutine is forgotten but not cancelled.
BugNoCancel(a) ==
    /\ applyPc[a] = "align"
    /\ LET gone == {n \in Clusters : cancels[n] # None /\ defs[n] = None}
       IN  /\ cancels' = [n \in Clusters |->
                            IF n \in gone THEN None ELSE cancels[n]]
           /\ live' = live
           /\ states' = [n \in Clusters |->
                           IF n \in gone THEN None
                           ELSE IF states[n] # None /\ defs[n] # None
                                THEN [states[n] EXCEPT !.def = defs[n]]
                                ELSE states[n]]
    /\ todo' = [todo EXCEPT ![a] = {n \in Configured(defs) : cancels[n] = None}]
    /\ applyPc' = [applyPc EXCEPT ![a] = "launch"]
    /\ UNCHANGED <<disk, defs, clients, booted, pc, name, def, at, meta, data,
                   due, kind, applyMu, snap, envVars, tainted>>

\* Fault: the entries of removed clusters are rewritten instead of dropped.
BugEntriesKept(a) ==
    /\ applyPc[a] = "align"
    /\ LET gone == {n \in Clusters : cancels[n] # None /\ defs[n] = None}
       IN  /\ cancels' = [n \in Clusters |->
                            IF n \in gone THEN None ELSE cancels[n]]
           /\ live' = [t \in Tasks |->
                         live[t] /\ ~\E n \in gone : cancels[n] = t]
           /\ states' = [n \in Clusters |->
                           IF states[n] # None
                                THEN [states[n] EXCEPT !.def = defs[n]]
                                ELSE states[n]]
    /\ todo' = [todo EXCEPT ![a] = {n \in Configured(defs) : cancels[n] = None}]
    /\ applyPc' = [applyPc EXCEPT ![a] = "launch"]
    /\ UNCHANGED <<disk, defs, clients, booted, pc, name, def, at, meta, data,
                   due, kind, applyMu, snap, envVars, tainted>>

\* StateCache.Reload under mu: goroutines of removed clusters are cancelled and
\* their entries dropped; entries that stay take over the new Definition.  The
\* definitions read just before are still current: only the holder of applyMu
\* replaces them.  What was known of a dropped entry is forgotten with it.
ReloadAlign(a) ==
    /\ applyPc[a] = "align"
    /\ LET gone == {n \in Clusters : cancels[n] # None /\ defs[n] = None}
       IN  /\ cancels' = [n \in Clusters |->
                            IF n \in gone THEN None ELSE cancels[n]]
           /\ live' = [t \in Tasks |->
                         live[t] /\ ~\E n \in gone : cancels[n] = t]
           /\ states' = [n \in Clusters |->
                           IF n \in gone THEN None
                           ELSE IF states[n] # None /\ defs[n] # None
                                THEN [states[n] EXCEPT !.def = defs[n]]
                                ELSE states[n]]
           /\ acked' = [k \in Kinds |->
                          [n \in Clusters |->
                             IF n \in gone THEN 0 ELSE acked[k][n]]]
    /\ todo' = [todo EXCEPT ![a] = {n \in Configured(defs) : cancels[n] = None}]
    /\ applyPc' = [applyPc EXCEPT ![a] = "launch"]
    /\ UNCHANGED <<disk, defs, clients, booted, pc, name, def, at, meta, data,
                   due, kind, applyMu, snap, clock, log, tainted>>

\* Reload launches what it found missing, one lock acquisition per name.
ReloadLaunch(a) ==
    /\ applyPc[a] = "launch"
    /\ \E n \in todo[a] :
         /\ Launch(n)
         /\ todo' = [todo EXCEPT ![a] = @ \ {n}]
    /\ UNCHANGED <<disk, defs, clients, states, booted, def, at, meta, data, due,
                   kind, applyMu, applyPc, snap, envVars, tainted>>

\* Fault: Apply returns before the added clusters are launched.
BugDoneEarly(a) ==
    /\ applyPc[a] = "launch"
    /\ Unlock(a)
    /\ todo' = [todo EXCEPT ![a] = {}]
    /\ UNCHANGED <<disk, defs, clients, states, cancels, booted, pc, fetchVars,
                   envVars, tainted>>

ApplyDone(a) ==
    /\ applyPc[a] = "launch" /\ todo[a] = {}
    /\ Unlock(a)
    /\ UNCHANGED <<disk, defs, clients, states, cancels, booted, pc, fetchVars,
                   todo, envVars, tainted>>

----------------------------------------------------------------------------
Fetch(t) ==
    \/ ClientFor(t) \/ MetadataAnswer(t) \/ MetadataStamp(t)
    \/ FetchOffline(t) \/ ListOffsets(t) \/ SkipBrokerConfigs(t)

ScraperStep(t) ==
    ScrapeNow(t) \/ ScrapeTick(t) \/ ScrapeExit(t) \/ Fetch(t) \/ ScrapeStore(t)

RequestStep(r) ==
    \/ Write(r) \/ WriteFails(r)
    \/ Refresh(r) \/ RefreshInvalidate(r) \/ RefreshWithoutInvalidate(r)
    \/ Fetch(r) \/ RequestStore(r)

ApplyStep(a) ==
    \/ ApplySave(a) \/ ApplySaveFails(a) \/ ApplyReplace(a) \/ ApplyInvalidate(a)
    \/ ReloadAlign(a) \/ ReloadLaunch(a) \/ ApplyDone(a)

Next ==
    \/ Start
    \/ \E t \in Scrapers : ScraperStep(t)
    \/ \E r \in Requests :
         \/ \E n \in Clusters :
              \/ RequestRefresh(r, n)
              \/ WriteTopic(r, n) \/ Delete(r, n) \/ Send(r, n)
         \/ RequestStep(r) \/ CancelRequest(r)
    \/ \E a \in Appliers :
         \/ \E cfg \in Configs : ApplyLock(a, cfg)
         \/ ApplyStep(a)

Spec == Init /\ [][Next]_vars

\* Goroutines run, requests and applies that began are carried through; nobody
\* has to send a request, cancel one or submit a configuration.
Fairness ==
    /\ WF_vars(Start)
    /\ \A t \in Scrapers : WF_vars(ScraperStep(t))
    /\ \A r \in Requests : WF_vars(RequestStep(r))
    /\ \A a \in Appliers : WF_vars(ApplyStep(a))

FairSpec == Spec /\ Fairness

----------------------------------------------------------------------------
(* Properties *)

\* Every variable holds what the code's types and the model's bounds allow.
TypeOK ==
    /\ disk \in Configs /\ defs \in Configs
    /\ clients \in [Clusters -> Conns \cup {None}]
    /\ states \in [Clusters -> RuntimeStates \cup {None}]
    /\ cancels \in [Clusters -> Scrapers \cup {None}]
    /\ booted \in BOOLEAN
    /\ pc \in [Tasks -> TaskPcs]
    /\ name \in [Tasks -> Clusters \cup {None}]
    /\ def \in [Tasks -> Definitions \cup {None}]
    /\ at \in [Tasks -> 0..MaxClock]
    /\ meta \in [Tasks -> Seen] /\ data \in [Tasks -> Seen]
    /\ live \in [Tasks -> BOOLEAN]
    /\ due \in [Tasks -> 0..MaxWrites]
    /\ kind \in [Tasks -> Kinds \cup {None}]
    /\ applyMu \in Appliers \cup {None}
    /\ applyPc \in [Appliers -> ApplyPcs]
    /\ snap \in [Appliers -> Configs \cup {None}]
    /\ todo \in [Appliers -> SUBSET Clusters]
    /\ clock \in 0..MaxClock
    /\ log \in [Clusters -> 0..MaxWrites]
    /\ acked \in [Kinds -> [Clusters -> 0..MaxWrites]]
    /\ tainted \in SUBSET Clusters

\* A scrape goroutine whose context is live can always be stopped: it is the
\* one registered in cancels for its cluster.  Overlapping reloads that launch
\* the same cluster twice would leave one that nothing can cancel, and scrape
\* the cluster twice (launch, state.go).
NoLeakedScraper ==
    \A t \in Scrapers : pc[t] # "free" /\ live[t] => cancels[name[t]] = t

\* Whenever no reload is under way, exactly the configured clusters are being
\* scraped, whatever sequence of reloads led here (StateCache.Reload).
ScrapeSetAligned ==
    booted /\ applyMu = None =>
        \A n \in Clusters : cancels[n] # None <=> defs[n] # None

\* Disk and runtime never diverge: whenever no apply is under way, the saved
\* configuration is the running one, failed saves included (Reloader.Apply).
DiskMatchesRuntime == applyMu = None => disk = defs

\* Whenever no reload is under way, a pooled client that was not built from the
\* current connection of its cluster was put there by a task that had looked
\* its Definition up before a reload changed it, and no invalidation has
\* cleaned up after that task yet (applyLocked, Pool.Invalidate).
StaleClientOnlyIfTainted ==
    applyMu = None =>
        \A n \in Clusters \ tainted :
            clients[n] # None => defs[n] # None /\ clients[n] = defs[n].conn

\* The pooled client of a cluster is built from its current connection whenever
\* no reload is under way: what Reloader.Apply's comment promises.
PooledClientCurrent ==
    applyMu = None =>
        \A n \in Clusters :
            clients[n] # None => defs[n] # None /\ clients[n] = defs[n].conn

\* Whenever no reload is under way, no removed cluster has an entry in the
\* cache: a scrape that was in flight when its cluster was removed does not
\* bring it back (refreshOne, StateCache.Reload).
NoGhostState ==
    applyMu = None => \A n \in Clusters : states[n] # None => defs[n] # None

\* Old data never replaces new data: while a cluster stays in the cache, the
\* RefreshedAt of its entry never goes back, whichever scrapes and refreshes
\* overlap (refreshOne).
FreshnessNeverRegresses ==
    [][\A n \in Clusters :
         states[n] # None /\ states'[n] # None
            => states'[n].at >= states[n].at]_states

\* Read your writes, for message counts: once the refresh that follows a write
\* has succeeded, no cached offsets are older than that write, even when a
\* slower background scrape finishes later (MessageService.refreshAfterWrite).
\* Removing the cluster drops its entry and ends the promise: a refresh in
\* flight may bring older offsets back.
OffsetsReadYourWrites ==
    \A n \in Clusters :
        states[n] # None /\ states[n].data # None
            => states[n].data >= acked["record"][n]

\* Read your writes, for topics: once the refresh that follows a topic write has
\* succeeded, the cached topics include it (TopicService.refreshAfterWrite).
TopicsReadYourWrites ==
    \A n \in Clusters :
        states[n] # None /\ states[n].meta # None
            => states[n].meta >= acked["topic"][n]

\* A changed Definition reaches the cache: once the configuration of a cluster
\* stops changing, the cache ends up serving, and keeps serving, a state with
\* that very Definition (Reload's comment: the goroutine picks it up on its
\* next tick).
DefinitionConverges ==
    \A n \in Clusters, d \in Definitions :
        <>[](applyMu = None /\ defs[n] = d)
            => <>[](states[n] # None /\ states[n].def = d)

=============================================================================
