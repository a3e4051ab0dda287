------------------------ MODULE ClusterReloadProofs ------------------------
(***************************************************************************)
(* The safety properties of the cluster runtime for any number of          *)
(* clusters, goroutines, requests and concurrent reloads.  The invariant   *)
(* comes in layers, each proved inductive on top of the ones before:       *)
(* types, the apply lock and disk, the registered goroutines, the scrape   *)
(* set, the pooled clients, and what every stamp and every stored listing  *)
(* promises to the writes that came before it.                             *)
(***************************************************************************)
EXTENDS ClusterReload, TLAPS

Fetching == {"looked", "client", "answered", "stamped", "listed", "fetched"}
Writing == {"topic", "create", "delete", "purge", "produce"}

\* A task that works for a cluster has its name, and the Definition it looked
\* up for as long as it needs it; scrapers and requests keep to their own steps.
TaskOK ==
    \A t \in Tasks :
        /\ t \in Scrapers => pc[t] \in {"free", "scrape", "wait"} \cup Fetching
        /\ t \in Requests => pc[t] \notin {"free", "scrape", "wait"}
        /\ pc[t] \notin {"free", "idle"} => name[t] \in Clusters
        /\ pc[t] \in Fetching \cup Writing \cup {"invalidate"}
             => def[t] \in Definitions

\* Whoever is inside Apply holds applyMu and carries a configuration.
LockOK ==
    \A a \in Appliers : applyPc[a] # "idle" => applyMu = a /\ snap[a] \in Configs

\* The first layer.
Types == TypeOK /\ TaskOK /\ LockOK

\* A RuntimeState built by a task is a value of the cache's type.
LEMMA StoredType ==
    ASSUME Types, NEW t \in Tasks, pc[t] = "fetched"
    PROVE  StoreState(t) \in [Clusters -> RuntimeStates \cup {None}]
<1>1. /\ def[t] \in Definitions /\ at[t] \in 0..MaxClock /\ meta[t] \in Seen
      /\ data[t] \in Seen /\ name[t] \in Clusters
  BY DEF Types, TypeOK, TaskOK, Fetching
<1>2. [def |-> def[t], at |-> at[t], meta |-> meta[t], data |-> data[t]]
        \in RuntimeStates
  BY <1>1 DEF RuntimeStates
<1> QED
  BY <1>1, <1>2 DEF StoreState, Types, TypeOK

\* Tick stays within the clock's bound.
LEMMA TickType == ASSUME Types PROVE Tick \in 0..MaxClock
BY BoundAssumption DEF Types, TypeOK, Tick

\* What a finished refresh leaves behind.
LEMMA ForgetTypes ==
    ASSUME TypeOK, NEW t \in Tasks, Forget(t)
    PROVE  /\ at' \in [Tasks -> 0..MaxClock]
           /\ meta' \in [Tasks -> Seen] /\ data' \in [Tasks -> Seen]
<1>1. 0 \in 0..MaxClock /\ None \in Seen
  BY BoundAssumption DEF Seen
<1> QED
  BY <1>1 DEF Forget, TypeOK

\* What an answered request leaves behind.
LEMMA AnswerTypes ==
    ASSUME TypeOK, NEW r \in Requests, Answer(r)
    PROVE  /\ pc' \in [Tasks -> TaskPcs]
           /\ name' \in [Tasks -> Clusters \cup {None}]
           /\ def' \in [Tasks -> Definitions \cup {None}]
           /\ due' \in [Tasks -> 0..MaxWrites]
           /\ kind' \in [Tasks -> Kinds \cup {None}]
           /\ live' \in [Tasks -> BOOLEAN]
<1>1. 0 \in 0..MaxWrites /\ "idle" \in TaskPcs
  BY BoundAssumption DEF TaskPcs
<1> QED
  BY <1>1 DEF Answer, TypeOK

\* An answered request is idle, carries nothing and is not cancelled.
LEMMA AnswerTask ==
    ASSUME TypeOK, TaskOK, NEW r \in Requests, Answer(r) PROVE TaskOK'
BY TaskAssumption DEF Answer, TypeOK, TaskOK, Tasks, Fetching, Writing

\* The initial state has the types, tasks and locks in order.
LEMMA InitTypes == Init => Types
<1> SUFFICES ASSUME Init PROVE Types
  OBVIOUS
<1>a. 0 \in 0..MaxClock /\ 0 \in 0..MaxWrites
  BY BoundAssumption
<1>b. /\ disk \in Configs /\ defs \in Configs
      /\ clients \in [Clusters -> Conns \cup {None}]
      /\ states \in [Clusters -> RuntimeStates \cup {None}]
      /\ cancels \in [Clusters -> Scrapers \cup {None}]
      /\ booted \in BOOLEAN
      /\ pc \in [Tasks -> TaskPcs]
  BY DEF Init, TaskPcs
<1>c. /\ name \in [Tasks -> Clusters \cup {None}]
      /\ def \in [Tasks -> Definitions \cup {None}]
      /\ at \in [Tasks -> 0..MaxClock]
      /\ meta \in [Tasks -> Seen] /\ data \in [Tasks -> Seen]
      /\ due \in [Tasks -> 0..MaxWrites]
      /\ kind \in [Tasks -> Kinds \cup {None}]
  BY <1>a DEF Init, Seen
<1>d. live \in [Tasks -> BOOLEAN]
  BY DEF Init
<1>e. /\ applyMu \in Appliers \cup {None}
      /\ applyPc \in [Appliers -> ApplyPcs]
      /\ snap \in [Appliers -> Configs \cup {None}]
      /\ todo \in [Appliers -> SUBSET Clusters]
      /\ clock \in 0..MaxClock
      /\ log \in [Clusters -> 0..MaxWrites]
      /\ acked \in [Kinds -> [Clusters -> 0..MaxWrites]]
      /\ tainted \in SUBSET Clusters
  BY <1>a DEF Init, ApplyPcs
<1>1. TypeOK
  BY <1>b, <1>c, <1>d, <1>e DEF TypeOK
<1>2. TaskOK /\ LockOK
  BY TaskAssumption DEF Init, TaskOK, LockOK, Tasks, Fetching, Writing
<1> QED
  BY <1>1, <1>2 DEF Types

\* StateCache.Start.
LEMMA StartTypes == ASSUME Types, Start PROVE Types'
<1> USE DEF Types
<1>1. PICK f \in [Configured(defs) -> Scrapers] :
        /\ cancels' = [n \in Clusters |->
                         IF n \in Configured(defs) THEN f[n] ELSE None]
        /\ pc' = [t \in Tasks |->
                    IF \E n \in Configured(defs) : f[n] = t
                      THEN "scrape" ELSE pc[t]]
        /\ name' = [t \in Tasks |->
                      IF \E n \in Configured(defs) : f[n] = t
                        THEN CHOOSE n \in Configured(defs) : f[n] = t
                        ELSE name[t]]
  BY DEF Start
<1>2. Configured(defs) \subseteq Clusters
  BY DEF Configured
<1>3. ASSUME NEW t \in Tasks, \E n \in Configured(defs) : f[n] = t
      PROVE  t \in Scrapers /\ name'[t] \in Clusters /\ pc'[t] = "scrape"
  BY <1>1, <1>2, <1>3
<1>4. ASSUME NEW t \in Tasks, ~\E n \in Configured(defs) : f[n] = t
      PROVE  name'[t] = name[t] /\ pc'[t] = pc[t]
  BY <1>1, <1>4
<1>5. name' \in [Tasks -> Clusters \cup {None}] /\ pc' \in [Tasks -> TaskPcs]
  BY <1>1, <1>3, <1>4 DEF TypeOK, TaskPcs
<1>6. TypeOK'
  BY <1>1, <1>2, <1>5 DEF Start, TypeOK, applyVars, envVars
<1>7. TaskOK'
  BY <1>3, <1>4, TaskAssumption
  DEF Start, TaskOK, Fetching, Writing, Tasks
<1>8. LockOK'
  BY DEF Start, LockOK, applyVars
<1> QED
  BY <1>6, <1>7, <1>8

\* The steps of a scrape goroutine outside refreshOne.
LEMMA ScrapeTypes ==
    ASSUME Types, NEW t \in Scrapers,
           ScrapeNow(t) \/ ScrapeTick(t) \/ ScrapeExit(t) \/ ScrapeStore(t)
    PROVE  Types'
<1> USE DEF Types
<1>0. t \in Tasks
  BY DEF Tasks
<1>1. CASE ScrapeNow(t)
  <2>a. def' \in [Tasks -> Definitions \cup {None}] /\ pc' \in [Tasks -> TaskPcs]
    <3>1. name[t] \in Clusters
      BY <1>0, <1>1, TaskAssumption DEF ScrapeNow, TaskOK
    <3>2. defs[name[t]] \in Definitions \cup {None}
      BY <3>1 DEF TypeOK, Configs
    <3>3. /\ def' = [def EXCEPT ![t] = defs[name[t]]] \/ def' = def
          /\ pc' = [pc EXCEPT ![t] = "looked"] \/ pc' = [pc EXCEPT ![t] = "wait"]
      BY <1>1 DEF ScrapeNow
    <3> QED BY <3>2, <3>3 DEF TypeOK, TaskPcs
  <2>1. TypeOK'
    BY <1>1, <2>a DEF ScrapeNow, TypeOK, applyVars, envVars
  <2>2. TaskOK' /\ LockOK'
    BY <1>0, <1>1, TaskAssumption
    DEF ScrapeNow, TypeOK, TaskOK, LockOK, Configs, Fetching, Writing, applyVars
  <2> QED BY <2>1, <2>2
<1>2. CASE ScrapeTick(t) \/ ScrapeExit(t)
  <2>1. TypeOK'
    BY <1>0, <1>2
    DEF ScrapeTick, ScrapeExit, TypeOK, TaskPcs, fetchVars, applyVars, envVars
  <2>2. TaskOK' /\ LockOK'
    BY <1>0, <1>2, TaskAssumption
    DEF ScrapeTick, ScrapeExit, TypeOK, TaskOK, LockOK, Fetching, Writing,
        fetchVars, applyVars
  <2> QED BY <2>1, <2>2
<1>3. CASE ScrapeStore(t)
  <2>a. states' \in [Clusters -> RuntimeStates \cup {None}]
    BY <1>0, <1>3, StoredType DEF ScrapeStore
  <2>b. pc' \in [Tasks -> TaskPcs] /\ def' \in [Tasks -> Definitions \cup {None}]
    BY <1>3 DEF ScrapeStore, TypeOK, TaskPcs
  <2>1. TypeOK'
    BY <1>0, <1>3, <2>a, <2>b, ForgetTypes
    DEF ScrapeStore, TypeOK, applyVars, envVars
  <2>2. TaskOK' /\ LockOK'
    BY <1>0, <1>3, TaskAssumption
    DEF ScrapeStore, TypeOK, TaskOK, LockOK, Fetching, Writing, applyVars
  <2> QED BY <2>1, <2>2
<1> QED
  BY <1>1, <1>2, <1>3

\* The steps of FetchState.
LEMMA FetchTypes == ASSUME Types, NEW t \in Tasks, Fetch(t) PROVE Types'
<1> USE DEF Types
<1>1. CASE ClientFor(t)
  <2>1. def[t] \in Definitions /\ def[t].conn \in Conns /\ name[t] \in Clusters
    BY <1>1 DEF ClientFor, AfterClient, TaskOK, Fetching, Writing, Conns
  <2>2. AfterClient[pc[t]] \in TaskPcs
    BY <1>1 DEF ClientFor, AfterClient, TaskPcs
  <2>3. TypeOK'
    BY <1>1, <2>1, <2>2 DEF ClientFor, TypeOK, fetchVars, applyVars, envVars
  <2>4. AfterClient[pc[t]] \in Fetching \cup {"create", "purge"}
    BY <1>1 DEF ClientFor, AfterClient, Fetching
  <2>5. t \in Scrapers => AfterClient[pc[t]] \in Fetching
    BY <1>1 DEF ClientFor, AfterClient, Fetching, TaskOK
  <2>6. TaskOK'
    BY <1>1, <2>1, <2>4, <2>5
    DEF ClientFor, TypeOK, TaskOK, Fetching, Writing, fetchVars
  <2>7. LockOK'
    BY <1>1 DEF ClientFor, LockOK, applyVars
  <2> QED BY <2>3, <2>6, <2>7
<1>2. CASE MetadataAnswer(t)
  <2>1. TypeOK'
    BY <1>2 DEF MetadataAnswer, TypeOK, TaskOK, TaskPcs, Seen, applyVars, envVars
  <2>2. TaskOK' /\ LockOK'
    BY <1>2 DEF MetadataAnswer, TypeOK, TaskOK, LockOK, Fetching, Writing, applyVars
  <2> QED BY <2>1, <2>2
<1>3. CASE MetadataStamp(t)
  <2>1. TypeOK'
    BY <1>3, TickType DEF MetadataStamp, TypeOK, TaskPcs, applyVars
  <2>2. TaskOK' /\ LockOK'
    BY <1>3 DEF MetadataStamp, TypeOK, TaskOK, LockOK, Fetching, Writing, applyVars
  <2> QED BY <2>1, <2>2
<1>4. CASE FetchOffline(t)
  <2>1. TypeOK'
    BY <1>4, TickType DEF FetchOffline, TypeOK, TaskPcs, Seen, applyVars
  <2>2. TaskOK' /\ LockOK'
    BY <1>4 DEF FetchOffline, TypeOK, TaskOK, LockOK, Fetching, Writing, applyVars
  <2> QED BY <2>1, <2>2
<1>5. CASE ListOffsets(t)
  <2>1. TypeOK'
    BY <1>5 DEF ListOffsets, TypeOK, TaskOK, TaskPcs, Seen, applyVars, envVars
  <2>2. TaskOK' /\ LockOK'
    BY <1>5 DEF ListOffsets, TypeOK, TaskOK, LockOK, Fetching, Writing, applyVars
  <2> QED BY <2>1, <2>2
<1>6. CASE SkipBrokerConfigs(t)
  <2>1. TypeOK'
    BY <1>6 DEF SkipBrokerConfigs, TypeOK, TaskPcs, fetchVars, applyVars, envVars
  <2>2. TaskOK' /\ LockOK'
    BY <1>6 DEF SkipBrokerConfigs, TypeOK, TaskOK, LockOK, Fetching, Writing,
                fetchVars, applyVars
  <2> QED BY <2>1, <2>2
<1> QED
  BY <1>1, <1>2, <1>3, <1>4, <1>5, <1>6 DEF Fetch

\* The steps of a request outside FetchState.
LEMMA RequestTypes ==
    ASSUME Types, NEW r \in Requests,
           \/ \E n \in Clusters :
                \/ RequestRefresh(r, n)
                \/ WriteTopic(r, n) \/ Delete(r, n) \/ Send(r, n)
           \/ Write(r) \/ WriteFails(r) \/ CancelRequest(r)
           \/ Refresh(r) \/ RefreshInvalidate(r) \/ RefreshWithoutInvalidate(r)
           \/ RequestStore(r)
    PROVE  Types'
<1> USE DEF Types
<1>0. r \in Tasks /\ r \notin Scrapers
  BY TaskAssumption DEF Tasks
<1>1. ASSUME NEW n \in Clusters, RequestRefresh(r, n) PROVE Types'
  <2>1. TypeOK'
    BY <1>0, <1>1 DEF RequestRefresh, TypeOK, TaskPcs, applyVars, envVars
  <2>2. TaskOK' /\ LockOK'
    BY <1>0, <1>1
    DEF RequestRefresh, TypeOK, TaskOK, LockOK, Fetching, Writing, applyVars
  <2> QED BY <2>1, <2>2
<1>2. ASSUME NEW n \in Clusters, NEW k \in Kinds, NEW next \in Writing,
             BeginWrite(r, n, k, next)
      PROVE  Types'
  <2>1. defs[n] \in Definitions
    BY <1>2 DEF BeginWrite, TypeOK, Configs
  <2>2. /\ name' \in [Tasks -> Clusters \cup {None}]
        /\ def' \in [Tasks -> Definitions \cup {None}]
        /\ kind' \in [Tasks -> Kinds \cup {None}]
        /\ pc' \in [Tasks -> TaskPcs]
    BY <1>2, <2>1 DEF BeginWrite, TypeOK, Writing, TaskPcs
  <2>3. TypeOK'
    BY <1>2, <2>2 DEF BeginWrite, TypeOK, applyVars, envVars
  <2>4. TaskOK' /\ LockOK'
    BY <1>0, <1>2, <2>1
    DEF BeginWrite, TypeOK, TaskOK, LockOK, Fetching, Writing, applyVars
  <2> QED BY <2>3, <2>4
<1>3. CASE Write(r)
  <2>1. pc[r] \in {"create", "purge", "produce"} /\ name[r] \in Clusters
    BY <1>0, <1>3 DEF Write, AfterWrite, TaskOK
  <2>2. AfterWrite[pc[r]] \in {"refresh", "nudge"}
    BY <2>1 DEF AfterWrite
  <2>3. log[name[r]] + 1 \in 0..MaxWrites
    BY <1>3, <2>1, BoundAssumption DEF Write, TypeOK
  <2>4. /\ log' \in [Clusters -> 0..MaxWrites]
        /\ due' \in [Tasks -> 0..MaxWrites]
        /\ def' \in [Tasks -> Definitions \cup {None}]
        /\ pc' \in [Tasks -> TaskPcs]
    BY <1>3, <2>2, <2>3 DEF Write, TypeOK, TaskPcs
  <2>5. TypeOK'
    BY <1>3, <2>4 DEF Write, TypeOK, applyVars
  <2>6. TaskOK' /\ LockOK'
    BY <1>0, <1>3, <2>1, <2>2
    DEF Write, TypeOK, TaskOK, LockOK, Fetching, Writing, applyVars
  <2> QED BY <2>5, <2>6
<1>4. CASE WriteFails(r)
  <2>1. TypeOK'
    BY <1>4, AnswerTypes DEF WriteFails, TypeOK, applyVars, envVars
  <2>2. TaskOK' /\ LockOK'
    BY <1>4, AnswerTask DEF WriteFails, LockOK, applyVars
  <2> QED BY <2>1, <2>2
<1>5. CASE CancelRequest(r)
  <2>1. TypeOK'
    BY <1>5 DEF CancelRequest, TypeOK, applyVars, envVars
  <2>2. TaskOK' /\ LockOK'
    BY <1>5 DEF CancelRequest, TaskOK, LockOK, applyVars
  <2> QED BY <2>1, <2>2
<1>6. ASSUME NEW next \in {"invalidate", "looked"}, name[r] \in Clusters,
             LookupOrEnd(r, next)
      PROVE  Types'
  <2>1. CASE defs[name[r]] # None
    <3>1. defs[name[r]] \in Definitions
      BY <1>6, <2>1 DEF TypeOK, Configs
    <3>2. def' \in [Tasks -> Definitions \cup {None}] /\ pc' \in [Tasks -> TaskPcs]
      BY <1>6, <2>1, <3>1 DEF LookupOrEnd, TypeOK, TaskPcs
    <3>3. TypeOK'
      BY <1>6, <2>1, <3>2 DEF LookupOrEnd, TypeOK, applyVars, envVars
    <3>4. TaskOK' /\ LockOK'
      BY <1>0, <1>6, <2>1, <3>1
      DEF LookupOrEnd, TypeOK, TaskOK, LockOK, Fetching, Writing, applyVars
    <3> QED BY <3>3, <3>4
  <2>2. CASE defs[name[r]] = None
    <3>1. Answer(r)
      BY <1>6, <2>2 DEF LookupOrEnd
    <3>2. TypeOK'
      BY <1>6, <3>1, AnswerTypes DEF LookupOrEnd, TypeOK, applyVars, envVars
    <3>3. TaskOK' /\ LockOK'
      BY <1>6, <3>1, AnswerTask DEF LookupOrEnd, LockOK, applyVars
    <3> QED BY <3>2, <3>3
  <2> QED BY <2>1, <2>2
<1>7. CASE Refresh(r)
  BY <1>0, <1>6, <1>7 DEF Refresh, TaskOK
<1>8. CASE RefreshWithoutInvalidate(r)
  BY <1>0, <1>6, <1>8 DEF RefreshWithoutInvalidate, TaskOK
<1>9. CASE RefreshInvalidate(r)
  <2>1. TypeOK'
    BY <1>9
    DEF RefreshInvalidate, Invalidate, TypeOK, TaskPcs, fetchVars, applyVars, envVars
  <2>2. TaskOK' /\ LockOK'
    BY <1>0, <1>9
    DEF RefreshInvalidate, TypeOK, TaskOK, LockOK, Fetching, Writing, fetchVars,
        applyVars
  <2> QED BY <2>1, <2>2
<1>10. CASE RequestStore(r)
  <2>1. states' \in [Clusters -> RuntimeStates \cup {None}]
    BY <1>0, <1>10, StoredType DEF RequestStore
  <2>2. acked' \in [Kinds -> [Clusters -> 0..MaxWrites]]
    BY <1>0, <1>10 DEF RequestStore, TypeOK, TaskOK
  <2>3. TypeOK'
    BY <1>0, <1>10, <2>1, <2>2, ForgetTypes, AnswerTypes
    DEF RequestStore, TypeOK, applyVars
  <2>4. TaskOK' /\ LockOK'
    BY <1>10, AnswerTask DEF RequestStore, LockOK, applyVars
  <2> QED BY <2>3, <2>4
<1>11. ASSUME NEW n \in Clusters, WriteTopic(r, n) \/ Delete(r, n) \/ Send(r, n)
       PROVE  Types'
  BY <1>2, <1>11 DEF WriteTopic, Delete, Send, Kinds, Writing
<1> QED
  BY <1>1, <1>3, <1>4, <1>5, <1>7, <1>8, <1>9, <1>10, <1>11

\* The steps of Reloader.Apply.
LEMMA ApplyTypes ==
    ASSUME Types, NEW a \in Appliers,
           (\E cfg \in Configs : ApplyLock(a, cfg)) \/ ApplyStep(a)
    PROVE  Types'
<1> USE DEF Types
<1>0. a # None
  BY TaskAssumption
<1>1. ASSUME NEW cfg \in Configs, ApplyLock(a, cfg) PROVE Types'
  <2>1. TypeOK'
    BY <1>1 DEF ApplyLock, TypeOK, ApplyPcs, fetchVars, envVars
  <2>2. TaskOK' /\ LockOK'
    BY <1>0, <1>1, TaskAssumption DEF ApplyLock, TypeOK, TaskOK, LockOK, fetchVars
  <2> QED BY <2>1, <2>2
<1>2. ASSUME applyPc[a] # "idle", Unlock(a), TypeOK', UNCHANGED <<pc, fetchVars>>
      PROVE  Types'
  BY <1>0, <1>2, TaskAssumption DEF Unlock, TypeOK, TaskOK, LockOK, fetchVars
<1>3. CASE ApplySave(a)
  <2>1. TypeOK'
    BY <1>3 DEF ApplySave, TypeOK, LockOK, ApplyPcs, fetchVars, envVars
  <2>2. TaskOK' /\ LockOK'
    BY <1>3 DEF ApplySave, TypeOK, TaskOK, LockOK, fetchVars
  <2> QED BY <2>1, <2>2
<1>4. CASE ApplySaveFails(a)
  <2>1. TypeOK'
    BY <1>4 DEF ApplySaveFails, Unlock, TypeOK, ApplyPcs, fetchVars, envVars
  <2> QED BY <1>2, <1>4, <2>1 DEF ApplySaveFails
<1>5. CASE ApplyReplace(a)
  <2>1. TypeOK'
    BY <1>5
    DEF ApplyReplace, ChangedOrRemoved, Configured, TypeOK, LockOK, ApplyPcs,
        fetchVars, envVars
  <2>2. TaskOK' /\ LockOK'
    BY <1>5 DEF ApplyReplace, TypeOK, TaskOK, LockOK, fetchVars
  <2> QED BY <2>1, <2>2
<1>6. CASE ApplyInvalidate(a)
  <2>1. TypeOK'
    <3>1. /\ clients' \in [Clusters -> Conns \cup {None}]
          /\ tainted' \in SUBSET Clusters
      BY <1>6 DEF ApplyInvalidate, Invalidate, TypeOK
    <3>2. todo' \in [Appliers -> SUBSET Clusters] /\ applyPc' \in [Appliers -> ApplyPcs]
      BY <1>6 DEF ApplyInvalidate, TypeOK, ApplyPcs
    <3> QED BY <1>6, <3>1, <3>2 DEF ApplyInvalidate, TypeOK, fetchVars, envVars
  <2>2. TaskOK' /\ LockOK'
    BY <1>6 DEF ApplyInvalidate, TypeOK, TaskOK, LockOK, fetchVars
  <2> QED BY <2>1, <2>2
<1>7. CASE ReloadAlign(a)
  <2>1. cancels' \in [Clusters -> Scrapers \cup {None}]
    BY <1>7 DEF ReloadAlign, TypeOK
  <2>2. live' \in [Tasks -> BOOLEAN]
    BY <1>7 DEF ReloadAlign
  <2>3. states' \in [Clusters -> RuntimeStates \cup {None}]
    <3>1. ASSUME NEW n \in Clusters PROVE states'[n] \in RuntimeStates \cup {None}
      <4>1. \/ states'[n] = None \/ states'[n] = states[n]
            \/ /\ states[n] # None /\ defs[n] # None
               /\ states'[n] = [states[n] EXCEPT !.def = defs[n]]
        BY <1>7 DEF ReloadAlign
      <4>2. /\ states[n] \in RuntimeStates \cup {None}
            /\ defs[n] \in Definitions \cup {None}
        BY DEF TypeOK, Configs
      <4>3. ASSUME states[n] # None, defs[n] # None
            PROVE  [states[n] EXCEPT !.def = defs[n]] \in RuntimeStates
        BY <4>2, <4>3 DEF RuntimeStates
      <4> QED BY <4>1, <4>2, <4>3
    <3>2. states' = [n \in Clusters |-> states'[n]]
      BY <1>7 DEF ReloadAlign
    <3> QED BY <3>1, <3>2
  <2>4. todo' \in [Appliers -> SUBSET Clusters] /\ applyPc' \in [Appliers -> ApplyPcs]
    BY <1>7 DEF ReloadAlign, TypeOK, Configured, ApplyPcs
  <2>5. acked' \in [Kinds -> [Clusters -> 0..MaxWrites]]
    BY <1>7, BoundAssumption DEF ReloadAlign, TypeOK
  <2>6. TypeOK'
    BY <1>7, <2>1, <2>2, <2>3, <2>4, <2>5 DEF ReloadAlign, TypeOK
  <2>7. TaskOK' /\ LockOK'
    BY <1>7 DEF ReloadAlign, TypeOK, TaskOK, LockOK
  <2> QED BY <2>6, <2>7
<1>8. CASE ReloadLaunch(a)
  <2>1. PICK n \in todo[a] : Launch(n) /\ todo' = [todo EXCEPT ![a] = @ \ {n}]
    BY <1>8 DEF ReloadLaunch
  <2>2. n \in Clusters /\ todo' \in [Appliers -> SUBSET Clusters]
    BY <2>1 DEF TypeOK
  <2>3. CASE UNCHANGED <<cancels, pc, name, live>>
    <3>1. TypeOK'
      BY <1>8, <2>2, <2>3 DEF ReloadLaunch, TypeOK, envVars
    <3>2. TaskOK' /\ LockOK'
      BY <1>8, <2>3 DEF ReloadLaunch, TaskOK, LockOK
    <3> QED BY <3>1, <3>2
  <2>4. ASSUME NEW t \in Scrapers,
               /\ pc[t] = "free"
               /\ cancels' = [cancels EXCEPT ![n] = t]
               /\ pc' = [pc EXCEPT ![t] = "scrape"]
               /\ name' = [name EXCEPT ![t] = n]
               /\ live' = [live EXCEPT ![t] = TRUE]
        PROVE  Types'
    <3>1. TypeOK'
      BY <1>8, <2>2, <2>4 DEF ReloadLaunch, TypeOK, Tasks, TaskPcs, envVars
    <3>2. TaskOK' /\ LockOK'
      BY <1>8, <2>2, <2>4, TaskAssumption
      DEF ReloadLaunch, TypeOK, TaskOK, LockOK, Tasks, Fetching, Writing
    <3> QED BY <3>1, <3>2
  <2> QED BY <2>1, <2>3, <2>4 DEF Launch
<1>9. CASE ApplyDone(a)
  <2>1. TypeOK'
    BY <1>9 DEF ApplyDone, Unlock, TypeOK, ApplyPcs, fetchVars, envVars
  <2> QED BY <1>2, <1>9, <2>1 DEF ApplyDone
<1> QED
  BY <1>1, <1>3, <1>4, <1>5, <1>6, <1>7, <1>8, <1>9 DEF ApplyStep

\* Every step keeps types, tasks and locks in order.
LEMMA NextTypes == ASSUME Types, [Next]_vars PROVE Types'
<1>1. CASE UNCHANGED vars
  BY <1>1 DEF vars, Types, TypeOK, TaskOK, LockOK
<1>2. CASE Start
  BY <1>2, StartTypes
<1>3. ASSUME NEW t \in Scrapers, ScraperStep(t) PROVE Types'
  BY <1>3, ScrapeTypes, FetchTypes DEF ScraperStep, Tasks
<1>4. ASSUME NEW r \in Requests,
             \/ \E n \in Clusters :
                  \/ RequestRefresh(r, n)
                  \/ WriteTopic(r, n) \/ Delete(r, n) \/ Send(r, n)
             \/ RequestStep(r) \/ CancelRequest(r)
      PROVE  Types'
  BY <1>4, RequestTypes, FetchTypes DEF RequestStep, Tasks
<1>5. ASSUME NEW a \in Appliers,
             (\E cfg \in Configs : ApplyLock(a, cfg)) \/ ApplyStep(a)
      PROVE  Types'
  BY <1>5, ApplyTypes
<1> QED
  BY <1>1, <1>2, <1>3, <1>4, <1>5 DEF Next

\* Types, tasks and locks are in order in every reachable state.
THEOREM AlwaysTypes == Spec => []Types
BY InitTypes, NextTypes, PTL DEF Spec

\* Type correctness.
THEOREM TypeCorrect == Spec => []TypeOK
<1>1. Types => TypeOK
  BY DEF Types
<1> QED
  BY <1>1, AlwaysTypes, PTL

----------------------------------------------------------------------------
(* What the steps of tasks leave alone *)

\* A step of request r, whichever.
RequestNext(r) ==
    \/ \E n \in Clusters :
         \/ RequestRefresh(r, n)
         \/ WriteTopic(r, n) \/ Delete(r, n) \/ Send(r, n)
    \/ RequestStep(r) \/ CancelRequest(r)

\* A step of applier a, whichever.
ApplyNext(a) == (\E cfg \in Configs : ApplyLock(a, cfg)) \/ ApplyStep(a)

\* FetchState touches nothing a reload owns, and moves t only.
LEMMA FetchFrame ==
    ASSUME Types, NEW t \in Tasks, Fetch(t)
    PROVE  /\ UNCHANGED <<disk, defs, cancels, booted, name, live, states, applyVars>>
           /\ pc[t] # "free" /\ pc'[t] # "free"
           /\ \A u \in Tasks \ {t} : pc'[u] = pc[u]
<1> USE DEF Types
<1>1. CASE ClientFor(t)
  BY <1>1 DEF ClientFor, AfterClient, TypeOK, fetchVars, applyVars
<1>2. CASE MetadataAnswer(t)
  BY <1>2 DEF MetadataAnswer, TypeOK
<1>3. CASE MetadataStamp(t)
  BY <1>3 DEF MetadataStamp, TypeOK
<1>4. CASE FetchOffline(t)
  BY <1>4 DEF FetchOffline, TypeOK
<1>5. CASE ListOffsets(t)
  BY <1>5 DEF ListOffsets, TypeOK
<1>6. CASE SkipBrokerConfigs(t)
  BY <1>6 DEF SkipBrokerConfigs, TypeOK, fetchVars
<1> QED
  BY <1>1, <1>2, <1>3, <1>4, <1>5, <1>6 DEF Fetch

\* A scrape goroutine registers and cancels nobody; it ends only when its
\* context is cancelled.
LEMMA ScraperFrame ==
    ASSUME Types, NEW t \in Scrapers, ScraperStep(t)
    PROVE  /\ UNCHANGED <<disk, defs, cancels, booted, live, applyVars>>
           /\ pc[t] # "free"
           /\ \A u \in Tasks \ {t} : pc'[u] = pc[u] /\ name'[u] = name[u]
           /\ \/ pc'[t] # "free" /\ name'[t] = name[t]
              \/ ~live[t]
<1> USE DEF Types
<1>0. t \in Tasks
  BY DEF Tasks
<1>1. CASE ScrapeNow(t)
  <2>1. pc' = [pc EXCEPT ![t] = "looked"] \/ pc' = [pc EXCEPT ![t] = "wait"]
    BY <1>1 DEF ScrapeNow
  <2> QED BY <1>0, <1>1, <2>1 DEF ScrapeNow, TypeOK
<1>2. CASE ScrapeTick(t)
  BY <1>0, <1>2 DEF ScrapeTick, TypeOK, fetchVars
<1>3. CASE ScrapeExit(t)
  BY <1>0, <1>3 DEF ScrapeExit, TypeOK
<1>4. CASE Fetch(t)
  BY <1>0, <1>4, FetchFrame
<1>5. CASE ScrapeStore(t)
  BY <1>0, <1>5 DEF ScrapeStore, TypeOK
<1> QED
  BY <1>1, <1>2, <1>3, <1>4, <1>5 DEF ScraperStep

\* Request r disturbs no other task and nothing a reload owns.
Undisturbed(r) ==
    /\ UNCHANGED <<disk, defs, cancels, booted, applyVars>>
    /\ \A u \in Tasks \ {r} :
         pc'[u] = pc[u] /\ name'[u] = name[u] /\ live'[u] = live[u]

\* A request leaves configuration, goroutines and reload alone.
LEMMA RequestFrame ==
    ASSUME Types, NEW r \in Requests, RequestNext(r) PROVE Undisturbed(r)
<1> USE DEF Types, Undisturbed
<1>0. r \in Tasks
  BY DEF Tasks
<1>1. ASSUME Answer(r)
      PROVE  \A u \in Tasks \ {r} :
                pc'[u] = pc[u] /\ name'[u] = name[u] /\ live'[u] = live[u]
  BY <1>1 DEF Answer, TypeOK
<1>2. ASSUME NEW n \in Clusters, RequestRefresh(r, n) PROVE Undisturbed(r)
  BY <1>2 DEF RequestRefresh, TypeOK
<1>3. ASSUME NEW n \in Clusters, WriteTopic(r, n) \/ Delete(r, n) \/ Send(r, n)
      PROVE  Undisturbed(r)
  BY <1>3 DEF WriteTopic, Delete, Send, BeginWrite, TypeOK
<1>4. CASE Write(r)
  BY <1>4 DEF Write, TypeOK
<1>5. CASE WriteFails(r)
  BY <1>1, <1>5 DEF WriteFails
<1>6. ASSUME NEW next, LookupOrEnd(r, next) PROVE Undisturbed(r)
  <2>1. CASE defs[name[r]] # None
    BY <1>6, <2>1 DEF LookupOrEnd, TypeOK
  <2>2. CASE defs[name[r]] = None
    BY <1>1, <1>6, <2>2 DEF LookupOrEnd
  <2> QED BY <2>1, <2>2
<1>7. CASE Refresh(r) \/ RefreshWithoutInvalidate(r)
  BY <1>6, <1>7 DEF Refresh, RefreshWithoutInvalidate
<1>8. CASE RefreshInvalidate(r)
  BY <1>8 DEF RefreshInvalidate, TypeOK, fetchVars
<1>9. CASE Fetch(r)
  BY <1>0, <1>9, FetchFrame
<1>10. CASE RequestStore(r)
  BY <1>1, <1>10 DEF RequestStore
<1>11. CASE CancelRequest(r)
  BY <1>11 DEF CancelRequest, TypeOK
<1> QED
  BY <1>2, <1>3, <1>4, <1>5, <1>7, <1>8, <1>9, <1>10, <1>11
  DEF RequestNext, RequestStep

\* The five ways a step can go.
LEMMA NextCases ==
    ASSUME [Next]_vars
    PROVE  \/ UNCHANGED vars \/ Start
           \/ \E t \in Scrapers : ScraperStep(t)
           \/ \E r \in Requests : RequestNext(r)
           \/ \E a \in Appliers : ApplyNext(a)
BY DEF Next, RequestNext, ApplyNext

----------------------------------------------------------------------------
(* Disk and runtime *)

\* Inside Apply the saved configuration is ahead of the running one between
\* the save and the swap only, and it is then the one being applied.
DiskOK ==
    /\ applyMu # None => applyPc[applyMu] # "idle"
    /\ IF applyMu # None /\ applyPc[applyMu] = "replace"
         THEN disk = snap[applyMu] ELSE disk = defs

\* Apply saves first and swaps the runtime only after a save that succeeded.
LEMMA ApplyDisk ==
    ASSUME Types, DiskOK, NEW a \in Appliers, ApplyNext(a) PROVE DiskOK'
<1> USE DEF Types
<1>0. a # None
  BY TaskAssumption
<1>1. ASSUME NEW cfg \in Configs, ApplyLock(a, cfg) PROVE DiskOK'
  BY <1>0, <1>1 DEF ApplyLock, DiskOK, TypeOK
<1>2. ASSUME applyPc[a] # "idle" PROVE applyMu = a
  BY <1>2 DEF LockOK
<1>3. CASE ApplySave(a)
  BY <1>0, <1>2, <1>3 DEF ApplySave, DiskOK, TypeOK
<1>4. CASE ApplySaveFails(a)
  BY <1>0, <1>2, <1>4 DEF ApplySaveFails, Unlock, DiskOK, TypeOK
<1>5. CASE ApplyReplace(a)
  BY <1>0, <1>2, <1>5 DEF ApplyReplace, DiskOK, TypeOK
<1>6. CASE ApplyInvalidate(a)
  BY <1>0, <1>2, <1>6 DEF ApplyInvalidate, DiskOK, TypeOK
<1>7. CASE ReloadAlign(a)
  BY <1>0, <1>2, <1>7 DEF ReloadAlign, DiskOK, TypeOK
<1>8. CASE ReloadLaunch(a)
  BY <1>0, <1>2, <1>8 DEF ReloadLaunch, DiskOK, TypeOK
<1>9. CASE ApplyDone(a)
  BY <1>0, <1>2, <1>9 DEF ApplyDone, Unlock, DiskOK, TypeOK
<1> QED
  BY <1>1, <1>3, <1>4, <1>5, <1>6, <1>7, <1>8, <1>9 DEF ApplyNext, ApplyStep

\* Only Apply touches the saved or the running configuration.
LEMMA NextDisk == ASSUME Types, DiskOK, [Next]_vars PROVE DiskOK'
<1>1. ASSUME UNCHANGED <<disk, defs, applyVars>> PROVE DiskOK'
  BY <1>1 DEF DiskOK, applyVars
<1>2. CASE UNCHANGED vars
  BY <1>1, <1>2 DEF vars, applyVars
<1>3. CASE Start
  BY <1>1, <1>3 DEF Start
<1>4. ASSUME NEW t \in Scrapers, ScraperStep(t) PROVE DiskOK'
  BY <1>1, <1>4, ScraperFrame
<1>5. ASSUME NEW r \in Requests, RequestNext(r) PROVE DiskOK'
  BY <1>1, <1>5, RequestFrame DEF Undisturbed
<1> QED
  BY <1>2, <1>3, <1>4, <1>5, ApplyDisk, NextCases

\* Disk and runtime never diverge, however reloads and failed saves interleave.
THEOREM DiskAndRuntimeAgree == Spec => []DiskMatchesRuntime
<1>1. Init => DiskOK
  BY DEF Init, DiskOK
<1>2. DiskOK => DiskMatchesRuntime
  BY DEF DiskOK, DiskMatchesRuntime
<1> QED
  BY <1>1, <1>2, NextDisk, AlwaysTypes, PTL DEF Spec

----------------------------------------------------------------------------
(* Registered goroutines *)

\* cancels and the running goroutines describe each other: what is registered
\* runs for that name with a live context, and what runs with a live context is
\* registered.  Before Start nothing runs and nothing is reloaded.
Registered ==
    /\ \A n \in Clusters : cancels[n] # None =>
         /\ pc[cancels[n]] # "free"
         /\ name[cancels[n]] = n
         /\ live[cancels[n]]
    /\ NoLeakedScraper
    /\ ~booted =>
         /\ applyMu = None
         /\ \A n \in Clusters : cancels[n] = None
         /\ \A t \in Scrapers : pc[t] = "free" /\ live[t]

\* Before Start there is no goroutine.
LEMMA InitRegistered == Init => Registered
BY TaskAssumption DEF Init, Registered, NoLeakedScraper, Tasks

\* Start gives every configured cluster a goroutine of its own.
LEMMA StartRegistered ==
    ASSUME Types, Registered, Start PROVE Registered'
<1> USE DEF Types
<1>1. PICK f \in [Configured(defs) -> Scrapers] :
        /\ \A m, n \in Configured(defs) : m # n => f[m] # f[n]
        /\ cancels' = [n \in Clusters |->
                         IF n \in Configured(defs) THEN f[n] ELSE None]
        /\ pc' = [t \in Tasks |->
                    IF \E n \in Configured(defs) : f[n] = t
                      THEN "scrape" ELSE pc[t]]
        /\ name' = [t \in Tasks |->
                      IF \E n \in Configured(defs) : f[n] = t
                        THEN CHOOSE n \in Configured(defs) : f[n] = t
                        ELSE name[t]]
  BY DEF Start
<1>2. ASSUME NEW n \in Configured(defs)
      PROVE  pc'[f[n]] = "scrape" /\ name'[f[n]] = n /\ live'[f[n]]
  <2>1. f[n] \in Scrapers /\ f[n] \in Tasks
    BY <1>2 DEF Tasks
  <2>2. \A m \in Configured(defs) : f[m] = f[n] => m = n
    BY <1>1, <1>2
  <2>3. (CHOOSE m \in Configured(defs) : f[m] = f[n]) = n
    BY <1>2, <2>2
  <2>4. pc'[f[n]] = "scrape" /\ name'[f[n]] = n
    BY <1>1, <1>2, <2>1, <2>3
  <2>5. live'[f[n]]
    BY <2>1 DEF Start, Registered
  <2> QED BY <2>4, <2>5
<1>3. \A n \in Clusters : cancels'[n] # None =>
         n \in Configured(defs) /\ cancels'[n] = f[n]
  BY <1>1
<1>4. ASSUME NEW t \in Scrapers, pc'[t] # "free" PROVE cancels'[name'[t]] = t
  <2>1. PICK n \in Configured(defs) : f[n] = t
    BY <1>1, <1>4 DEF Start, Registered, Tasks
  <2> QED BY <1>1, <1>2, <2>1 DEF Configured
<1> QED
  BY <1>2, <1>3, <1>4 DEF Start, Registered, NoLeakedScraper

\* A goroutine gives its slot back only once it has been cancelled.
LEMMA ScraperRegistered ==
    ASSUME Types, Registered, NEW t \in Scrapers, ScraperStep(t) PROVE Registered'
<1> USE DEF Types
<1>1. /\ UNCHANGED <<cancels, booted, live, applyMu>> /\ pc[t] # "free"
      /\ \A u \in Tasks \ {t} : pc'[u] = pc[u] /\ name'[u] = name[u]
      /\ \/ pc'[t] # "free" /\ name'[t] = name[t]
         \/ ~live[t]
  BY ScraperFrame DEF applyVars
<1>2. booted
  BY <1>1 DEF Registered
<1>3. ASSUME NEW n \in Clusters, cancels[n] # None
      PROVE  pc'[cancels[n]] # "free" /\ name'[cancels[n]] = n /\ live'[cancels[n]]
  <2>1. cancels[n] \in Tasks
    BY <1>3 DEF TypeOK, Tasks
  <2>2. pc[cancels[n]] # "free" /\ name[cancels[n]] = n /\ live[cancels[n]]
    BY <1>3 DEF Registered
  <2> QED BY <1>1, <2>1, <2>2
<1>4. ASSUME NEW u \in Scrapers, pc'[u] # "free", live'[u]
      PROVE  cancels'[name'[u]] = u
  <2>1. u \in Tasks /\ live[u]
    BY <1>1, <1>4 DEF Tasks
  <2>2. pc[u] # "free" /\ name'[u] = name[u]
    BY <1>1, <1>4, <2>1
  <2> QED BY <1>1, <1>4, <2>1, <2>2 DEF Registered, NoLeakedScraper
<1> QED
  BY <1>1, <1>2, <1>3, <1>4 DEF Registered, NoLeakedScraper

\* Requests neither launch nor cancel goroutines.
LEMMA RequestRegistered ==
    ASSUME Types, Registered, NEW r \in Requests, RequestNext(r) PROVE Registered'
<1>1. /\ UNCHANGED <<cancels, booted, applyMu>>
      /\ \A u \in Tasks \ {r} :
           pc'[u] = pc[u] /\ name'[u] = name[u] /\ live'[u] = live[u]
  BY RequestFrame DEF Undisturbed, applyVars
<1>2. \A u \in Scrapers : pc'[u] = pc[u] /\ name'[u] = name[u] /\ live'[u] = live[u]
  BY <1>1, TaskAssumption DEF Tasks
<1>3. \A n \in Clusters : cancels[n] # None => cancels[n] \in Scrapers
  BY DEF Types, TypeOK
<1> QED
  BY <1>1, <1>2, <1>3 DEF Registered, NoLeakedScraper

\* Reload cancels what it unregisters and registers what it launches.
LEMMA ApplyRegistered ==
    ASSUME Types, Registered, NEW a \in Appliers, ApplyNext(a) PROVE Registered'
<1> USE DEF Types
<1>0. booted
  BY TaskAssumption
  DEF ApplyNext, ApplyStep, ApplyLock, ApplySave, ApplySaveFails, ApplyReplace,
      ApplyInvalidate, ReloadAlign, ReloadLaunch, ApplyDone, LockOK, Registered
<1>1. CASE UNCHANGED <<booted, cancels, pc, name, live>>
  BY <1>0, <1>1 DEF Registered, NoLeakedScraper
<1>2. CASE ReloadAlign(a)
  <2>1. \A n \in Clusters :
          /\ cancels'[n] = IF cancels[n] # None /\ defs[n] = None
                             THEN None ELSE cancels[n]
    BY <1>2 DEF ReloadAlign
  <2>2. \A t \in Tasks :
          live'[t] <=> /\ live[t]
                       /\ ~\E n \in Clusters : /\ cancels[n] # None /\ defs[n] = None
                                               /\ cancels[n] = t
    BY <1>2 DEF ReloadAlign, TypeOK
  <2>3. UNCHANGED <<booted, pc, name>>
    BY <1>2 DEF ReloadAlign
  <2>4. ASSUME NEW n \in Clusters, cancels'[n] # None
        PROVE  /\ pc'[cancels'[n]] # "free" /\ name'[cancels'[n]] = n
               /\ live'[cancels'[n]]
    <3>1. cancels'[n] = cancels[n] /\ defs[n] # None
      BY <2>1, <2>4
    <3>2. cancels[n] \in Tasks
      BY <2>4, <3>1 DEF TypeOK, Tasks
    <3>3. pc[cancels[n]] # "free" /\ name[cancels[n]] = n /\ live[cancels[n]]
      BY <2>4, <3>1 DEF Registered
    <3>4. \A m \in Clusters : cancels[m] # None /\ cancels[m] = cancels[n] => m = n
      BY <3>3 DEF Registered
    <3>5. live'[cancels[n]]
      BY <2>2, <3>1, <3>2, <3>3, <3>4
    <3> QED BY <2>3, <3>1, <3>3, <3>5
  <2>5. ASSUME NEW t \in Scrapers, pc'[t] # "free", live'[t]
        PROVE  cancels'[name'[t]] = t
    <3>1. t \in Tasks /\ t # None
      BY TaskAssumption DEF Tasks
    <3>2. live[t] /\ name[t] \in Clusters
      <4>1. pc[t] \notin {"free", "idle"}
        BY <2>3, <2>5, <3>1 DEF TaskOK, Fetching
      <4> QED BY <2>2, <2>5, <3>1, <4>1 DEF TaskOK
    <3>3. cancels[name[t]] = t
      BY <2>3, <2>5, <3>2 DEF Registered, NoLeakedScraper
    <3> QED BY <2>1, <2>2, <2>3, <2>5, <3>1, <3>2, <3>3
  <2> QED BY <1>0, <2>3, <2>4, <2>5 DEF Registered, NoLeakedScraper
<1>3. CASE ReloadLaunch(a)
  <2>1. PICK n \in todo[a] : Launch(n)
    BY <1>3 DEF ReloadLaunch
  <2>2. n \in Clusters
    BY DEF TypeOK
  <2>3. ASSUME NEW t \in Scrapers,
               /\ pc[t] = "free" /\ cancels[n] = None
               /\ cancels' = [cancels EXCEPT ![n] = t]
               /\ pc' = [pc EXCEPT ![t] = "scrape"]
               /\ name' = [name EXCEPT ![t] = n]
               /\ live' = [live EXCEPT ![t] = TRUE]
        PROVE  Registered'
    <3>1. t \in Tasks
      BY DEF Tasks
    <3>2. ASSUME NEW m \in Clusters, cancels'[m] # None
          PROVE  /\ pc'[cancels'[m]] # "free" /\ name'[cancels'[m]] = m
                 /\ live'[cancels'[m]]
      <4>1. CASE m = n
        BY <2>2, <2>3, <3>1, <4>1 DEF TypeOK
      <4>2. CASE m # n
        BY <2>2, <2>3, <3>1, <3>2, <4>2 DEF TypeOK, Registered, Tasks
      <4> QED BY <4>1, <4>2
    <3>3. ASSUME NEW u \in Scrapers, pc'[u] # "free", live'[u]
          PROVE  cancels'[name'[u]] = u
      <4>0. u \in Tasks
        BY DEF Tasks
      <4>1. CASE u = t
        BY <2>2, <2>3, <3>1, <4>1 DEF TypeOK
      <4>2. CASE u # t
        <5>1. cancels[name[u]] = u /\ name'[u] = name[u] /\ name[u] \in Clusters
          <6>1. pc[u] # "free" /\ live[u] /\ name'[u] = name[u]
            BY <2>3, <3>3, <4>0, <4>2 DEF TypeOK
          <6>2. pc[u] \notin {"free", "idle"}
            BY <4>0, <6>1 DEF TaskOK, Fetching
          <6> QED BY <4>0, <6>1, <6>2 DEF Registered, NoLeakedScraper, TaskOK
        <5>2. u # None
          BY <4>0, TaskAssumption
        <5> QED BY <2>2, <2>3, <5>1, <5>2 DEF TypeOK
      <4> QED BY <4>1, <4>2
    <3> QED BY <1>0, <1>3, <3>2, <3>3 DEF ReloadLaunch, Registered, NoLeakedScraper
  <2> QED BY <1>1, <1>3, <2>1, <2>3 DEF Launch, ReloadLaunch
<1>4. CASE \/ (\E cfg \in Configs : ApplyLock(a, cfg)) \/ ApplySave(a)
           \/ ApplySaveFails(a) \/ ApplyReplace(a) \/ ApplyInvalidate(a)
           \/ ApplyDone(a)
  BY <1>1, <1>4
  DEF ApplyLock, ApplySave, ApplySaveFails, ApplyReplace, ApplyInvalidate,
      ApplyDone, fetchVars
<1> QED
  BY <1>2, <1>3, <1>4 DEF ApplyNext, ApplyStep

\* Every step keeps live goroutines registered.
LEMMA NextRegistered == ASSUME Types, Registered, [Next]_vars PROVE Registered'
<1>1. CASE UNCHANGED vars
  BY <1>1 DEF vars, Registered, NoLeakedScraper
<1> QED
  BY <1>1, StartRegistered, ScraperRegistered, RequestRegistered,
     ApplyRegistered, NextCases

\* Live goroutines are registered in every reachable state.
THEOREM AlwaysRegistered == Spec => []Registered
BY InitRegistered, NextRegistered, AlwaysTypes, PTL DEF Spec

\* No goroutine escapes: whatever reloads overlap, one that still runs with a
\* live context is the one its cluster's CancelFunc stops.
THEOREM NothingLeaks == Spec => []NoLeakedScraper
<1>1. Registered => NoLeakedScraper
  BY DEF Registered
<1> QED
  BY <1>1, AlwaysRegistered, PTL

----------------------------------------------------------------------------
(* The set of scraped clusters *)

\* Between the swap of the definitions and ReloadAlign the two sets may differ;
\* while Reload launches, what is configured and not yet scraped is in todo.
Aligned ==
    booted =>
      /\ applyMu = None \/ applyPc[applyMu] \in {"save", "replace"} =>
           \A n \in Clusters : cancels[n] # None <=> defs[n] # None
      /\ applyMu # None /\ applyPc[applyMu] = "launch" =>
           \A n \in Clusters :
             /\ cancels[n] # None => defs[n] # None
             /\ defs[n] # None => cancels[n] # None \/ n \in todo[applyMu]
             /\ n \in todo[applyMu] => defs[n] # None

\* Start registers exactly the configured clusters.
LEMMA StartAligned == ASSUME Types, Registered, Start PROVE Aligned'
<1>1. PICK f \in [Configured(defs) -> Scrapers] :
        cancels' = [n \in Clusters |->
                      IF n \in Configured(defs) THEN f[n] ELSE None]
  BY DEF Start
<1>2. \A n \in Clusters : cancels'[n] # None <=> defs[n] # None
  BY <1>1, TaskAssumption DEF Configured, Tasks
<1>3. defs' = defs /\ applyMu' = None
  BY DEF Start, applyVars, Registered
<1> QED
  BY <1>2, <1>3 DEF Aligned

\* Reload unregisters the removed clusters, then launches the missing ones; until
\* then they are on its list.
LEMMA ApplyAligned ==
    ASSUME Types, Registered, Aligned, NEW a \in Appliers, ApplyNext(a)
    PROVE  Aligned'
<1> USE DEF Types
<1>0. a # None
  BY TaskAssumption
<1>1. ASSUME NEW cfg \in Configs, ApplyLock(a, cfg) PROVE Aligned'
  BY <1>0, <1>1 DEF ApplyLock, Aligned, TypeOK
<1>2. ASSUME applyPc[a] # "idle" PROVE applyMu = a /\ booted
  BY <1>0, <1>2 DEF LockOK, Registered
<1>3. CASE ApplySave(a)
  BY <1>0, <1>2, <1>3 DEF ApplySave, Aligned, TypeOK
<1>4. CASE ApplySaveFails(a)
  BY <1>0, <1>2, <1>4 DEF ApplySaveFails, Unlock, Aligned, TypeOK
<1>5. CASE ApplyReplace(a)
  BY <1>0, <1>2, <1>5 DEF ApplyReplace, Aligned, TypeOK
<1>6. CASE ApplyInvalidate(a)
  <2>1. applyMu' = a /\ applyPc'[a] \in {"invalidate", "align"}
    BY <1>2, <1>6 DEF ApplyInvalidate, TypeOK
  <2> QED BY <1>0, <2>1 DEF Aligned
<1>7. CASE ReloadAlign(a)
  <2>1. /\ applyMu' = a /\ applyPc'[a] = "launch" /\ defs' = defs
        /\ todo'[a] = {n \in Configured(defs) : cancels[n] = None}
        /\ \A n \in Clusters :
             cancels'[n] = IF cancels[n] # None /\ defs[n] = None
                             THEN None ELSE cancels[n]
    BY <1>2, <1>7 DEF ReloadAlign, TypeOK
  <2> QED BY <1>0, <2>1 DEF Aligned, Configured
<1>8. CASE ReloadLaunch(a)
  <2>1. PICK n \in todo[a] : Launch(n) /\ todo' = [todo EXCEPT ![a] = @ \ {n}]
    BY <1>8 DEF ReloadLaunch
  <2>2. n \in Clusters /\ todo'[a] = todo[a] \ {n}
    BY <2>1 DEF TypeOK
  <2>3. /\ cancels'[n] # None
        /\ \A m \in Clusters \ {n} : cancels'[m] = cancels[m]
    <3>1. booted
      BY <1>2, <1>8 DEF ReloadLaunch
    <3>2. CASE cancels[n] # None
      BY <2>1, <3>1, <3>2 DEF Launch
    <3>3. CASE cancels[n] = None
      <4>1. PICK t \in Scrapers : cancels' = [cancels EXCEPT ![n] = t]
        BY <2>1, <3>1, <3>3 DEF Launch
      <4>2. t # None
        BY TaskAssumption DEF Tasks
      <4> QED BY <2>2, <4>1, <4>2 DEF TypeOK
    <3> QED BY <3>2, <3>3
  <2>4. applyMu' = a /\ applyMu = a /\ applyPc'[a] = "launch" /\ defs' = defs
    BY <1>2, <1>8 DEF ReloadLaunch
  <2>5. \A m \in Clusters :
          /\ cancels[m] # None => defs[m] # None
          /\ defs[m] # None => cancels[m] # None \/ m \in todo[a]
          /\ m \in todo[a] => defs[m] # None
    BY <1>0, <1>2, <1>8, <2>4 DEF ReloadLaunch, Aligned
  <2> QED BY <1>0, <2>1, <2>2, <2>3, <2>4, <2>5 DEF Aligned
<1>9. CASE ApplyDone(a)
  BY <1>0, <1>2, <1>9 DEF ApplyDone, Unlock, Aligned, TypeOK
<1> QED
  BY <1>1, <1>3, <1>4, <1>5, <1>6, <1>7, <1>8, <1>9 DEF ApplyNext, ApplyStep

\* Only Start and Apply change which clusters are scraped.
LEMMA NextAligned ==
    ASSUME Types, Registered, Aligned, [Next]_vars PROVE Aligned'
<1>1. ASSUME UNCHANGED <<defs, cancels, booted, applyVars>> PROVE Aligned'
  BY <1>1 DEF Aligned, applyVars
<1>2. CASE UNCHANGED vars
  BY <1>1, <1>2 DEF vars, applyVars
<1>3. ASSUME NEW t \in Scrapers, ScraperStep(t) PROVE Aligned'
  BY <1>1, <1>3, ScraperFrame
<1>4. ASSUME NEW r \in Requests, RequestNext(r) PROVE Aligned'
  BY <1>1, <1>4, RequestFrame DEF Undisturbed
<1> QED
  BY <1>2, <1>3, <1>4, StartAligned, ApplyAligned, NextCases

\* After any sequence of overlapping reloads, exactly the configured clusters
\* are scraped.
THEOREM ConfiguredAreScraped == Spec => []ScrapeSetAligned
<1>1. Init => Aligned
  BY DEF Init, Aligned
<1>2. Aligned => ScrapeSetAligned
  BY DEF Aligned, ScrapeSetAligned
<1> QED
  BY <1>1, <1>2, NextAligned, AlwaysRegistered, AlwaysTypes, PTL DEF Spec

----------------------------------------------------------------------------
(* The cache *)

\* No step lets the stamp of a cache entry go back while the entry stays.
LEMMA StoreMonotone ==
    ASSUME Types, NEW t \in Tasks, pc[t] = "fetched", states' = StoreState(t),
           NEW n \in Clusters, states[n] # None, states'[n] # None
    PROVE  states'[n].at >= states[n].at
<1>1. /\ states[n] \in RuntimeStates /\ at[t] \in Nat /\ states[n].at \in Nat
      /\ name[t] \in Clusters
  BY BoundAssumption DEF Types, TypeOK, TaskOK, Fetching, RuntimeStates
<1>2. CASE states' = states
  BY <1>1, <1>2
<1>3. CASE /\ states[name[t]] = None \/ states[name[t]].at <= at[t]
           /\ states' = [states EXCEPT ![name[t]] =
                [def |-> def[t], at |-> at[t], meta |-> meta[t], data |-> data[t]]]
  <2>1. CASE n = name[t]
    BY <1>1, <1>3, <2>1 DEF Types, TypeOK
  <2>2. CASE n # name[t]
    BY <1>1, <1>3, <2>2 DEF Types, TypeOK
  <2> QED BY <2>1, <2>2
<1> QED
  BY <1>2, <1>3 DEF StoreState

\* Reload rewrites the Definition of an entry and leaves its stamp alone.
LEMMA AlignMonotone ==
    ASSUME Types, NEW a \in Appliers, ReloadAlign(a),
           NEW n \in Clusters, states[n] # None, states'[n] # None
    PROVE  states'[n].at >= states[n].at
<1>1. states[n] \in RuntimeStates /\ states[n].at \in Nat
  BY BoundAssumption DEF Types, TypeOK, RuntimeStates
<1>2. states'[n] = states[n] \/ states'[n] = [states[n] EXCEPT !.def = defs[n]]
  BY DEF ReloadAlign
<1> QED
  BY <1>1, <1>2 DEF RuntimeStates

\* A goroutine touches the cache only where it stores what it fetched.
LEMMA ScraperStates ==
    ASSUME Types, NEW t \in Scrapers, ScraperStep(t)
    PROVE  UNCHANGED states \/ ScrapeStore(t)
<1>1. t \in Tasks
  BY DEF Tasks
<1> QED BY <1>1, FetchFrame
        DEF ScraperStep, ScrapeNow, ScrapeTick, ScrapeExit

\* A step that touches the cache is a finished refresh or the alignment.
LEMMA CacheWriters ==
    ASSUME Types, [Next]_vars
    PROVE  \/ UNCHANGED states
           \/ \E t \in Tasks : pc[t] = "fetched" /\ states' = StoreState(t)
           \/ \E a \in Appliers : ReloadAlign(a)
<1>1. CASE UNCHANGED vars
  BY <1>1 DEF vars
<1>2. CASE Start
  BY <1>2 DEF Start
<1>3. ASSUME NEW t \in Scrapers, ScraperStep(t)
      PROVE  UNCHANGED states \/ (pc[t] = "fetched" /\ states' = StoreState(t))
  BY <1>3, ScraperStates DEF ScrapeStore
<1>4. ASSUME NEW r \in Requests, RequestNext(r)
      PROVE  UNCHANGED states \/ (pc[r] = "fetched" /\ states' = StoreState(r))
  <2>1. r \in Tasks
    BY DEF Tasks
  <2> QED BY <1>4, <2>1, FetchFrame
          DEF RequestNext, RequestStep, RequestRefresh, WriteTopic, Delete, Send,
              BeginWrite, Write, WriteFails, Refresh, RefreshInvalidate,
              RefreshWithoutInvalidate, LookupOrEnd, RequestStore, CancelRequest
<1>5. ASSUME NEW a \in Appliers, ApplyNext(a)
      PROVE  UNCHANGED states \/ ReloadAlign(a)
  BY <1>5
  DEF ApplyNext, ApplyStep, ApplyLock, ApplySave, ApplySaveFails, ApplyReplace,
      ApplyInvalidate, ReloadLaunch, ApplyDone
<1> QED
  BY <1>1, <1>2, <1>3, <1>4, <1>5, NextCases DEF Tasks

\* Old data never replaces new data, whichever refreshes and reloads overlap.
THEOREM FreshnessKept == Spec => FreshnessNeverRegresses
<1>1. ASSUME Types, [Next]_vars
      PROVE  [\A n \in Clusters :
                states[n] # None /\ states'[n] # None
                   => states'[n].at >= states[n].at]_states
  BY <1>1, CacheWriters, StoreMonotone, AlignMonotone
<1> QED
  BY <1>1, AlwaysTypes, PTL DEF Spec, FreshnessNeverRegresses

\* Without requests, only registered clusters have an entry: a scrape writes only
\* while its context is live, and Reload drops registration and entry together.
Registrants == \A n \in Clusters : states[n] # None => cancels[n] # None

\* Reload unregisters exactly the clusters whose entries it drops.
LEMMA ApplyRegistrants ==
    ASSUME Types, Registrants, NEW a \in Appliers, ApplyNext(a)
    PROVE  Registrants'
<1> USE DEF Types
<1>1. CASE ReloadAlign(a)
  BY <1>1 DEF ReloadAlign, Registrants, TypeOK
<1>2. CASE ReloadLaunch(a)
  <2>1. PICK n \in Clusters : Launch(n)
    BY <1>2 DEF ReloadLaunch, TypeOK
  <2>2. ASSUME NEW m \in Clusters, cancels[m] # None PROVE cancels'[m] # None
    BY <2>1, <2>2, TaskAssumption DEF Launch, TypeOK, Tasks
  <2> QED
    BY <1>2, <2>2 DEF ReloadLaunch, Registrants
<1>3. CASE UNCHANGED <<states, cancels>>
  BY <1>3 DEF Registrants
<1> QED
  BY <1>1, <1>2, <1>3
  DEF ApplyNext, ApplyStep, ApplyLock, ApplySave, ApplySaveFails, ApplyReplace,
      ApplyInvalidate, ApplyDone

\* A goroutine that finds its context live is registered for what it writes.
LEMMA ScraperRegistrants ==
    ASSUME Types, Registered, Registrants, NEW t \in Scrapers, ScraperStep(t)
    PROVE  Registrants'
<1> USE DEF Types
<1>0. t \in Tasks /\ UNCHANGED cancels
  BY ScraperFrame DEF Tasks
<1>1. CASE ScrapeStore(t)
  <2>1. CASE live[t]
    <3>1. name[t] \in Clusters /\ cancels[name[t]] = t /\ t # None
      BY <1>0, <1>1, <2>1, TaskAssumption
      DEF ScrapeStore, Registered, NoLeakedScraper, TaskOK, Fetching
    <3>2. \A n \in Clusters \ {name[t]} : states'[n] = states[n]
      BY <1>1, <3>1 DEF ScrapeStore, StoreState, TypeOK
    <3> QED BY <1>0, <3>1, <3>2 DEF Registrants
  <2>2. CASE ~live[t]
    BY <1>0, <1>1, <2>2 DEF ScrapeStore, StoreState, Registrants
  <2> QED BY <2>1, <2>2
<1>2. CASE UNCHANGED states
  BY <1>0, <1>2 DEF Registrants
<1> QED
  BY <1>0, <1>1, <1>2, ScraperStates

\* A scrape that is in flight when its cluster is removed never brings the entry
\* back, and neither does any overlap of reloads: ghosts can only come from
\* requests.
THEOREM OnlyRequestsLeaveGhosts ==
    ASSUME Requests = {} PROVE Spec => []NoGhostState
<1>1. Init => Registrants
  BY DEF Init, Registrants
<1>2. ASSUME Types, Registered, Registrants, [Next]_vars PROVE Registrants'
  <2>1. CASE UNCHANGED vars
    BY <1>2, <2>1 DEF vars, Registrants
  <2>2. CASE Start
    BY <1>2, <2>2 DEF Start, Registered, Registrants
  <2> QED
    BY <1>2, <2>1, <2>2, NextCases, ScraperRegistrants, ApplyRegistrants
<1>3. ASSUME Registered, Registrants, ScrapeSetAligned PROVE NoGhostState
  BY <1>3 DEF Registered, Registrants, ScrapeSetAligned, NoGhostState
<1> QED
  BY <1>1, <1>2, <1>3, AlwaysTypes, AlwaysRegistered, ConfiguredAreScraped, PTL
  DEF Spec

----------------------------------------------------------------------------
(* The pooled clients *)

\* The client of n is the one of the current connection.
CurrentClient(n) == defs[n] # None /\ clients[n] = defs[n].conn

\* Apply has swapped the definitions and will invalidate n.
Pending(n) ==
    /\ applyMu # None
    /\ applyPc[applyMu] = "invalidate"
    /\ n \in todo[applyMu]

\* Every task with an outdated lookup is recorded, and an untainted cluster has
\* no client, a current one, or one about to be invalidated.
ClientsOK ==
    /\ \A t \in Tasks, n \in Clusters : Outdated(t, n, defs) => n \in tainted
    /\ \A n \in Clusters \ tainted :
         clients[n] # None => CurrentClient(n) \/ Pending(n)

\* Tasks that carry an older lookup and still have a clientFor ahead.
Carrying == {"topic", "delete", "invalidate", "looked", "client", "answered",
             "stamped", "listed"}

\* A step that moves one task, carries no older Definition than before, and
\* leaves the pool and the reload alone.
LEMMA MoveClients ==
    ASSUME Types, ClientsOK, NEW t \in Tasks,
           UNCHANGED <<defs, clients, applyVars, tainted>>,
           \A u \in Tasks \ {t} :
             pc'[u] = pc[u] /\ name'[u] = name[u] /\ def'[u] = def[u],
           \/ pc'[t] \notin Carrying
           \/ name'[t] \in Clusters /\ def'[t] = defs[name'[t]] /\ def'[t] # None
           \/ pc[t] \in Carrying /\ name'[t] = name[t] /\ def'[t] = def[t]
    PROVE  ClientsOK'
<1>1. ASSUME NEW u \in Tasks, NEW n \in Clusters, Outdated(u, n, defs)'
      PROVE  Outdated(u, n, defs)
  <2>1. CASE u = t
    BY <1>1, <2>1 DEF Outdated, Carrying
  <2>2. CASE u # t
    BY <1>1, <2>2 DEF Outdated
  <2> QED BY <2>1, <2>2
<1> QED
  BY <1>1 DEF ClientsOK, CurrentClient, Pending, applyVars

\* clientFor pools what an untainted task looked up: the current connection.
LEMMA ClientForClients ==
    ASSUME Types, ClientsOK, NEW t \in Tasks, ClientFor(t) PROVE ClientsOK'
<1> USE DEF Types
<1>1. pc[t] \in Carrying /\ name[t] \in Clusters
  BY DEF ClientFor, AfterClient, Carrying, TaskOK, Fetching, Writing
<1>2. ASSUME NEW u \in Tasks, NEW n \in Clusters, Outdated(u, n, defs)'
      PROVE  Outdated(u, n, defs)
  <2>1. CASE u = t
    BY <1>1, <1>2, <2>1 DEF ClientFor, Outdated, Carrying, fetchVars
  <2>2. CASE u # t
    BY <1>2, <2>2 DEF ClientFor, Outdated, TypeOK, fetchVars
  <2> QED BY <2>1, <2>2
<1>3. ASSUME NEW n \in Clusters \ tainted, clients'[n] # None
      PROVE  CurrentClient(n)' \/ Pending(n)'
  <2>1. UNCHANGED <<defs, applyMu, applyPc, todo>>
    BY DEF ClientFor, applyVars
  <2>2. CASE clients'[n] = clients[n]
    BY <1>3, <2>1, <2>2 DEF ClientsOK, CurrentClient, Pending
  <2>3. CASE n = name[t] /\ clients'[n] = def[t].conn
    <3>1. ~Outdated(t, n, defs)
      BY <1>3 DEF ClientsOK
    <3>2. defs[n] # None /\ def[t].conn = defs[n].conn
      BY <1>1, <2>3, <3>1 DEF Outdated, Carrying
    <3> QED BY <2>1, <2>3, <3>2 DEF CurrentClient
  <2> QED BY <1>1, <2>2, <2>3 DEF ClientFor, TypeOK
<1> QED
  BY <1>2, <1>3 DEF ClientsOK, ClientFor

\* FetchState reaches the pool only through clientFor.
LEMMA FetchClients ==
    ASSUME Types, ClientsOK, NEW t \in Tasks, Fetch(t) PROVE ClientsOK'
<1> USE DEF Types
<1>1. CASE MetadataAnswer(t)
  BY <1>1, MoveClients DEF MetadataAnswer, TypeOK, Carrying
<1>2. CASE MetadataStamp(t)
  BY <1>2, MoveClients DEF MetadataStamp, TypeOK, Carrying
<1>3. CASE FetchOffline(t)
  BY <1>3, MoveClients DEF FetchOffline, TypeOK, Carrying
<1>4. CASE ListOffsets(t)
  BY <1>4, MoveClients DEF ListOffsets, TypeOK, Carrying
<1>5. CASE SkipBrokerConfigs(t)
  BY <1>5, MoveClients DEF SkipBrokerConfigs, TypeOK, Carrying, fetchVars
<1> QED
  BY <1>1, <1>2, <1>3, <1>4, <1>5, ClientForClients DEF Fetch

\* A scrape goroutine carries what the Resolver has at the time of its lookup.
LEMMA ScraperClients ==
    ASSUME Types, ClientsOK, NEW t \in Scrapers, ScraperStep(t) PROVE ClientsOK'
<1> USE DEF Types
<1>0. t \in Tasks
  BY DEF Tasks
<1>1. CASE ScrapeNow(t)
  <2>1. name[t] \in Clusters
    BY <1>0, <1>1 DEF ScrapeNow, TaskOK
  <2>2. CASE live[t] /\ defs[name[t]] # None
    BY <1>0, <1>1, <2>1, <2>2, MoveClients DEF ScrapeNow, TypeOK
  <2>3. CASE ~(live[t] /\ defs[name[t]] # None)
    BY <1>0, <1>1, <2>3, MoveClients DEF ScrapeNow, TypeOK, Carrying
  <2> QED BY <2>2, <2>3
<1>2. CASE ScrapeTick(t)
  BY <1>0, <1>2, MoveClients DEF ScrapeTick, TypeOK, Carrying, fetchVars
<1>3. CASE ScrapeExit(t)
  BY <1>0, <1>3, MoveClients DEF ScrapeExit, TypeOK, Carrying
<1>4. CASE ScrapeStore(t)
  BY <1>0, <1>4, MoveClients DEF ScrapeStore, TypeOK, Carrying
<1> QED
  BY <1>0, <1>1, <1>2, <1>3, <1>4, FetchClients DEF ScraperStep

\* Pool.Invalidate clears the taint of n only when nobody carries an outdated
\* lookup of it.
LEMMA InvalidateClients ==
    ASSUME Types, ClientsOK, NEW n \in Clusters, Invalidate(n), UNCHANGED defs,
           \A u \in Tasks, m \in Clusters :
             Outdated(u, m, defs)' => Outdated(u, m, defs),
           \A m \in Clusters \ {n} : Pending(m) => Pending(m)'
    PROVE  ClientsOK'
<1>1. \A u \in Tasks, m \in Clusters : Outdated(u, m, defs)' => m \in tainted'
  BY DEF ClientsOK, Invalidate
<1>2. ASSUME NEW m \in Clusters \ tainted', clients'[m] # None
      PROVE  CurrentClient(m)' \/ Pending(m)'
  <2>1. m # n /\ clients'[m] = clients[m]
    BY <1>2 DEF Invalidate, Types, TypeOK
  <2>2. m \notin tainted
    BY <1>2, <2>1 DEF Invalidate
  <2> QED BY <1>2, <2>1, <2>2 DEF ClientsOK, CurrentClient
<1> QED
  BY <1>1, <1>2 DEF ClientsOK

\* So does a request; Refresh also invalidates.
LEMMA RequestClients ==
    ASSUME Types, ClientsOK, NEW r \in Requests, RequestNext(r) PROVE ClientsOK'
<1> USE DEF Types
<1>0. r \in Tasks
  BY DEF Tasks
<1>1. ASSUME Answer(r), UNCHANGED <<defs, clients, applyVars, tainted>>
      PROVE  ClientsOK'
  BY <1>0, <1>1, MoveClients DEF Answer, TypeOK, Carrying
<1>2. ASSUME NEW n \in Clusters, RequestRefresh(r, n) PROVE ClientsOK'
  BY <1>0, <1>2, MoveClients DEF RequestRefresh, TypeOK, Carrying
<1>3. ASSUME NEW n \in Clusters, WriteTopic(r, n) \/ Delete(r, n) \/ Send(r, n)
      PROVE  ClientsOK'
  BY <1>0, <1>3, MoveClients DEF WriteTopic, Delete, Send, BeginWrite, TypeOK
<1>4. CASE Write(r)
  <2>1. pc'[r] \in {"refresh", "nudge"}
    BY <1>0, <1>4 DEF Write, AfterWrite, TypeOK
  <2> QED BY <1>0, <1>4, <2>1, MoveClients DEF Write, TypeOK, Carrying
<1>5. CASE WriteFails(r)
  BY <1>1, <1>5 DEF WriteFails
<1>6. ASSUME NEW next, LookupOrEnd(r, next), name[r] \in Clusters PROVE ClientsOK'
  <2>1. CASE defs[name[r]] # None
    BY <1>0, <1>6, <2>1, MoveClients DEF LookupOrEnd, TypeOK
  <2>2. CASE defs[name[r]] = None
    BY <1>1, <1>6, <2>2 DEF LookupOrEnd
  <2> QED BY <2>1, <2>2
<1>7. CASE Refresh(r) \/ RefreshWithoutInvalidate(r)
  BY <1>0, <1>6, <1>7 DEF Refresh, RefreshWithoutInvalidate, TaskOK
<1>8. CASE RefreshInvalidate(r)
  <2>1. name[r] \in Clusters /\ Invalidate(name[r]) /\ UNCHANGED defs
    BY <1>0, <1>8 DEF RefreshInvalidate, TaskOK
  <2>2. \A u \in Tasks, m \in Clusters :
          Outdated(u, m, defs)' => Outdated(u, m, defs)
    BY <1>0, <1>8 DEF RefreshInvalidate, Outdated, TypeOK, fetchVars
  <2>3. \A m \in Clusters : Pending(m) => Pending(m)'
    BY <1>8 DEF RefreshInvalidate, Pending, applyVars
  <2> QED BY <2>1, <2>2, <2>3, InvalidateClients
<1>9. CASE RequestStore(r)
  BY <1>1, <1>9 DEF RequestStore
<1>10. CASE CancelRequest(r)
  <2>1. UNCHANGED <<defs, clients, applyVars, tainted, pc, name, def>>
    BY <1>10 DEF CancelRequest
  <2> QED BY <2>1 DEF ClientsOK, Outdated, CurrentClient, Pending, applyVars
<1> QED
  BY <1>0, <1>2, <1>3, <1>4, <1>5, <1>7, <1>8, <1>9, <1>10, FetchClients
  DEF RequestNext, RequestStep

\* A reload taints what its swap overtakes and invalidates what changed.
LEMMA ApplyClients ==
    ASSUME Types, ClientsOK, NEW a \in Appliers, ApplyNext(a) PROVE ClientsOK'
<1> USE DEF Types
<1>0. a # None
  BY TaskAssumption
<1>1. ASSUME UNCHANGED <<defs, clients, tainted>>,
             \A u \in Tasks, m \in Clusters :
               Outdated(u, m, defs)' => Outdated(u, m, defs),
             \A m \in Clusters : ~Pending(m)
      PROVE  ClientsOK'
  BY <1>1 DEF ClientsOK, CurrentClient
<1>2. ASSUME UNCHANGED <<defs, pc, fetchVars>>
      PROVE  \A u \in Tasks, m \in Clusters :
               Outdated(u, m, defs)' => Outdated(u, m, defs)
  BY <1>2 DEF Outdated, fetchVars
<1>3. ASSUME applyPc[a] # "idle" PROVE applyMu = a
  BY <1>3 DEF LockOK
<1>4. ASSUME NEW cfg \in Configs, ApplyLock(a, cfg) PROVE ClientsOK'
  BY <1>1, <1>2, <1>4 DEF ApplyLock, Pending
<1>5. CASE ApplySave(a)
  BY <1>1, <1>2, <1>3, <1>5 DEF ApplySave, Pending
<1>6. CASE ApplySaveFails(a)
  BY <1>1, <1>2, <1>3, <1>6 DEF ApplySaveFails, Pending
<1>7. CASE ApplyReplace(a)
  <2>1. /\ applyMu = a /\ applyMu' = a /\ applyPc'[a] = "invalidate"
        /\ todo'[a] = ChangedOrRemoved(defs, snap[a])
        /\ defs' = snap[a] /\ UNCHANGED <<clients, pc, fetchVars>>
    BY <1>3, <1>7 DEF ApplyReplace, TypeOK
  <2>2. \A t \in Tasks, n \in Clusters : Outdated(t, n, defs)' => n \in tainted'
    BY <1>7, <2>1 DEF ApplyReplace, Outdated, fetchVars
  <2>3. ASSUME NEW n \in Clusters \ tainted', clients'[n] # None
        PROVE  CurrentClient(n)' \/ Pending(n)'
    <3>1. CurrentClient(n)
      BY <1>7, <2>1, <2>3 DEF ApplyReplace, ClientsOK, Pending
    <3>2. CASE snap[a][n] = None \/ defs[n].conn # snap[a][n].conn
      BY <1>0, <2>1, <3>1, <3>2
      DEF ChangedOrRemoved, Configured, CurrentClient, Pending
    <3>3. CASE snap[a][n] # None /\ defs[n].conn = snap[a][n].conn
      BY <2>1, <3>1, <3>3 DEF CurrentClient
    <3> QED BY <3>2, <3>3
  <2> QED BY <2>2, <2>3 DEF ClientsOK
<1>8. CASE ApplyInvalidate(a)
  <2>1. applyMu = a /\ applyMu' = a /\ UNCHANGED <<defs, pc, fetchVars>>
    BY <1>3, <1>8 DEF ApplyInvalidate
  <2>2. ASSUME NEW n \in todo[a], Invalidate(n),
               todo' = [todo EXCEPT ![a] = @ \ {n}], UNCHANGED applyPc
        PROVE  ClientsOK'
    <3>1. n \in Clusters /\ todo'[a] = todo[a] \ {n}
      BY <2>2 DEF TypeOK
    <3>2. \A m \in Clusters \ {n} : Pending(m) => Pending(m)'
      BY <2>1, <2>2, <3>1 DEF Pending
    <3> QED BY <1>2, <2>1, <2>2, <3>1, <3>2, InvalidateClients
  <2>3. CASE todo[a] = {} /\ UNCHANGED <<clients, todo, tainted>>
    BY <1>1, <1>2, <2>1, <2>3 DEF Pending
  <2> QED BY <1>8, <2>2, <2>3 DEF ApplyInvalidate
<1>9. CASE ReloadAlign(a)
  <2>1. \A u \in Tasks, m \in Clusters :
          Outdated(u, m, defs)' => Outdated(u, m, defs)
    BY <1>9 DEF ReloadAlign, Outdated
  <2> QED BY <1>1, <1>3, <1>9, <2>1 DEF ReloadAlign, Pending
<1>10. CASE ReloadLaunch(a)
  <2>1. UNCHANGED <<defs, clients, tainted, def>>
    BY <1>10 DEF ReloadLaunch
  <2>2. ASSUME NEW u \in Tasks, NEW m \in Clusters, Outdated(u, m, defs)'
        PROVE  Outdated(u, m, defs)
    <3>1. PICK n \in todo[a] : Launch(n)
      BY <1>10 DEF ReloadLaunch
    <3>2. (pc'[u] = pc[u] /\ name'[u] = name[u]) \/ pc'[u] = "scrape"
      BY <3>1 DEF Launch, TypeOK
    <3> QED BY <2>1, <2>2, <3>2 DEF Outdated
  <2> QED BY <1>1, <1>3, <1>10, <2>1, <2>2 DEF ReloadLaunch, Pending
<1>11. CASE ApplyDone(a)
  BY <1>1, <1>2, <1>3, <1>11 DEF ApplyDone, Pending
<1> QED
  BY <1>4, <1>5, <1>6, <1>7, <1>8, <1>9, <1>10, <1>11 DEF ApplyNext, ApplyStep

\* Start touches neither the pool nor a lookup.
LEMMA StartClients ==
    ASSUME Types, ClientsOK, Start PROVE ClientsOK'
<1>1. UNCHANGED <<defs, clients, applyVars, tainted, def>>
  BY DEF Start
<1>2. ASSUME NEW u \in Tasks, NEW n \in Clusters, Outdated(u, n, defs)'
      PROVE  Outdated(u, n, defs)
  <2>1. pc'[u] = "scrape" \/ (pc'[u] = pc[u] /\ name'[u] = name[u])
    BY DEF Start
  <2> QED BY <1>1, <1>2, <2>1 DEF Outdated
<1> QED
  BY <1>1, <1>2 DEF ClientsOK, CurrentClient, Pending, applyVars

\* Every step keeps the pool explained.
LEMMA NextClients == ASSUME Types, ClientsOK, [Next]_vars PROVE ClientsOK'
<1>1. CASE UNCHANGED vars
  BY <1>1 DEF vars, ClientsOK, Outdated, CurrentClient, Pending
<1> QED
  BY <1>1, StartClients, ScraperClients, RequestClients, ApplyClients, NextCases

\* A stale pooled client is always the work of a task that looked its
\* Definition up before a reload changed it.
THEOREM StaleClientsExplained == Spec => []StaleClientOnlyIfTainted
<1>1. Init => ClientsOK
  BY DEF Init, ClientsOK, Outdated, Carrying, Tasks
<1>2. ClientsOK => StaleClientOnlyIfTainted
  BY DEF ClientsOK, CurrentClient, Pending, StaleClientOnlyIfTainted
<1> QED
  BY <1>1, <1>2, NextClients, AlwaysTypes, PTL DEF Spec

----------------------------------------------------------------------------
(* Read your writes *)

\* A task with a stamp; whether it has the offsets of its cluster as well.
Stamped(t) == pc[t] \in {"stamped", "listed", "fetched"}
Holding(t) == pc[t] \in {"listed", "fetched"} /\ data[t] # None
Entry(n) == states[n] # None /\ states[n].data # None

\* Nobody waits for a write that has not happened.
DueOK ==
    /\ \A t \in Tasks : t \in Scrapers \/ pc[t] = "idle" => due[t] = 0
    /\ \A t \in Tasks : due[t] # 0 => due[t] <= log[name[t]]
    /\ \A n \in Clusters : acked["record"][n] <= log[n]

\* No two refreshes have the same stamp, and none is from the future.
StampsOK ==
    /\ \A t \in Tasks : Stamped(t) => at[t] <= clock
    /\ \A t, u \in Tasks : Stamped(t) /\ Stamped(u) /\ at[t] = at[u] => t = u
    /\ \A n \in Clusters : states[n] # None => states[n].at <= clock

\* Offsets are listed after the stamp: a later stamp means offsets that include
\* what the earlier one was to see, in a task ...
HeldOK ==
    /\ \A t \in Tasks : Holding(t) => data[t] >= due[t]
    /\ \A t, u \in Tasks :
          /\ Holding(t) /\ Stamped(u) /\ name[t] = name[u] /\ at[t] > at[u]
          => data[t] >= due[u]
    /\ \A t \in Tasks :
          /\ Holding(t) /\ states[name[t]] # None
          /\ at[t] >= states[name[t]].at
          => data[t] >= acked["record"][name[t]]

\* ... and in the cache; what was acknowledged is in the cache.
EntryOK ==
    /\ OffsetsReadYourWrites
    /\ \A u \in Tasks :
          /\ Stamped(u) /\ Entry(name[u]) /\ states[name[u]].at > at[u]
          => states[name[u]].data >= due[u]
    /\ \A n \in Clusters : acked["record"][n] # 0 => states[n] # None

\* Once the clock has reached its bound stamps repeat; before, they do not.
ReadInv == clock < MaxClock => StampsOK /\ HeldOK /\ EntryOK

LEMMA ReadTypes ==
    ASSUME Types
    PROVE  /\ clock \in Nat /\ MaxClock \in Nat
           /\ \A t \in Tasks :
                 /\ at[t] \in Nat /\ due[t] \in Nat
                 /\ data[t] \in Nat \cup {None}
                 /\ pc[t] \notin {"free", "idle"} => name[t] \in Clusters
                 /\ Stamped(t) => name[t] \in Clusters
           /\ \A n \in Clusters :
                 /\ log[n] \in Nat /\ acked["record"][n] \in Nat
                 /\ states[n] # None =>
                       /\ states[n].at \in Nat
                       /\ states[n].data \in Nat \cup {None}
<1>1. /\ clock \in Nat /\ MaxClock \in Nat
      /\ \A t \in Tasks : at[t] \in Nat /\ due[t] \in Nat
      /\ \A t \in Tasks : data[t] \in Nat \cup {None}
  BY BoundAssumption DEF Types, TypeOK, Seen
<1>2. \A t \in Tasks :
        pc[t] \notin {"free", "idle"} => name[t] \in Clusters
  BY DEF Types, TaskOK
<1>3. \A n \in Clusters : log[n] \in Nat /\ acked["record"][n] \in Nat
  BY BoundAssumption DEF Types, TypeOK, Kinds
<1>4. \A n \in Clusters : states[n] # None =>
        states[n].at \in Nat /\ states[n].data \in Nat \cup {None}
  BY BoundAssumption DEF Types, TypeOK, RuntimeStates, Seen
<1> QED
  BY <1>1, <1>2, <1>3, <1>4 DEF Stamped

\* A step that stores nothing, stamps nothing and lists nothing, and in which
\* only a task without a stamp gets something to wait for.
LEMMA QuietStep ==
    ASSUME Types, ReadInv, DueOK,
           UNCHANGED <<states, clock, acked, at, data>>,
           \A t \in Tasks : Stamped(t)' =>
               Stamped(t) /\ name'[t] = name[t] /\ due'[t] = due[t],
           \A t \in Tasks : Holding(t)' => Holding(t)
    PROVE  ReadInv'
<1> SUFFICES ASSUME clock < MaxClock PROVE StampsOK' /\ HeldOK' /\ EntryOK'
  BY DEF ReadInv
<1>1. StampsOK /\ HeldOK /\ EntryOK
  BY DEF ReadInv
<1>2. \A t \in Tasks : Holding(t) => Stamped(t)
  BY DEF Holding, Stamped
<1>3. \A t \in Tasks : Holding(t)' => Stamped(t)'
  BY DEF Holding, Stamped
<1>4. StampsOK'
  BY <1>1 DEF StampsOK
<1>5. HeldOK'
  BY <1>1, <1>3 DEF HeldOK
<1>6. EntryOK'
  BY <1>1 DEF EntryOK, Entry, OffsetsReadYourWrites
<1> QED
  BY <1>4, <1>5, <1>6

\* The clock strictly advances with every stamp until it reaches its bound.
LEMMA StampStep ==
    ASSUME Types, ReadInv, NEW t \in Tasks, MetadataStamp(t) \/ FetchOffline(t)
    PROVE  ReadInv'
<1> SUFFICES ASSUME clock' < MaxClock PROVE StampsOK' /\ HeldOK' /\ EntryOK'
  BY DEF ReadInv
<1>1. /\ clock' = clock + 1 /\ at' = [at EXCEPT ![t] = clock + 1]
      /\ UNCHANGED <<states, acked, name, due>>
      /\ clock < MaxClock
  BY ReadTypes DEF MetadataStamp, FetchOffline, Tick
<1>2. /\ at'[t] = clock + 1
      /\ \A u \in Tasks : u # t =>
            at'[u] = at[u] /\ pc'[u] = pc[u] /\ data'[u] = data[u]
  BY <1>1 DEF MetadataStamp, FetchOffline, Types, TypeOK
<1>3. ~Holding(t)'
  <2>1. CASE MetadataStamp(t)
    BY <2>1 DEF MetadataStamp, Types, TypeOK, Holding
  <2>2. CASE FetchOffline(t)
    BY <2>2 DEF FetchOffline, Types, TypeOK, Holding
  <2> QED
    BY <2>1, <2>2
<1>4. \A u \in Tasks : u # t =>
        (Stamped(u)' <=> Stamped(u)) /\ (Holding(u)' <=> Holding(u))
  BY <1>2 DEF Stamped, Holding
<1>5. StampsOK /\ HeldOK /\ EntryOK
  BY <1>1 DEF ReadInv
<1>6. \A u \in Tasks : Stamped(u) => at[u] < clock + 1
  BY <1>5, ReadTypes DEF StampsOK
<1>7. \A n \in Clusters : states[n] # None => states[n].at < clock + 1
  BY <1>5, ReadTypes DEF StampsOK
<1>8. StampsOK'
  BY <1>1, <1>2, <1>4, <1>5, <1>6, ReadTypes DEF StampsOK
<1>9. HeldOK'
  <2>1. \A u \in Tasks : Holding(u)' => u # t /\ Holding(u) /\ Stamped(u)
    BY <1>3, <1>4 DEF Holding, Stamped
  <2>2. ASSUME NEW u \in Tasks, NEW v \in Tasks, Holding(u)', Stamped(v)',
               name'[u] = name'[v], at'[u] > at'[v]
        PROVE  data'[u] >= due'[v]
    <3>1. v # t
      BY <1>2, <1>6, <2>1, <2>2, ReadTypes
    <3> QED
      BY <1>1, <1>2, <1>4, <1>5, <2>1, <2>2, <3>1 DEF HeldOK
  <2>3. ASSUME NEW u \in Tasks, Holding(u)'
        PROVE  /\ data'[u] >= due'[u]
               /\ states'[name'[u]] # None /\ at'[u] >= states'[name'[u]].at
                  => data'[u] >= acked'["record"][name'[u]]
    BY <1>1, <1>2, <1>5, <2>1, <2>3 DEF HeldOK
  <2> QED
    BY <2>2, <2>3 DEF HeldOK
<1>10. EntryOK'
  <2>1. OffsetsReadYourWrites'
    BY <1>1, <1>5 DEF EntryOK, OffsetsReadYourWrites
  <2>2. ASSUME NEW u \in Tasks, Stamped(u)', Entry(name[u])',
               states'[name'[u]].at > at'[u]
        PROVE  states'[name'[u]].data >= due'[u]
    <3>1. u # t
      <4>1. CASE u = t
        <5>1. states[name[t]] # None /\ states[name[t]].at > clock + 1
          BY <1>1, <1>2, <2>2, <4>1 DEF Entry
        <5>2. name[t] \in Clusters
          BY ReadTypes DEF MetadataStamp, FetchOffline
        <5> QED
          BY <1>7, <5>1, <5>2, ReadTypes
      <4> QED
        BY <4>1
    <3> QED
      BY <1>1, <1>2, <1>4, <1>5, <2>2, <3>1 DEF EntryOK, Entry
  <2>3. \A n \in Clusters : acked'["record"][n] # 0 => states'[n] # None
    BY <1>1, <1>5 DEF EntryOK
  <2> QED
    BY <1>1, <2>1, <2>2, <2>3 DEF EntryOK, Entry
<1> QED
  BY <1>8, <1>9, <1>10

\* What is listed includes every write so far.
LEMMA ListStep ==
    ASSUME Types, ReadInv, DueOK, NEW t \in Tasks, ListOffsets(t)
    PROVE  ReadInv'
<1> SUFFICES ASSUME clock < MaxClock PROVE StampsOK' /\ HeldOK' /\ EntryOK'
  BY DEF ReadInv, ListOffsets, envVars
<1>1. /\ pc[t] = "stamped" /\ pc'[t] = "listed"
      /\ data'[t] = log[name[t]] \/ data'[t] = None
      /\ \A u \in Tasks : u # t => pc'[u] = pc[u] /\ data'[u] = data[u]
      /\ UNCHANGED <<states, acked, clock, at, name, due>>
  BY DEF ListOffsets, envVars, Types, TypeOK
<1>2. StampsOK /\ HeldOK /\ EntryOK
  BY DEF ReadInv
<1>3. \A u \in Tasks : Stamped(u)' <=> Stamped(u)
  BY <1>1 DEF Stamped
<1>4. \A u \in Tasks : u # t => (Holding(u)' <=> Holding(u))
  BY <1>1 DEF Holding
<1>5. name[t] \in Clusters
  BY <1>1, ReadTypes
<1>6. Holding(t)' =>
        /\ data'[t] = log[name[t]]
        /\ \A u \in Tasks : name[u] = name[t] => data'[t] >= due[u]
        /\ data'[t] >= acked["record"][name[t]]
  BY <1>1, <1>5, ReadTypes DEF Holding, DueOK
<1>7. StampsOK'
  BY <1>1, <1>2, <1>3 DEF StampsOK
<1>8. HeldOK'
  BY <1>1, <1>2, <1>3, <1>4, <1>6 DEF HeldOK
<1>9. EntryOK'
  BY <1>1, <1>2, <1>3 DEF EntryOK, Entry, OffsetsReadYourWrites
<1> QED
  BY <1>7, <1>8, <1>9

\* A finished refresh: the entry's stamp does not go back, and its offsets are
\* those the task holds or those of a later stamp.
LEMMA StoreEntry ==
    ASSUME Types, NEW t \in Tasks, pc[t] = "fetched", states' = StoreState(t)
    PROVE  LET n == name[t] IN
           /\ \A m \in Clusters : m # n => states'[m] = states[m]
           /\ \/ /\ states'[n] # None /\ states'[n].at = at[t]
                 /\ states'[n].data = data[t]
                 /\ states[n] # None => states[n].at <= at[t]
              \/ states'[n] = states[n] /\ ~live[t]
              \/ /\ states'[n] = states[n] /\ states[n] # None
                 /\ states[n].at > at[t]
<1>1. /\ name[t] \in Clusters /\ at[t] \in Nat
      /\ states[name[t]] # None => states[name[t]].at \in Nat
  BY ReadTypes
<1> DEFINE new == [def |-> def[t], at |-> at[t], meta |-> meta[t],
                   data |-> data[t]]
<1>2. CASE live[t] /\ (states[name[t]] = None \/ states[name[t]].at <= at[t])
  <2>1. states' = [states EXCEPT ![name[t]] = new]
    BY <1>2 DEF StoreState
  <2>2. new # None
    <3>1. new \in RuntimeStates
      BY <1>1 DEF RuntimeStates, Types, TypeOK, TaskOK, Fetching
    <3> QED
      BY <3>1, StateAssumption
  <2>3. /\ states'[name[t]] = new
        /\ \A m \in Clusters : m # name[t] => states'[m] = states[m]
    BY <1>1, <2>1 DEF Types, TypeOK
  <2> QED
    BY <1>2, <2>2, <2>3
<1>3. CASE ~(live[t] /\ (states[name[t]] = None \/ states[name[t]].at <= at[t]))
  <2>1. states' = states
    BY <1>3 DEF StoreState
  <2> QED
    BY <1>1, <1>3, <2>1
<1> QED
  BY <1>2, <1>3

\* A finished refresh keeps the promises of the others and its own: the
\* offsets that are in the cache afterwards include its write.
LEMMA StoreStep ==
    ASSUME Types, ReadInv, NEW t \in Tasks, pc[t] = "fetched",
           states' = StoreState(t), clock' = clock, ~Stamped(t)',
           \A u \in Tasks : u # t =>
               /\ pc'[u] = pc[u] /\ name'[u] = name[u] /\ due'[u] = due[u]
               /\ at'[u] = at[u] /\ data'[u] = data[u],
           \A m \in Clusters :
               \/ acked'["record"][m] = acked["record"][m]
               \/ m = name[t] /\ live[t] /\ acked'["record"][m] = due[t]
    PROVE  ReadInv'
<1> SUFFICES ASSUME clock < MaxClock PROVE StampsOK' /\ HeldOK' /\ EntryOK'
  BY DEF ReadInv
<1> DEFINE n == name[t]
<1>1. StampsOK /\ HeldOK /\ EntryOK
  BY DEF ReadInv
<1>2. /\ n \in Clusters /\ at[t] \in Nat /\ due[t] \in Nat
      /\ Stamped(t) /\ (data[t] # None => Holding(t))
  BY ReadTypes DEF Stamped, Holding
<1>3. /\ \A u \in Tasks : Stamped(u)' <=> u # t /\ Stamped(u)
      /\ \A u \in Tasks : Holding(u)' <=> u # t /\ Holding(u)
      /\ \A u \in Tasks : Holding(u) => Stamped(u)
  BY DEF Stamped, Holding
<1>4. /\ \A m \in Clusters : m # n => states'[m] = states[m]
      /\ \/ /\ states'[n] # None /\ states'[n].at = at[t]
            /\ states'[n].data = data[t]
            /\ states[n] # None => states[n].at <= at[t]
         \/ states'[n] = states[n] /\ ~live[t]
         \/ /\ states'[n] = states[n] /\ states[n] # None
            /\ states[n].at > at[t]
  BY StoreEntry
<1>5. \A m \in Clusters : m # n => acked'["record"][m] = acked["record"][m]
  OBVIOUS
<1>6. StampsOK'
  <2>1. \A m \in Clusters : states'[m] # None => states'[m].at <= clock
    BY <1>1, <1>2, <1>4 DEF StampsOK
  <2> QED
    BY <1>1, <1>3, <2>1 DEF StampsOK
<1>7. states[n] = None => acked["record"][n] = 0
  BY <1>1, <1>2 DEF EntryOK
\* What the cache has of n after the step.
<1>8. /\ states'[n] # None /\ states'[n].data # None
         => states'[n].data >= acked'["record"][n]
      /\ acked'["record"][n] # 0 => states'[n] # None
  <2>1. CASE /\ states'[n] # None /\ states'[n].at = at[t]
             /\ states'[n].data = data[t]
             /\ states[n] # None => states[n].at <= at[t]
    <3>1. Holding(t) => data[t] >= due[t]
      BY <1>1 DEF HeldOK
    <3>2. Holding(t) => data[t] >= acked["record"][n]
      <4>1. CASE states[n] = None
        BY <1>2, <1>7, <3>1, <4>1, ReadTypes DEF Holding
      <4>2. CASE states[n] # None
        <5>1. at[t] >= states[n].at
          BY <1>2, <2>1, <4>2, ReadTypes
        <5> QED
          BY <1>1, <4>2, <5>1 DEF HeldOK
      <4> QED
        BY <4>1, <4>2
    <3> QED
      BY <1>2, <2>1, <3>1, <3>2
  <2>2. CASE states'[n] = states[n] /\ ~live[t]
    BY <1>1, <1>2, <2>2 DEF EntryOK, OffsetsReadYourWrites
  <2>3. CASE states'[n] = states[n] /\ states[n] # None /\ states[n].at > at[t]
    <3>1. states[n].data # None => states[n].data >= due[t]
      BY <1>1, <1>2, <2>3 DEF EntryOK, Entry
    <3> QED
      BY <1>1, <1>2, <2>3, <3>1 DEF EntryOK, OffsetsReadYourWrites
  <2> QED
    BY <1>4, <2>1, <2>2, <2>3
\* What the others may still expect of it.
<1>9. ASSUME NEW u \in Tasks, u # t, Stamped(u), name[u] = n,
             states'[n] # None, states'[n].data # None, states'[n].at > at[u]
      PROVE  states'[n].data >= due[u]
  <2>1. CASE states'[n].at = at[t] /\ states'[n].data = data[t]
    BY <1>1, <1>2, <1>9, <2>1 DEF HeldOK
  <2>2. CASE states'[n] = states[n]
    BY <1>1, <1>9, <2>2 DEF EntryOK, Entry
  <2> QED
    BY <1>4, <2>1, <2>2
\* What they will store is no older.
<1>10. ASSUME NEW u \in Tasks, u # t, Holding(u), name[u] = n,
              states'[n] # None, at[u] >= states'[n].at
       PROVE  data[u] >= acked'["record"][n]
  <2>1. /\ at[u] \in Nat /\ Stamped(u) /\ data[u] \in Nat
        /\ acked["record"][n] \in Nat
    BY <1>2, <1>3, <1>10, ReadTypes DEF Holding
  <2>2. at[u] > at[t] => data[u] >= due[t]
    BY <1>1, <1>2, <1>10 DEF HeldOK
  <2>3. states[n] # None /\ at[u] >= states[n].at
          => data[u] >= acked["record"][n]
    BY <1>1, <1>10 DEF HeldOK
  <2>4. CASE /\ states'[n].at = at[t]
             /\ states[n] # None => states[n].at <= at[t]
    <3>1. at[u] # at[t]
      BY <1>1, <1>2, <1>10, <2>1 DEF StampsOK
    <3>2. at[u] > at[t]
      BY <1>2, <1>10, <2>1, <2>4, <3>1
    <3>3. states[n] # None => at[u] >= states[n].at
      BY <1>2, <2>1, <2>4, <3>2, ReadTypes
    <3>4. data[u] >= acked["record"][n]
      BY <1>7, <2>1, <2>3, <3>3
    <3> QED
      BY <1>2, <2>2, <3>2, <3>4
  <2>5. CASE states'[n] = states[n] /\ ~live[t]
    BY <1>2, <1>10, <2>3, <2>5
  <2>6. CASE states'[n] = states[n] /\ states[n] # None /\ states[n].at > at[t]
    <3>1. at[u] > at[t]
      BY <1>2, <1>10, <2>1, <2>6, ReadTypes
    <3> QED
      BY <1>2, <1>10, <2>2, <2>3, <2>6, <3>1
  <2> QED
    BY <1>4, <2>4, <2>5, <2>6
<1> HIDE DEF n
<1>11. HeldOK'
  <2>1. \A u \in Tasks : Holding(u)' => data'[u] >= due'[u]
    BY <1>1, <1>3 DEF HeldOK
  <2>2. \A u, v \in Tasks :
          /\ Holding(u)' /\ Stamped(v)' /\ name'[u] = name'[v] /\ at'[u] > at'[v]
          => data'[u] >= due'[v]
    BY <1>1, <1>3 DEF HeldOK
  <2>3. ASSUME NEW u \in Tasks, Holding(u)', states'[name'[u]] # None,
               at'[u] >= states'[name'[u]].at
        PROVE  data'[u] >= acked'["record"][name'[u]]
    <3>1. u # t /\ Holding(u) /\ name'[u] = name[u]
      BY <1>3, <2>3
    <3>2. CASE name[u] = n
      BY <1>10, <2>3, <3>1, <3>2
    <3>3. CASE name[u] # n
      <4>1. name[u] \in Clusters
        BY <1>3, <3>1, ReadTypes
      <4> QED
        BY <1>1, <1>4, <1>5, <2>3, <3>1, <3>3, <4>1 DEF HeldOK
    <3> QED
      BY <3>2, <3>3
  <2> QED
    BY <2>1, <2>2, <2>3 DEF HeldOK
<1>12. EntryOK'
  <2>1. OffsetsReadYourWrites'
    <3>1. ASSUME NEW m \in Clusters, states'[m] # None, states'[m].data # None
          PROVE  states'[m].data >= acked'["record"][m]
      BY <1>1, <1>4, <1>5, <1>8, <3>1 DEF EntryOK, OffsetsReadYourWrites
    <3> QED
      BY <3>1 DEF OffsetsReadYourWrites
  <2>2. ASSUME NEW u \in Tasks, Stamped(u)', Entry(name[u])',
               states'[name'[u]].at > at'[u]
        PROVE  states'[name'[u]].data >= due'[u]
    <3>1. u # t /\ Stamped(u) /\ name'[u] = name[u] /\ name[u] \in Clusters
      BY <1>3, <2>2, ReadTypes
    <3>2. CASE name[u] = n
      BY <1>9, <2>2, <3>1, <3>2 DEF Entry
    <3>3. CASE name[u] # n
      BY <1>1, <1>4, <2>2, <3>1, <3>3 DEF EntryOK, Entry
    <3> QED
      BY <3>2, <3>3
  <2>3. \A m \in Clusters : acked'["record"][m] # 0 => states'[m] # None
    BY <1>1, <1>4, <1>5, <1>8 DEF EntryOK
  <2> QED
    BY <2>1, <2>2, <2>3 DEF EntryOK, Entry
<1> QED
  BY <1>6, <1>11, <1>12

\* The alignment drops an entry together with what was acknowledged, or keeps
\* both.
LEMMA AlignStep ==
    ASSUME Types, ReadInv, NEW a \in Appliers, ReloadAlign(a)
    PROVE  ReadInv'
<1> SUFFICES ASSUME clock < MaxClock PROVE StampsOK' /\ HeldOK' /\ EntryOK'
  BY DEF ReadInv, ReloadAlign
<1>1. StampsOK /\ HeldOK /\ EntryOK
  BY DEF ReadInv
<1>2. UNCHANGED <<clock, pc, name, at, data, due>>
  BY DEF ReloadAlign
<1>3. ASSUME NEW n \in Clusters
      PROVE  \/ states'[n] = None /\ acked'["record"][n] = 0
             \/ /\ (states'[n] = None) <=> (states[n] = None)
                /\ states[n] # None =>
                      /\ states'[n].at = states[n].at
                      /\ states'[n].data = states[n].data
                /\ acked'["record"][n] = acked["record"][n]
  <2>1. \/ states'[n] = None /\ acked'["record"][n] = 0
        \/ /\ \/ states'[n] = states[n]
              \/ /\ states[n] # None /\ defs[n] # None
                 /\ states'[n] = [states[n] EXCEPT !.def = defs[n]]
           /\ acked'["record"][n] = acked["record"][n]
    BY DEF ReloadAlign, Kinds
  <2>2. ASSUME states[n] # None, defs[n] # None,
               states'[n] = [states[n] EXCEPT !.def = defs[n]]
        PROVE  /\ states'[n] # None
               /\ states'[n].at = states[n].at /\ states'[n].data = states[n].data
    <3>1. states[n] \in RuntimeStates /\ defs[n] \in Definitions
      BY <2>2 DEF Types, TypeOK, Configs
    <3>2. states'[n] \in RuntimeStates
      BY <2>2, <3>1 DEF RuntimeStates
    <3> QED
      BY <2>2, <3>1, <3>2, StateAssumption DEF RuntimeStates
  <2> QED
    BY <2>1, <2>2
<1>4. \A t \in Tasks : (Stamped(t)' <=> Stamped(t)) /\ (Holding(t)' <=> Holding(t))
  BY <1>2 DEF Stamped, Holding
<1>5. \A t \in Tasks : Stamped(t) \/ Holding(t) => name[t] \in Clusters
  BY ReadTypes DEF Stamped, Holding
<1>6. StampsOK'
  BY <1>1, <1>2, <1>3, <1>4 DEF StampsOK
<1>7. HeldOK'
  <2>1. ASSUME NEW t \in Tasks, Holding(t)', states'[name'[t]] # None,
               at'[t] >= states'[name'[t]].at
        PROVE  data'[t] >= acked'["record"][name'[t]]
    <3>1. name[t] \in Clusters /\ name'[t] = name[t] /\ Holding(t)
      BY <1>2, <1>4, <1>5, <2>1
    <3> QED
      BY <1>1, <1>2, <1>3, <2>1, <3>1 DEF HeldOK
  <2> QED
    BY <1>1, <1>2, <1>4, <2>1 DEF HeldOK
<1>8. EntryOK'
  <2>1. OffsetsReadYourWrites'
    BY <1>1, <1>3 DEF EntryOK, OffsetsReadYourWrites
  <2>2. ASSUME NEW u \in Tasks, Stamped(u)', Entry(name[u])',
               states'[name'[u]].at > at'[u]
        PROVE  states'[name'[u]].data >= due'[u]
    <3>1. Stamped(u) /\ name'[u] = name[u] /\ name[u] \in Clusters
      BY <1>2, <1>4, <1>5, <2>2
    <3> QED
      BY <1>1, <1>2, <1>3, <2>2, <3>1 DEF EntryOK, Entry
  <2>3. \A m \in Clusters : acked'["record"][m] # 0 => states'[m] # None
    BY <1>1, <1>3 DEF EntryOK
  <2> QED
    BY <2>1, <2>2, <2>3 DEF EntryOK
<1> QED
  BY <1>6, <1>7, <1>8

----------------------------------------------------------------------------
(* Read your writes: every step *)

\* A step that stores, stamps and lists nothing.
Quiet ==
    /\ UNCHANGED <<states, clock, acked, at, data>>
    /\ \A t \in Tasks : Stamped(t)' =>
           Stamped(t) /\ name'[t] = name[t] /\ due'[t] = due[t]
    /\ \A t \in Tasks : Holding(t)' => Holding(t)

\* What a task still waits for after a step, the steps that only move t.
OthersKept(t) ==
    \A u \in Tasks : u # t =>
        pc'[u] = pc[u] /\ name'[u] = name[u] /\ due'[u] = due[u]

LEMMA QuietMove ==
    ASSUME NEW t \in Tasks, OthersKept(t),
           UNCHANGED <<states, clock, acked, at, data>>,
           Stamped(t)' => Stamped(t) /\ name'[t] = name[t] /\ due'[t] = due[t],
           pc'[t] \in {"listed", "fetched"} => pc[t] \in {"listed", "fetched"}
    PROVE  Quiet
<1>1. \A u \in Tasks : u # t =>
         (Stamped(u)' <=> Stamped(u)) /\ (Holding(u)' <=> Holding(u))
  BY DEF OthersKept, Stamped, Holding
<1>2. Holding(t)' => Holding(t)
  BY DEF Holding
<1> QED
  BY <1>1, <1>2 DEF Quiet, OthersKept

\* FetchState waits for what it waited for; most of it is quiet.
LEMMA FetchReads ==
    ASSUME Types, NEW t \in Tasks, Fetch(t)
    PROVE  /\ UNCHANGED <<states, acked, name, due, log>>
           /\ pc[t] \notin {"free", "idle"} /\ pc'[t] \notin {"free", "idle"}
           /\ OthersKept(t)
           /\ Quiet \/ MetadataStamp(t) \/ FetchOffline(t) \/ ListOffsets(t)
<1> USE DEF Types, OthersKept
<1>1. CASE ClientFor(t)
  <2>1. /\ UNCHANGED <<states, acked, name, due, log, clock, at, data>>
        /\ pc' = [pc EXCEPT ![t] = AfterClient[@]]
        /\ pc[t] \in {"topic", "delete", "looked", "listed"}
    BY <1>1 DEF ClientFor, AfterClient, fetchVars, envVars
  <2>2. /\ pc'[t] \in {"create", "purge", "client", "fetched"}
        /\ pc'[t] = "fetched" => pc[t] = "listed"
    BY <1>1 DEF ClientFor, AfterClient, TypeOK
  <2>3. OthersKept(t)
    BY <2>1 DEF TypeOK
  <2>4. Quiet
    BY <2>1, <2>2, <2>3, QuietMove DEF Stamped
  <2> QED
    BY <2>1, <2>2, <2>3, <2>4
<1>2. CASE MetadataAnswer(t)
  <2>1. /\ UNCHANGED <<states, acked, name, due, log, clock, at, data>>
        /\ pc[t] = "client" /\ pc'[t] = "answered" /\ OthersKept(t)
    BY <1>2 DEF MetadataAnswer, envVars, TypeOK
  <2>2. Quiet
    BY <2>1, QuietMove DEF Stamped
  <2> QED
    BY <2>1, <2>2
<1>3. CASE MetadataStamp(t)
  BY <1>3 DEF MetadataStamp, TypeOK
<1>4. CASE FetchOffline(t)
  BY <1>4 DEF FetchOffline, TypeOK
<1>5. CASE ListOffsets(t)
  BY <1>5 DEF ListOffsets, envVars, TypeOK
<1>6. CASE SkipBrokerConfigs(t)
  <2>1. /\ UNCHANGED <<states, acked, name, due, log, clock, at, data>>
        /\ pc[t] = "listed" /\ pc'[t] = "fetched" /\ OthersKept(t)
    BY <1>6 DEF SkipBrokerConfigs, fetchVars, envVars, TypeOK
  <2>2. Quiet
    BY <2>1, QuietMove DEF Stamped
  <2> QED
    BY <2>1, <2>2
<1> QED
  BY <1>1, <1>2, <1>3, <1>4, <1>5, <1>6 DEF Fetch

\* So is a scrape goroutine, but for what it fetches and stores.
LEMMA ScraperReads ==
    ASSUME Types, NEW t \in Scrapers, ScraperStep(t)
    PROVE  /\ UNCHANGED <<acked, due, log>>
           /\ OthersKept(t)
           /\ \/ Quiet \/ ScrapeStore(t)
              \/ MetadataStamp(t) \/ FetchOffline(t) \/ ListOffsets(t)
<1> USE DEF Types
<1>0. t \in Tasks
  BY DEF Tasks
<1>1. CASE ScrapeNow(t) \/ ScrapeTick(t) \/ ScrapeExit(t)
  <2>1. /\ UNCHANGED <<states, acked, due, log, clock, at, data>>
        /\ pc'[t] \in {"free", "scrape", "wait", "looked"} /\ OthersKept(t)
    BY <1>0, <1>1
    DEF ScrapeNow, ScrapeTick, ScrapeExit, fetchVars, envVars, TypeOK, OthersKept
  <2>2. Quiet
    BY <1>0, <2>1, QuietMove DEF Stamped
  <2> QED
    BY <2>1, <2>2
<1>2. CASE Fetch(t)
  BY <1>0, <1>2, FetchReads
<1>3. CASE ScrapeStore(t)
  BY <1>0, <1>3 DEF ScrapeStore, envVars, TypeOK, OthersKept
<1> QED
  BY <1>1, <1>2, <1>3 DEF ScraperStep

\* What an answered request leaves to the others.
LEMMA AnswerReads ==
    ASSUME Types, NEW r \in Requests, Answer(r)
    PROVE  OthersKept(r) /\ pc'[r] = "idle" /\ due'[r] = 0
BY DEF Answer, Tasks, Types, TypeOK, OthersKept

\* A request starts to wait when it writes, and for no more than has been
\* written; it stops when it answers.
LEMMA RequestReads ==
    ASSUME Types, NEW r \in Requests, RequestNext(r)
    PROVE  /\ OthersKept(r)
           /\ \/ Quiet \/ RequestStore(r)
              \/ MetadataStamp(r) \/ FetchOffline(r) \/ ListOffsets(r)
           /\ acked' = acked \/ RequestStore(r)
           /\ \A n \in Clusters : log'[n] >= log[n]
           /\ \/ due'[r] = 0
              \/ /\ due'[r] = due[r]
                 /\ pc[r] = "idle" \/ (pc'[r] # "idle" /\ name'[r] = name[r])
              \/ /\ pc'[r] # "idle" /\ name'[r] = name[r] /\ name[r] \in Clusters
                 /\ due'[r] = log'[name[r]]
<1> DEFINE Kept == UNCHANGED <<states, acked, clock, at, data>>
<1>0. r \in Tasks /\ \A n \in Clusters : log[n] \in Nat
  BY ReadTypes DEF Tasks
<1>1. ASSUME NEW n \in Clusters,
             \/ RequestRefresh(r, n)
             \/ WriteTopic(r, n) \/ Delete(r, n) \/ Send(r, n)
      PROVE  /\ Kept /\ UNCHANGED <<due, log>> /\ OthersKept(r)
             /\ pc[r] = "idle"
             /\ pc'[r] \in {"refresh", "topic", "delete", "produce"}
  BY <1>0, <1>1
  DEF RequestRefresh, WriteTopic, Delete, Send, BeginWrite, envVars, Types,
      TypeOK, OthersKept
<1>2. CASE Write(r)
  <2>1. /\ Kept /\ OthersKept(r) /\ name' = name
        /\ pc[r] \in {"create", "purge", "produce"}
    BY <1>0, <1>2 DEF Write, AfterWrite, Types, TypeOK, OthersKept
  <2>2. pc'[r] \in {"refresh", "nudge"}
    BY <1>0, <1>2 DEF Write, AfterWrite, Types, TypeOK
  <2>3. name[r] \in Clusters
    BY <1>0, <2>1, ReadTypes
  <2>4. /\ due'[r] = log'[name[r]]
        /\ \A n \in Clusters : log'[n] >= log[n]
    BY <1>0, <1>2, <2>3 DEF Write, Types, TypeOK
  <2>5. Quiet
    BY <1>0, <2>1, <2>2, QuietMove DEF Stamped
  <2> QED
    BY <2>1, <2>2, <2>3, <2>4, <2>5
<1>3. CASE WriteFails(r)
  <2>1. Kept /\ log' = log
    BY <1>3 DEF WriteFails, envVars
  <2>2. OthersKept(r) /\ pc'[r] = "idle" /\ due'[r] = 0
    BY <1>3, AnswerReads DEF WriteFails
  <2>3. Quiet
    BY <1>0, <2>1, <2>2, QuietMove DEF Stamped
  <2> QED
    BY <1>0, <2>1, <2>2, <2>3
<1>4. ASSUME NEW next \in {"invalidate", "looked"}, LookupOrEnd(r, next)
      PROVE  /\ Kept /\ log' = log /\ OthersKept(r) /\ Quiet
             /\ \/ due'[r] = 0
                \/ due'[r] = due[r] /\ pc'[r] # "idle" /\ name'[r] = name[r]
  <2>1. Kept /\ log' = log
    BY <1>4 DEF LookupOrEnd, envVars
  <2>2. /\ OthersKept(r) /\ pc'[r] \in {"idle", "invalidate", "looked"}
        /\ \/ due'[r] = 0
           \/ due'[r] = due[r] /\ pc'[r] # "idle" /\ name'[r] = name[r]
    <3>1. CASE defs[name[r]] # None
      BY <1>0, <1>4, <3>1 DEF LookupOrEnd, Types, TypeOK, OthersKept
    <3>2. CASE defs[name[r]] = None
      BY <1>4, <3>2, AnswerReads DEF LookupOrEnd
    <3> QED
      BY <3>1, <3>2
  <2>3. Quiet
    BY <1>0, <2>1, <2>2, QuietMove DEF Stamped
  <2> QED
    BY <2>1, <2>2, <2>3
<1>5. CASE RefreshInvalidate(r)
  <2>1. /\ Kept /\ UNCHANGED <<name, due, log>> /\ pc'[r] = "looked"
        /\ OthersKept(r)
    BY <1>0, <1>5
    DEF RefreshInvalidate, fetchVars, envVars, Types, TypeOK, OthersKept
  <2>2. Quiet
    BY <1>0, <2>1, QuietMove DEF Stamped
  <2> QED
    BY <1>0, <2>1, <2>2
<1>6. CASE CancelRequest(r)
  <2>1. Kept /\ UNCHANGED <<pc, name, due, log>>
    BY <1>6 DEF CancelRequest, envVars
  <2>2. Quiet
    BY <1>0, <2>1, QuietMove DEF Stamped, OthersKept
  <2> QED
    BY <1>0, <2>1, <2>2 DEF OthersKept
<1>7. CASE RequestStore(r)
  BY <1>0, <1>7, AnswerReads DEF RequestStore
<1>8. CASE Fetch(r)
  BY <1>0, <1>8, FetchReads
<1>9. ASSUME NEW n \in Clusters,
             \/ RequestRefresh(r, n)
             \/ WriteTopic(r, n) \/ Delete(r, n) \/ Send(r, n)
      PROVE  Quiet
  BY <1>0, <1>1, <1>9, QuietMove DEF Stamped
<1>10. CASE Refresh(r) \/ RefreshWithoutInvalidate(r)
  BY <1>0, <1>4, <1>10 DEF Refresh, RefreshWithoutInvalidate
<1>11. CASE \E n \in Clusters :
              \/ RequestRefresh(r, n)
              \/ WriteTopic(r, n) \/ Delete(r, n) \/ Send(r, n)
  BY <1>0, <1>1, <1>9, <1>11
<1> QED
  BY <1>2, <1>3, <1>5, <1>6, <1>7, <1>8, <1>10, <1>11
  DEF RequestNext, RequestStep

\* A reload launches goroutines and rewrites or drops entries.
LEMMA ApplyReads ==
    ASSUME Types, NEW a \in Appliers, ApplyNext(a)
    PROVE  /\ UNCHANGED <<due, log>>
           /\ Quiet \/ ReloadAlign(a)
           /\ \A n \in Clusters : \/ acked'["record"][n] = acked["record"][n]
                                  \/ acked'["record"][n] = 0
           /\ \A t \in Requests : pc'[t] = pc[t] /\ name'[t] = name[t]
<1> DEFINE Kept == UNCHANGED <<states, acked, clock, at, data, due, log>>
<1>1. CASE \/ \E cfg \in Configs : ApplyLock(a, cfg)
           \/ ApplySave(a) \/ ApplySaveFails(a) \/ ApplyReplace(a)
           \/ ApplyInvalidate(a) \/ ApplyDone(a)
  <2>1. Kept /\ UNCHANGED <<pc, name>>
    BY <1>1
    DEF ApplyLock, ApplySave, ApplySaveFails, ApplyReplace, ApplyInvalidate,
        ApplyDone, fetchVars, envVars
  <2> QED
    BY <2>1 DEF Quiet, Stamped, Holding
<1>2. CASE ReloadAlign(a)
  BY <1>2 DEF ReloadAlign, Kinds
<1>3. CASE ReloadLaunch(a)
  <2>1. Kept
    BY <1>3 DEF ReloadLaunch, envVars
  <2>2. \A t \in Tasks : \/ pc'[t] = pc[t] /\ name'[t] = name[t]
                         \/ t \in Scrapers /\ pc'[t] = "scrape"
    BY <1>3 DEF ReloadLaunch, Launch, Tasks, Types, TypeOK
  <2>3. Quiet
    BY <2>1, <2>2 DEF Quiet, Stamped, Holding
  <2> QED
    BY <2>1, <2>2, <2>3, TaskAssumption DEF Tasks
<1> QED
  BY <1>1, <1>2, <1>3 DEF ApplyNext, ApplyStep

LEMMA StartReads ==
    ASSUME Types, Start
    PROVE  /\ UNCHANGED <<due, log, acked>>
           /\ Quiet
           /\ \A t \in Requests : pc'[t] = pc[t] /\ name'[t] = name[t]
<1>1. UNCHANGED <<states, acked, clock, at, data, due, log>>
  BY DEF Start, envVars
<1>2. \A t \in Tasks : \/ pc'[t] = pc[t] /\ name'[t] = name[t]
                       \/ t \in Scrapers /\ pc'[t] = "scrape"
  BY DEF Start, Tasks
<1>3. Quiet
  BY <1>1, <1>2 DEF Quiet, Stamped, Holding
<1> QED
  BY <1>1, <1>2, <1>3, TaskAssumption DEF Tasks

\* What is acknowledged is what was waited for.
LEMMA Acknowledged ==
    ASSUME Types, NEW r \in Requests, RequestStore(r), NEW n \in Clusters
    PROVE  \/ acked'["record"][n] = acked["record"][n]
           \/ n = name[r] /\ live[r] /\ acked'["record"][n] = due[r]
BY DEF RequestStore, Kinds, Types, TypeOK

\* Nobody ever waits for a write that has not happened.
LEMMA NextDue == ASSUME Types, DueOK, [Next]_vars PROVE DueOK'
<1> DEFINE
      Waits(t) == /\ t \in Scrapers \/ pc[t] = "idle" => due[t] = 0
                  /\ due[t] # 0 => due[t] <= log[name[t]]
<1>0. /\ \A n \in Clusters : log[n] \in Nat /\ acked["record"][n] \in Nat
      /\ \A t \in Tasks : due[t] \in Nat
      /\ \A r \in Requests : pc[r] # "idle" => name[r] \in Clusters
  <2>1. \A r \in Requests : pc[r] # "free"
    BY DEF Types, TaskOK, Tasks
  <2> QED
    BY <2>1, ReadTypes DEF Tasks
<1>1. \A t \in Tasks : Waits(t)
  BY DEF DueOK
<1>2. SUFFICES /\ \A t \in Tasks : Waits(t)'
               /\ \A n \in Clusters : acked'["record"][n] <= log'[n]
  BY DEF DueOK
<1>3. \A n \in Clusters : acked["record"][n] <= log[n]
  BY DEF DueOK
\* Scrapers wait for nothing, requests on their own.
<1>4. ASSUME UNCHANGED due, NEW t \in Scrapers PROVE Waits(t)'
  BY <1>1, <1>4 DEF Tasks
<1>5. ASSUME UNCHANGED <<due, log>>, NEW r \in Requests, pc'[r] = pc[r],
             name'[r] = name[r]
      PROVE  Waits(r)'
  BY <1>1, <1>5 DEF Tasks
<1>6. CASE UNCHANGED vars
  BY <1>1, <1>3, <1>6 DEF vars
<1>7. CASE Start
  BY <1>3, <1>4, <1>5, <1>7, StartReads DEF Tasks
<1>8. ASSUME NEW t \in Scrapers, ScraperStep(t)
      PROVE  /\ \A u \in Tasks : Waits(u)'
             /\ \A n \in Clusters : acked'["record"][n] <= log'[n]
  <2>1. UNCHANGED <<acked, due, log>> /\ OthersKept(t)
    BY <1>8, ScraperReads
  <2>2. \A r \in Requests : pc'[r] = pc[r] /\ name'[r] = name[r]
    BY <2>1, TaskAssumption DEF OthersKept, Tasks
  <2> QED
    BY <1>3, <1>4, <1>5, <2>1, <2>2 DEF Tasks
<1>9. ASSUME NEW r \in Requests, RequestNext(r)
      PROVE  /\ \A u \in Tasks : Waits(u)'
             /\ \A n \in Clusters : acked'["record"][n] <= log'[n]
  <2>1. /\ OthersKept(r) /\ r \in Tasks /\ r \notin Scrapers
        /\ acked' = acked \/ RequestStore(r)
        /\ \A n \in Clusters : log'[n] \in Nat /\ log'[n] >= log[n]
    BY <1>0, <1>9, RequestReads, NextTypes, TaskAssumption
    DEF Tasks, Next, RequestNext, Types, TypeOK
  <2>2. Waits(r)'
    <3>1. CASE due'[r] = 0
      BY <2>1, <3>1
    <3>2. CASE /\ due'[r] = due[r] /\ due[r] # 0
               /\ pc[r] = "idle" \/ (pc'[r] # "idle" /\ name'[r] = name[r])
      <4>1. pc[r] # "idle" /\ name[r] \in Clusters
        BY <1>0, <1>1, <2>1, <3>2
      <4> QED
        BY <1>0, <1>1, <2>1, <3>2, <4>1
    <3>3. CASE /\ pc'[r] # "idle" /\ name'[r] = name[r]
               /\ name[r] \in Clusters /\ due'[r] = log'[name[r]]
      BY <2>1, <3>3
    <3> QED
      BY <1>9, <3>1, <3>2, <3>3, RequestReads
  <2>3. ASSUME NEW u \in Tasks, u # r PROVE Waits(u)'
    <3>1. pc'[u] = pc[u] /\ name'[u] = name[u] /\ due'[u] = due[u]
      BY <2>1, <2>3 DEF OthersKept
    <3>2. CASE due[u] = 0
      BY <3>1, <3>2
    <3>3. CASE due[u] # 0
      <4>1. u \notin Scrapers /\ pc[u] # "idle" /\ due[u] <= log[name[u]]
        BY <1>1, <3>3
      <4>2. name[u] \in Clusters
        BY <1>0, <4>1 DEF Tasks
      <4>3. due[u] <= log'[name[u]]
        BY <1>0, <2>1, <4>1, <4>2
      <4> QED
        BY <3>1, <4>1, <4>3
    <3> QED
      BY <3>2, <3>3
  <2>4. ASSUME NEW n \in Clusters PROVE acked'["record"][n] <= log'[n]
    <3>1. CASE acked'["record"][n] = acked["record"][n]
      BY <1>0, <1>3, <2>1, <3>1
    <3>2. CASE RequestStore(r) /\ n = name[r] /\ acked'["record"][n] = due[r]
      <4>1. due[r] <= log[n]
        BY <1>0, <1>1, <2>1, <3>2
      <4> QED
        BY <1>0, <2>1, <3>2, <4>1
    <3> QED
      BY <2>1, <3>1, <3>2, Acknowledged
  <2> QED
    BY <2>2, <2>3, <2>4
<1>10. ASSUME NEW a \in Appliers, ApplyNext(a)
       PROVE  /\ \A u \in Tasks : Waits(u)'
              /\ \A n \in Clusters : acked'["record"][n] <= log'[n]
  <2>1. \A n \in Clusters : acked'["record"][n] <= log'[n]
    BY <1>0, <1>3, <1>10, ApplyReads
  <2>2. \A u \in Tasks : Waits(u)'
    BY <1>4, <1>5, <1>10, ApplyReads DEF Tasks
  <2> QED
    BY <2>1, <2>2
<1> QED
  BY <1>6, <1>7, <1>8, <1>9, <1>10, NextCases

\* The promises survive every step.
LEMMA NextRead == ASSUME Types, DueOK, ReadInv, [Next]_vars PROVE ReadInv'
<1>1. ASSUME Quiet PROVE ReadInv'
  BY <1>1, QuietStep DEF Quiet
<1>2. CASE UNCHANGED vars
  <2>1. Quiet
    BY <1>2 DEF vars, Quiet, Stamped, Holding
  <2> QED
    BY <1>1, <2>1
<1>3. CASE Start
  BY <1>1, <1>3, StartReads
<1>4. ASSUME NEW t \in Tasks,
             \/ Quiet \/ MetadataStamp(t) \/ FetchOffline(t) \/ ListOffsets(t)
      PROVE  ReadInv'
  BY <1>1, <1>4, StampStep, ListStep
<1>5. ASSUME NEW t \in Scrapers, ScraperStep(t) PROVE ReadInv'
  <2>1. t \in Tasks
    BY DEF Tasks
  <2>2. CASE ScrapeStore(t)
    <3>1. /\ pc[t] = "fetched" /\ states' = StoreState(t) /\ clock' = clock
          /\ acked' = acked /\ ~Stamped(t)'
      BY <2>1, <2>2 DEF ScrapeStore, envVars, Stamped, Types, TypeOK
    <3>2. \A u \in Tasks : u # t =>
             /\ pc'[u] = pc[u] /\ name'[u] = name[u] /\ due'[u] = due[u]
             /\ at'[u] = at[u] /\ data'[u] = data[u]
      BY <2>1, <2>2 DEF ScrapeStore, Forget, Types, TypeOK
    <3> QED
      BY <2>1, <3>1, <3>2, StoreStep
  <2> QED
    BY <1>4, <1>5, <2>1, <2>2, ScraperReads
<1>6. ASSUME NEW r \in Requests, RequestNext(r) PROVE ReadInv'
  <2>1. r \in Tasks
    BY DEF Tasks
  <2>2. CASE RequestStore(r)
    <3>1. /\ pc[r] = "fetched" /\ states' = StoreState(r) /\ clock' = clock
          /\ OthersKept(r) /\ ~Stamped(r)'
      BY <2>2, AnswerReads DEF RequestStore, Stamped
    <3>2. \A u \in Tasks : u # r =>
             /\ pc'[u] = pc[u] /\ name'[u] = name[u] /\ due'[u] = due[u]
             /\ at'[u] = at[u] /\ data'[u] = data[u]
      BY <2>1, <2>2, <3>1
      DEF RequestStore, Forget, OthersKept, Types, TypeOK
    <3>3. \A n \in Clusters :
             \/ acked'["record"][n] = acked["record"][n]
             \/ n = name[r] /\ live[r] /\ acked'["record"][n] = due[r]
      BY <2>2, Acknowledged
    <3> QED
      BY <2>1, <3>1, <3>2, <3>3, StoreStep
  <2> QED
    BY <1>4, <1>6, <2>1, <2>2, RequestReads
<1>7. ASSUME NEW a \in Appliers, ApplyNext(a) PROVE ReadInv'
  BY <1>1, <1>7, ApplyReads, AlignStep
<1> QED
  BY <1>2, <1>3, <1>5, <1>6, <1>7, NextCases

\* Nothing has been written, stored or stamped at the start.
LEMMA InitRead == Init => DueOK /\ ReadInv
<1> SUFFICES ASSUME Init PROVE DueOK /\ ReadInv
  OBVIOUS
<1>1. DueOK
  BY DEF Init, DueOK, Kinds
<1>2. ReadInv
  BY DEF Init, ReadInv, StampsOK, HeldOK, EntryOK, OffsetsReadYourWrites,
         Stamped, Holding, Entry, Kinds
<1> QED
  BY <1>1, <1>2

\* Read your writes, for message counts: as long as stamps are told apart,
\* whatever scrapes, refreshes, writes and reloads overlap.
THEOREM WritesAreRead ==
    Spec => [](clock < MaxClock => OffsetsReadYourWrites)
<1>1. ReadInv => (clock < MaxClock => OffsetsReadYourWrites)
  BY DEF ReadInv, EntryOK
<1>2. Spec => [](DueOK /\ ReadInv)
  BY InitRead, NextDue, NextRead, AlwaysTypes, PTL DEF Spec
<1> QED
  BY <1>1, <1>2, PTL

=============================================================================
