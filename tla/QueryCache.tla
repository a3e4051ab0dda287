----------------------------- MODULE QueryCache -----------------------------
(***************************************************************************)
(* The web interface at run time: one browser tab, its page, the query     *)
(* cache the page reads, the mutations it started and the confirmation     *)
(* dialog, against a server that applies mutations one at a time and       *)
(* answers a read from the state at some moment of the request.  The query *)
(* library is external; its operations are modelled by what they do to a   *)
(* query: mounting and window focus refetch and join a fetch in flight,    *)
(* invalidating refetches the mounted queries and replaces a fetch in      *)
(* flight once the query has data, and marks the others.                   *)
(***************************************************************************)
EXTENDS Pages, Integers, FiniteSets, SequencesExt

CONSTANTS
    MaxRuns,     \* controls used in one behaviour
    BusyPages,   \* the pages where controls after the first are used
    MaxDialogs,  \* dialogs opened in one behaviour
    MaxEvents    \* events around them, of whatever kinds

ASSUME QueryCacheBounds ==
    {MaxRuns, MaxDialogs, MaxEvents} \subseteq Nat

VARIABLES
    page,     \* the name of the page shown
    cache,    \* the query cache, by query
    runs,     \* the controls used, in order, with their progress
    log,      \* the changes the server applied
    acked,    \* the own changes whose answer arrived, as indices into log
    dialog,   \* {} or {the control being confirmed}
    confirming,  \* isConfirming of the dialog
    draft,    \* the form of the page holds text the user typed
    opened,   \* the dialogs opened so far
    events    \* the events so far, by kind

vars == <<page, cache, runs, log, acked, dialog, confirming, draft, opened, events>>

---------------------------------------------------------------------------
\* The server: the facts an answer shows and those a mutation changes, as pairs
\* of a request and a fact; a request without any has no pair.
With(request, facts) == {request} \X facts
TopicShows ==
    With(getTopics, {"topics", "partitions", "messages", "config"}) \cup
    With(getTopicDetails, {"partitions", "messages", "config"}) \cup
    With(getTopicConfigs, {"config"}) \cup With(listTopicAcls, {"acls"}) \cup
    With(getTopicAnalysis, {"analysis"}) \cup
    With(getTopicConsumerGroups, {"groups", "offsets"})
TopicChanges ==
    With(createTopic, {"topics"}) \cup With(deleteTopic, {"topics"}) \cup
    With(recreateTopic, {"messages"}) \cup With(updateTopic, {"config"}) \cup
    With(increaseTopicPartitions, {"partitions"}) \cup
    With(changeReplicationFactor, {"partitions"}) \cup
    With(deleteTopicMessages, {"messages"}) \cup
    With(sendTopicMessages, {"messages"}) \cup
    With(analyzeTopic, {"analysis"}) \cup
    With(cancelTopicAnalysis, {"analysis"})
ConnectShows ==
    With(getAllConnectors, {"connectors", "state"}) \cup
    With(getConnector, {"state", "connectorConfig"}) \cup
    With(getConnectorTasks, {"state", "tasks"}) \cup
    With(getConnectorConfig, {"connectorConfig"})
ConnectChanges ==
    With(createConnector, {"connectors"}) \cup
    With(deleteConnector, {"connectors"}) \cup
    With(updateConnectorState, {"state", "tasks"}) \cup
    With(restartConnectorTask, {"tasks"}) \cup
    With(setConnectorConfig, {"connectorConfig"})
GroupShows ==
    With(getConsumerGroupsPage, {"groups", "offsets"}) \cup
    With(getConsumerGroup, {"offsets"}) \cup
    With(getConsumerGroupsLag, {"offsets"})
GroupChanges ==
    With(deleteConsumerGroup, {"groups"}) \cup
    With(resetConsumerGroupOffsets, {"offsets"}) \cup
    With(deleteConsumerGroupOffsets, {"offsets"})
SchemaShows ==
    With(getSchemas, {"schemas", "versions", "compatibility"}) \cup
    With(getLatestSchema, {"versions", "compatibility"}) \cup
    With(getAllVersionsBySubject, {"versions", "compatibility"}) \cup
    With(getGlobalSchemaCompatibilityLevel, {"global"})
SchemaChanges ==
    With(createNewSchema, {"schemas", "versions"}) \cup
    With(deleteSchema, {"schemas"}) \cup
    With(updateSchemaCompatibilityLevel, {"compatibility"}) \cup
    With(updateGlobalSchemaCompatibilityLevel, {"compatibility", "global"})
OtherShows ==
    With(listAcls, {"acls"}) \cup With(getBrokerConfig, {"broker"})
OtherChanges ==
    With(createAcl, {"acls"}) \cup With(createConsumerAcl, {"acls"}) \cup
    With(createProducerAcl, {"acls"}) \cup
    With(createStreamAppAcl, {"acls"}) \cup With(deleteAcl, {"acls"}) \cup
    With(updateBrokerConfigByName, {"broker"})
Shows == TopicShows \cup ConnectShows \cup GroupShows \cup SchemaShows
         \cup OtherShows
Changes == TopicChanges \cup ConnectChanges \cup GroupChanges
           \cup SchemaChanges \cup OtherChanges

Affects(request, q) ==
    \E change \in Changes :
        change[1] = request /\ <<q.request, change[2]>> \in Shows

\* Reads below a removed topic, connector, group or subject answer 404.
Removals == {deleteTopic, deleteConnector, deleteConsumerGroup, deleteSchema}
Creations == {createTopic, recreateTopic, createConnector, createNewSchema}
Gone(request, n) ==
    \E i \in 1..n :
        /\ log[i] \in Removals /\ IsPrefix(log[i].path, request.path)
        /\ \A j \in (i + 1)..n : log[j] \notin Creations

---------------------------------------------------------------------------
\* The pages of the site being visited, their queries and their mutations.
\* A query no mutation of the site changes and no page waits for is left out
\* of the cache.
SiteOf(p) == CHOOSE site \in Sites : p \in DOMAIN site
Current == SiteOf(page)[page]
Whole(site) == UNION {{site[x].outer, site[x].inner} : x \in DOMAIN site}
RequestsOf(site) ==
    {hook.request : hook \in
        UNION {Range(o.steps) : o \in UNION {v.offers : v \in Whole(site)}}}
QueriesOf(site) ==
    {q \in UNION {v.reads : v \in Whole(site)} :
        \/ \E request \in RequestsOf(site) : Affects(request, q)
        \/ \E x \in DOMAIN site : q \in site[x].gate}

None == -1
Idle == -1   \* a fetch in flight is the length of the log when it was sent
Empty == [data |-> None, stale |-> FALSE, err |-> FALSE, fetch |-> Idle,
          joined |-> FALSE]

\* Is the inner part of page p mounted?
Open(p, c) ==
    /\ \A q \in SiteOf(p)[p].gate : c[q].data # None /\ ~c[q].err
    /\ \A q \in SiteOf(p)[p].quiet : c[q].fetch = Idle
Active(p, c) ==
    DOMAIN c \cap (SiteOf(p)[p].outer.reads \cup
                   (IF Open(p, c) THEN SiteOf(p)[p].inner.reads ELSE {}))

\* A new fetch; the error of a query that never had data is cleared.
Begin(e) == [e EXCEPT !.fetch = Len(log), !.joined = FALSE,
                      !.err = @ /\ e.data # None]
\* Fetch unless a fetch is in flight already.
Ensure(c, S) == [q \in DOMAIN c |->
                    IF q \in S /\ c[q].fetch = Idle THEN Begin(c[q]) ELSE c[q]]

\* The components mounted when page p is shown with cache c after the current
\* page: its frame if that changes, its inner part if that is new.  Their
\* queries are fetched, but for the ones of skip, which were fetched less
\* than a second ago (useSuspenseQuery).
Mounted(p, c) ==
    (IF SiteOf(p)[p].outer = Current.outer THEN {}
     ELSE SiteOf(p)[p].outer.reads) \cup
    (IF Open(p, c) /\ ~(p = page /\ Open(page, cache))
     THEN SiteOf(p)[p].inner.reads ELSE {})
Recent(c) == {q \in DOMAIN c : q.suspense /\ c[q].data # None /\ ~c[q].stale}
Skips(p, c) == SUBSET (Recent(c) \cap Mounted(p, c))
Mount(p, c, skip) == Ensure(c, Mounted(p, c) \ skip)

Matching(hook, c) == {q \in DOMAIN c :
                        \E prefix \in hook.refreshes : IsPrefix(prefix, q.key)}
\* invalidateQueries: a mounted query is refetched, instead of the fetch in
\* flight if it has data; a first load in flight is joined.
Restarts(hook, c, active) ==
    {q \in Matching(hook, c) \cap active : c[q].fetch = Idle \/ c[q].data # None}
Invalidate(hook, c, active) ==
    [q \in DOMAIN c |->
        LET e == [c[q] EXCEPT !.stale = @ \/ q \in Matching(hook, c)] IN
        IF q \in Restarts(hook, c, active) THEN Begin(e)
        ELSE [e EXCEPT !.joined = @ \/ c[q].fetch # Idle]]

\* The refetches mutateAsync waits for: those onSuccess returned.
BugWaitsFor(hook, c, active) == IF hook.awaits THEN Matching(hook, c) ELSE {}
WaitsFor(hook, c, active) ==
    IF hook.awaits THEN Matching(hook, c) \cap active ELSE {}

Event(kind) == Len(events) < MaxEvents /\ events' = Append(events, kind)

---------------------------------------------------------------------------
\* Some page has been shown for a while.
Init ==
    /\ page \in UNION {DOMAIN site : site \in Sites}
    /\ log = <<>>
    /\ cache = [q \in QueriesOf(SiteOf(page)) |->
                  IF q \in Current.outer.reads \cup Current.inner.reads
                  THEN [Empty EXCEPT !.data = 0] ELSE Empty]
    /\ runs = <<>>
    /\ acked = {}
    /\ dialog = {}
    /\ confirming = FALSE
    /\ draft = FALSE
    /\ opened = 0
    /\ events = <<>>

\* Show another page; text typed on this one is dropped.
Show(p) ==
    /\ page' = p
    /\ \E skip \in Skips(p, cache) : cache' = Mount(p, cache, skip)
    /\ draft' = FALSE

\* The user follows a link.
Navigate(p) ==
    /\ p \in DOMAIN SiteOf(page) \ {page}
    /\ Event("navigate")
    /\ Show(p)
    /\ runs' = [i \in DOMAIN runs |-> [runs[i] EXCEPT !.here = FALSE]]
    /\ UNCHANGED <<log, acked, dialog, confirming, opened>>

\* The user types into the form of the page.
Type ==
    /\ Current.form.typed /\ ~draft /\ Open(page, cache)
    /\ draft' = TRUE
    /\ UNCHANGED <<page, cache, runs, log, acked, dialog, confirming, opened, events>>

Running(i) == runs[i].pc \in {"sent", "applied", "waiting"}
Offered == Current.outer.offers \cup
           (IF Open(page, cache) THEN Current.inner.offers ELSE {})
Enabled(o) ==
    /\ o \in Offered
    /\ o.alone => \A i \in DOMAIN runs : ~Running(i)
    /\ o.form # "" => \A i \in DOMAIN runs :
           ~(runs[i].offer.form = o.form /\ runs[i].here /\ Running(i))
Halfway(i) == Running(i) /\ runs[i].step > 1
Start(o) ==
    /\ Len(runs) < MaxRuns /\ (runs = <<>> \/ page \in BusyPages)
    /\ runs' = Append(runs, [offer |-> o, step |-> 1, pc |-> "sent", at |-> 0,
                             waits |-> {}, here |-> TRUE])

\* A control that does not ask, or the submit button of a form.
Use(o) ==
    /\ ~o.confirm /\ Enabled(o) /\ dialog = {}
    /\ Current.form.typed /\ o \in Current.inner.offers => draft
    /\ Start(o)
    /\ UNCHANGED <<page, cache, log, acked, dialog, confirming, draft, opened, events>>

\* useConfirm: open the dialog for a control.
AskConfirm(o) ==
    /\ o.confirm /\ Enabled(o) /\ dialog = {}
    /\ opened < MaxDialogs
    /\ opened' = opened + 1
    /\ dialog' = {o}
    /\ confirming' = FALSE
    /\ UNCHANGED <<page, cache, runs, log, acked, draft, events>>

BugConfirm ==
    /\ \E o \in dialog : Start(o)
    /\ confirming' = TRUE
    /\ UNCHANGED <<page, cache, log, acked, dialog, draft, opened, events>>
\* The Confirm button, disabled while its callback runs.
Confirm ==
    /\ ~confirming
    /\ \E o \in dialog : Start(o)
    /\ confirming' = TRUE
    /\ UNCHANGED <<page, cache, log, acked, dialog, draft, opened, events>>

\* The Cancel button or a click next to the dialog, also while it runs.
CancelDialog ==
    /\ dialog # {}
    /\ dialog' = {}
    /\ UNCHANGED <<page, cache, runs, log, acked, confirming, draft, opened, events>>

---------------------------------------------------------------------------
HookOf(i) == runs[i].offer.steps[runs[i].step]

BugApply(i) ==
    /\ runs[i].pc = "sent"
    /\ log' = Append(log, HookOf(i).request)
    /\ runs' = [runs EXCEPT ![i].pc = "applied", ![i].at = Len(log') + 1]
    /\ UNCHANGED <<page, cache, acked, dialog, confirming, draft, opened, events>>
\* The server applies a mutation, or turns it down.
Apply(i) ==
    /\ runs[i].pc = "sent"
    /\ HookOf(i).request \in Creations \/ ~Gone(HookOf(i).request, Len(log))
    /\ log' = Append(log, HookOf(i).request)
    /\ runs' = [runs EXCEPT ![i].pc = "applied", ![i].at = Len(log')]
    /\ UNCHANGED <<page, cache, acked, dialog, confirming, draft, opened, events>>

\* The continuation of a confirmed control closes whatever dialog is open.
Finally(i) ==
    IF runs[i].offer.confirm
    THEN dialog' = {} /\ confirming' = FALSE
    ELSE UNCHANGED <<dialog, confirming>>

Reject(i) ==
    /\ runs[i].pc = "sent"
    /\ IF Gone(HookOf(i).request, Len(log)) THEN UNCHANGED events ELSE Event("fail")
    /\ runs' = [runs EXCEPT ![i].pc = "failed"]
    /\ Finally(i)
    /\ UNCHANGED <<page, cache, log, acked, draft, opened>>

\* The answer arrives: onSuccess invalidates.  The mutation waits for the
\* refetches when onSuccess returns their promise; a fetch that is replaced
\* ends the wait of whoever waited for it.
Acknowledge(i) ==
    LET hook == HookOf(i)
        active == Active(page, cache)
        again == Restarts(hook, cache, active) IN
    /\ runs[i].pc = "applied"
    /\ cache' = Invalidate(hook, cache, active)
    /\ runs' = [j \in DOMAIN runs |->
                  IF j = i
                  THEN [runs[i] EXCEPT !.pc = "waiting",
                          !.waits = WaitsFor(hook, cache, active)]
                  ELSE [runs[j] EXCEPT !.waits = @ \ again]]
    /\ acked' = acked \cup {runs[i].at}
    /\ draft' = (draft /\ Open(page, cache'))
    /\ UNCHANGED <<page, log, dialog, confirming, opened, events>>

\* mutateAsync resolves: the next mutation of the control, or its end.
Continue(i) ==
    /\ runs[i].pc = "waiting" /\ runs[i].waits = {}
    /\ runs[i].step < Len(runs[i].offer.steps)
    /\ runs' = [runs EXCEPT ![i].step = @ + 1, ![i].pc = "sent"]
    /\ UNCHANGED <<page, cache, log, acked, dialog, confirming, draft, opened, events>>

Settle(i) ==
    LET then == runs[i].offer.then
        moves == then # "" /\ then # page IN
    /\ runs[i].pc = "waiting" /\ runs[i].waits = {}
    /\ runs[i].step = Len(runs[i].offer.steps)
    /\ runs' = [j \in DOMAIN runs |->
                  [runs[j] EXCEPT !.pc = IF j = i THEN "done" ELSE @,
                                  !.here = @ /\ ~moves]]
    /\ Finally(i)
    /\ IF moves
       THEN Show(then)
       ELSE /\ UNCHANGED <<page, cache>>
            /\ draft' = (draft /\ ~(/\ runs[i].here
                                     /\ runs[i].offer \in Current.inner.offers
                                     /\ runs[i].offer.form # ""))
    /\ UNCHANGED <<log, acked, opened, events>>

---------------------------------------------------------------------------
\* Does the form replace its text when q brings the data of log position n?
Replaces(q, n) ==
    /\ q \in Current.form.source
    /\ \/ cache[q].data = None
       \/ \E i \in (cache[q].data + 1)..n : Affects(log[i], q)

BugEndWait(q) == runs' = [i \in DOMAIN runs |-> [runs[i] EXCEPT !.waits = {}]]
EndWait(q) == runs' = [i \in DOMAIN runs |-> [runs[i] EXCEPT !.waits = @ \ {q}]]

\* The answer to a fetch arrives; the server gave it at some moment since
\* the fetch was sent, when its log had length n.
Deliver(q, n) ==
    LET c == [cache EXCEPT ![q].data = n, ![q].fetch = Idle, ![q].stale = FALSE,
                           ![q].err = FALSE] IN
    /\ cache[q].fetch # Idle /\ n \in cache[q].fetch..Len(log)
    /\ ~Gone(q.request, n)
    /\ \E skip \in Skips(page, c) : cache' = Mount(page, c, skip)
    /\ draft' = (draft /\ Open(page, cache') /\ ~Replaces(q, n))
    /\ EndWait(q)
    /\ UNCHANGED <<page, log, acked, dialog, confirming, opened, events>>

\* A fetch fails after its retries; what was cached stays.
Fail(q) ==
    /\ cache[q].fetch # Idle
    /\ IF Gone(q.request, Len(log)) THEN UNCHANGED events ELSE Event("fail")
    /\ cache' = [cache EXCEPT ![q].fetch = Idle, ![q].err = TRUE]
    /\ draft' = (draft /\ Open(page, cache'))
    /\ EndWait(q)
    /\ UNCHANGED <<page, log, acked, dialog, confirming, opened>>

\* The window gets the focus, the network comes back, a polling interval
\* elapses, or the user retries after an error.
Wake(kind, S) ==
    /\ Event(kind)
    /\ cache' = Ensure(cache, S)
    /\ cache' # cache
    /\ draft' = (draft /\ Open(page, cache'))
    /\ UNCHANGED <<page, runs, log, acked, dialog, confirming, opened>>
Focus == Wake("wake", Active(page, cache) \ Current.limited)
Reconnect == Wake("reconnect", Active(page, cache) \ {useSerdes})
Interval == Wake("wake", {q \in Active(page, cache) : q.polls})
Retry == Wake("wake", {q \in Active(page, cache) : cache[q].err})

\* Somebody else changes what a form of the page edits; what else others
\* change is shown by the next refetch, whatever it is.
Foreign(request) ==
    /\ \E q \in Current.form.source : Affects(request, q)
    /\ Event("foreign")
    /\ log' = Append(log, request)
    /\ UNCHANGED <<page, cache, runs, acked, dialog, confirming, draft, opened>>

---------------------------------------------------------------------------
User ==
    \/ \E p \in DOMAIN SiteOf(page) : Navigate(p)
    \/ Type
    \/ \E o \in Offered : Use(o) \/ AskConfirm(o)
    \/ Confirm
    \/ CancelDialog
    \/ Focus \/ Reconnect \/ Interval \/ Retry

Step(i) == Apply(i) \/ Reject(i) \/ Acknowledge(i) \/ Continue(i) \/ Settle(i)

Answer(q) == Fail(q) \/ \E n \in 0..Len(log) : Deliver(q, n)

Next ==
    \/ User
    \/ \E i \in DOMAIN runs : Step(i)
    \/ \E q \in DOMAIN cache : Answer(q)
    \/ \E request \in RequestsOf(SiteOf(page)) : Foreign(request)

\* Requests are answered and their continuations run; the user owes nothing.
Progress ==
    \/ \E i \in DOMAIN runs : Step(i)
    \/ \E q \in DOMAIN cache : Answer(q)

Spec == Init /\ [][Next]_vars /\ WF_vars(Progress)

---------------------------------------------------------------------------
TypeOK ==
    /\ page \in DOMAIN SiteOf(page)
    /\ \A q \in DOMAIN cache :
           /\ cache[q].data \in None..Len(log)
           /\ cache[q].fetch \in Idle..Len(log)
           /\ {cache[q].stale, cache[q].err, cache[q].joined} \subseteq BOOLEAN
    /\ \A i \in DOMAIN runs :
           /\ runs[i].pc \in {"sent", "applied", "waiting", "done", "failed"}
           /\ runs[i].step \in DOMAIN runs[i].offer.steps
           /\ runs[i].waits \subseteq DOMAIN cache
    /\ acked \subseteq DOMAIN log
    /\ Cardinality(dialog) <= 1
    /\ {confirming, draft} \subseteq BOOLEAN

\* Changes a page goes on showing without, because the key of the query is
\* not among those the mutation invalidates: the lag of a group whose
\* offsets were changed and, if the user left the page before the answer came
\* or a step failed, the subject a schema mutation changed.
Unrefreshed ==
    ({change[1] : change \in GroupChanges} \X {useGetConsumerGroupsLag}) \cup
    (IF {"navigate", "fail"} \cap Range(events) # {}
     THEN {change[1] : change \in SchemaChanges} \X
             {useGetLatestSchema, useGetSchemasVersions}
     ELSE {})

\* When no control is in the middle of its work and the fetches of a mounted query have ended
\* without an error, it shows every change of the user whose answer arrived,
\* unless a fetch in flight at that moment was joined (lib/hooks/api: what
\* every onSuccess invalidates, against what the pages read).
FreshAfterMutation ==
    (\A i \in DOMAIN runs : runs[i].pc # "waiting" /\ ~Halfway(i)) =>
    \A q \in Active(page, cache), i \in acked :
        \/ cache[q].fetch # Idle \/ cache[q].err \/ cache[q].joined
        \/ ~Affects(log[i], q) \/ <<log[i], q>> \in Unrefreshed
        \/ cache[q].data >= i

\* A callback runs at most once each time its dialog was opened (useConfirm
\* and the disabled Confirm button).
ConfirmedOnce ==
    Cardinality({i \in DOMAIN runs : runs[i].offer.confirm})
        <= opened

\* A mutation that waits for its refetches only resolves when the page shows
\* the change or the refetch failed, unless another mutation replaced the
\* refetch or the user went to another page.  Where a refetch failed or a
\* wake-up shut the inner part of the page, the answer may have come meanwhile,
\* and the part be mounted again before the mutation resolves: it is fetched.
Reopened(q) ==
    q \notin Current.outer.reads /\ cache[q].fetch # Idle /\ events # <<>>
ResolvesWithFreshData ==
    [][\A i \in DOMAIN runs :
          runs[i].pc = "waiting" /\ runs'[i].pc # "waiting" /\ HookOf(i).awaits
          => \A q \in Matching(HookOf(i), cache) \cap Active(page, cache) :
                \/ cache[q].data >= runs[i].at
                \/ cache[q].err \/ cache[q].joined \/ Reopened(q)
                \/ Cardinality(acked) > 1 \/ "navigate" \in Range(events)]_vars

\* Typed text disappears only when the page changes or its control ends,
\* when a fetch failed, when the network came back, or when what the form
\* edits arrives for the first time, was submitted or was changed by somebody
\* else (Edit.tsx, Config.tsx, ResetOffsets.tsx).
KeepsDraft ==
    draft /\ ~draft' =>
       \/ page' # page
       \/ \E i \in DOMAIN runs : runs'[i].pc = "done" /\ runs[i].pc # "done"
       \/ \E q \in DOMAIN cache : cache'[q].err /\ ~cache[q].err
       \/ Reconnect
       \/ \E q \in Current.form.source :
             /\ cache'[q].data # cache[q].data
             /\ \/ cache[q].data = None \/ "foreign" \in Range(events)
                \/ \E i \in DOMAIN runs : /\ runs[i].offer \in Offered
                                           /\ runs[i].pc # "failed"
DraftKept == [][KeepsDraft]_vars

\* Every control that was used comes to an end and every page to rest: no
\* wait is left for a fetch that was replaced.
ComesToRest ==
    <>[](/\ \A i \in DOMAIN runs : ~Running(i)
         /\ \A q \in DOMAIN cache : cache[q].fetch = Idle)

\* What the pages show after a mutation is sound in every state: the cache is
\* well formed and the parts above hold (FreshAfterMutation, ConfirmedOnce).
ShowsChanges == TypeOK /\ FreshAfterMutation /\ ConfirmedOnce

\* A mutation that waits for refetches ends, neither too early nor never.
WaitsEnd == ResolvesWithFreshData /\ ComesToRest
=============================================================================
