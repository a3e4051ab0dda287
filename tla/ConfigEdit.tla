----------------------------- MODULE ConfigEdit -----------------------------
(***************************************************************************)
(* Editing the configured clusters from the web interface.  Every edit     *)
(* reads the whole configuration, changes one cluster and writes the whole *)
(* back (appConfig.ts); the form keeps what it knows of a cluster          *)
(* (widgets/ClusterConfigForm); an import is reviewed and then applied by  *)
(* the server against the revision reviewed (ConfigTransferSection.tsx,    *)
(* internal/app/cluster/transfer.go).  Several tabs do this at once, and a *)
(* write may fail, before or after it took effect.                         *)
(***************************************************************************)
EXTENDS ConfigForm, Subsequences, SequencesExt, FiniteSets

CONSTANTS
    Tabs,           \* pages working on the configuration
    FormTabs,       \* bound: the tabs that open the form of a cluster
    Initial,        \* the clusters configured at first
    Settings,       \* the settings around them, as paths of the document
    TypedNames,     \* names the user types
    TypedAddrs,     \* bootstrap servers the user types
    Touched,        \* form sections the user opens, fills in or removes
    Chosen,         \* methods of authentication the user chooses
    Files,          \* import files: sequences of clusters
    MaxClusters,    \* bound: no operation starts above it
    MaxOps,         \* bound: operations started
    MaxTouches,     \* bound: changes of sections in one form
    MaxFaults       \* bound: requests that fail

VARIABLES
    config,         \* the stored configuration
    op,             \* op[t]: what tab t is doing
    ops,            \* operations started
    faults,         \* requests that failed
    collided        \* a form was saved under a name in use
vars == <<config, op, ops, faults, collided>>

\* A name is the sequence of a word and the suffixes appended to it: n > 1 for
\* "-copy-n", 1 for "-copy".
NamesOf(clusters) == {clusters[i].name : i \in DOMAIN clusters}
Unique(clusters) ==
    \A i, j \in DOMAIN clusters :
        clusters[i].name = clusters[j].name => i = j

IsSequence(n) == Len(n) \in Nat /\ n = [k \in 1..Len(n) |-> n[k]]
IsName(n) == IsSequence(n) /\ n # <<>>
IsCluster(c) ==
    /\ c = [name |-> c.name, addr |-> c.addr, has |-> c.has]
    /\ IsName(c.name) /\ c.has \subseteq KafkaClusters \cup ClusterCfg
\* Clusters as the server stores them: each has a name.
AreClusters(s) == s \in Seq(Range(s)) /\ \A i \in DOMAIN s : IsCluster(s[i])

ASSUME ConfigEditBounds ==
    /\ MaxClusters \in Nat /\ MaxOps \in Nat
    /\ MaxTouches \in Nat /\ MaxFaults \in Nat
    /\ FormTabs \subseteq Tabs /\ Touched \subseteq Names /\ Chosen \subseteq Methods
ASSUME ConfigEditInputs ==
    /\ AreClusters(Initial) /\ Unique(Initial)
    /\ Settings \subseteq Properties \cup ServerCfg
    /\ \A n \in TypedNames : IsSequence(n)
    /\ \A f \in Files : AreClusters(f) /\ Unique(f)

---------------------------------------------------------------------------
Values(form) ==
    <<form.name, form.addr,
      [s \in Names |-> <<form.sections[s].is, form.sections[s].fields>>]>>
IsDirty(form) == Values(form) # Values(form.initial)

\* had: what the stored cluster had when the form was opened.
NewForm(initialName, name, addr, sections, had) ==
    LET start == [name |-> name, addr |-> addr, sections |-> sections]
    IN  [had |-> had, initialName |-> initialName, name |-> name, addr |-> addr,
         sections |-> sections, initial |-> start, touches |-> 0]
NoForm == NewForm(<<>>, <<>>, "", [s \in Names |-> Absent], {})

---------------------------------------------------------------------------
\* What one tab does.  phase: idle; form; validate (the form is disabled while
\* the server probes the cluster); confirm (the dialog of a row's control);
\* get, put (the two requests of an edit); preview, review, import.
\* base: the configuration the get read, or the preview was made from;
\* preview: the name the dialog of a duplicate shows; payload: the cluster a
\* form saves; body: what the put writes; closed: the settings were closed.
Idle == [phase |-> "idle", kind |-> "", target |-> <<>>, form |-> NoForm,
         preview |-> <<>>, base |-> <<>>, body |-> <<>>,
         file |-> <<>>, chosen |-> {}, reviewed |-> FALSE, closed |-> FALSE]

Init ==
    /\ config = [clusters |-> Initial, settings |-> Settings]
    /\ op = [t \in Tabs |-> Idle]
    /\ ops = 0
    /\ faults = 0
    /\ collided = FALSE

Starts(t, o) ==
    /\ op[t].phase = "idle"
    /\ ops < MaxOps
    /\ Len(config.clusters) < MaxClusters
    /\ op' = [op EXCEPT ![t] = o]
    /\ ops' = ops + 1
    /\ UNCHANGED <<config, faults, collided>>

Moves(t, o) ==
    /\ op' = [op EXCEPT ![t] = o]
    /\ UNCHANGED <<config, ops, faults, collided>>

\* The page of a configured cluster, and the page of a new one.
ClusterConfigPage(t) ==
    t \in FormTabs /\ \E i \in DOMAIN config.clusters :
        LET c == FromJSON(config).clusters[i] IN
        /\ \A j \in 1..i - 1 : config.clusters[j].name # c.name
        /\ Starts(t, [Idle EXCEPT !.phase = "form",
                        !.form = NewForm(c.name, c.name, c.addr,
                                         getInitialFormData(c), c.has)])
NewClusterPage(t) ==
    t \in FormTabs /\ Starts(t, [Idle EXCEPT !.phase = "form"])

\* What the user does in the form.
EditForm(t, form) ==
    /\ op[t].phase = "form"
    /\ form # op[t].form
    /\ Moves(t, [op[t] EXCEPT !.form = form])
TypeName(t, n) == EditForm(t, [op[t].form EXCEPT !.name = n])
TypeAddr(t, a) == EditForm(t, [op[t].form EXCEPT !.addr = a])
Touch(t, s, v) ==
    /\ op[t].form.touches < MaxTouches
    /\ s \in Offered(op[t].form.sections)
    /\ EditForm(t, [op[t].form EXCEPT !.sections[s] = v, !.touches = @ + 1])
ToggleSection(t, s) == Touch(t, s, Toggled(s, op[t].form.sections[s]))
FillSection(t, s, m) ==
    /\ op[t].form.sections[s].open
    /\ Touch(t, s, Filled(s, op[t].form.sections[s], m))
\* The checkbox of a login; what is typed under it stays.
TickCredentials(t, s) ==
    LET v == op[t].form.sections[s] IN
    /\ v.open /\ Logs(s) /\ v.fields # {}
    /\ Touch(t, s, [v EXCEPT !.fields = IF "isAuth" \in @ THEN @ \ {"isAuth"}
                                                        ELSE @ \cup {"isAuth"}])
\* Reset restores the values; which sections are open is no value.
OnReset(t) ==
    LET form == op[t].form
        back == [s \in Names |->
                   [form.initial.sections[s] EXCEPT !.open =
                       IF AlwaysOpen(s) THEN @
                       ELSE form.sections[s].open]]
    IN  EditForm(t, [form EXCEPT !.name = form.initial.name,
                                 !.addr = form.initial.addr,
                                 !.sections = back])
Leave(t) ==
    /\ op[t].phase = "form"
    /\ Moves(t, Idle)
OnValidate(t) ==
    /\ op[t].phase = "form"
    /\ formSchema(op[t].form.sections) /\ op[t].form.name # <<>> /\ op[t].form.addr # ""
    /\ Moves(t, [op[t] EXCEPT !.phase = "validate"])
Validated(t) ==
    /\ op[t].phase = "validate"
    /\ Moves(t, [op[t] EXCEPT !.phase = "form"])

OnSubmit(t) ==
    LET form == op[t].form IN
    /\ op[t].phase = "form"
    /\ IsDirty(form) /\ formSchema(form.sections) /\ form.name # <<>> /\ form.addr # ""
    /\ Moves(t, [op[t] EXCEPT !.phase = "get", !.target = form.initialName,
                   !.kind = IF form.initialName = <<>> THEN "add" ELSE "edit"])
ConfirmClusterDelete(t) ==
    /\ op[t].phase = "form"
    /\ op[t].form.initialName # <<>>
    /\ Moves(t, [op[t] EXCEPT !.phase = "get", !.kind = "remove",
                              !.target = op[t].form.initialName])

---------------------------------------------------------------------------
\* The first free name of a copy: base-copy, then base-copy-2, -3, ...
nextDuplicateName(base, taken) ==
    LET first == CHOOSE n \in 1..Cardinality(taken) + 2 :
                    /\ Append(base, n) \notin taken
                    /\ \A m \in 1..n - 1 : Append(base, m) \in taken
    IN  Append(base, first)

\* Duplicate and Delete of a row of the cluster list ask first.
HandleDuplicate(t) ==
    \E n \in NamesOf(config.clusters) :
        Starts(t, [Idle EXCEPT !.phase = "confirm", !.kind = "duplicate",
                      !.target = n,
                      !.preview = nextDuplicateName(n, NamesOf(config.clusters))])
HandleDelete(t) ==
    \E n \in NamesOf(config.clusters) :
        Starts(t, [Idle EXCEPT !.phase = "confirm", !.kind = "delete",
                               !.target = n])
Confirm(t) ==
    /\ op[t].phase = "confirm"
    /\ Moves(t, [op[t] EXCEPT !.phase = "get"])
Dismiss(t) ==
    /\ op[t].phase = "confirm"
    /\ Moves(t, Idle)

\* Where a tab is left by a request that failed: in the form it came from.
AfterError(o) ==
    IF o.form = NoForm THEN Idle ELSE [Idle EXCEPT !.phase = "form", !.form = o.form]

BugAggregateClusters(cluster, existing, initialName, deleteCluster) ==
    IF initialName = <<>> THEN Append(existing, cluster)
    ELSE IF deleteCluster
    THEN Part(existing, {i \in DOMAIN existing : existing[i].name = initialName})
    ELSE [i \in DOMAIN existing |->
            IF existing[i].name = initialName THEN cluster ELSE existing[i]]
aggregateClusters(cluster, existing, initialName, deleteCluster) ==
    IF initialName = <<>> THEN Append(existing, cluster)
    ELSE IF deleteCluster
    THEN Part(existing, {i \in DOMAIN existing : existing[i].name # initialName})
    ELSE [i \in DOMAIN existing |->
            IF existing[i].name = initialName THEN cluster ELSE existing[i]]

\* The name a copy is stored under, from the configuration just read.
CopyName(o, existing) == nextDuplicateName(o.target, NamesOf(existing))

Source(existing, n) ==
    existing[CHOOSE i \in DOMAIN existing :
               /\ existing[i].name = n
               /\ \A j \in 1..i - 1 : existing[j].name # n]

ClustersAfter(o, existing) ==
    CASE o.kind = "duplicate" ->
            aggregateClusters([Source(existing, o.target) EXCEPT
                                 !.name = CopyName(o, existing)],
                              existing, <<>>, FALSE)
      [] o.kind \in {"delete", "remove"} ->
            aggregateClusters(Idle.form, existing, o.target, TRUE)
      [] OTHER ->
            aggregateClusters(transformFormDataToPayload(o.form), existing,
                              o.target, FALSE)

\* The body of the write: what was read, with kafka replaced by its clusters.
Around(settings) == {path \in settings : Head(path) # "kafka"}
BugRestartRequest(read, clusters) == [settings |-> {}, clusters |-> clusters]
RestartRequest(read, clusters) ==
    [settings |-> Around(read.settings), clusters |-> clusters]

\* A row's operation fails when its cluster is gone; the form's does not.
BugGone(o, existing) == FALSE
Gone(o, existing) ==
    o.kind \in {"duplicate", "delete"} /\ o.target \notin NamesOf(existing)

\* getCurrentConfig has answered.
GetCurrentConfig(t) ==
    LET o == op[t]
        read == FromJSON(config)
        existing == read.clusters
    IN
    /\ o.phase = "get"
    /\ \/ /\ Gone(o, existing)
          /\ Moves(t, AfterError(o))
       \/ /\ ~Gone(o, existing)
          /\ o.kind = "duplicate" => o.target \in NamesOf(existing)
          /\ op' = [op EXCEPT ![t] = [o EXCEPT !.phase = "put",
                      !.base = config,
                      !.body = RestartRequest(read, ClustersAfter(o, existing))]]
          /\ collided' = \/ collided
                         \/ /\ o.kind \in {"add", "edit"}
                            /\ o.form.name # o.target
                            /\ o.form.name \in NamesOf(existing)
          /\ UNCHANGED <<config, ops, faults>>

\* restartWithConfig: the server stores the body as it is.
RestartWithConfig(t) ==
    /\ op[t].phase = "put"
    /\ config' = op[t].body
    /\ op' = [op EXCEPT ![t] = Idle]
    /\ UNCHANGED <<ops, faults, collided>>

---------------------------------------------------------------------------
\* Importing.  Two clusters conflict when name or bootstrap servers agree.
ConflictReason(a, b) == a.name = b.name \/ a.addr = b.addr
Conflicts(clusters, c) ==
    {clusters[i].name : i \in {j \in DOMAIN clusters :
                                 ConflictReason(c, clusters[j])}}
Overlap(clusters, file, i, j) ==
    /\ i # j
    /\ \/ ConflictReason(file[i], file[j])
       \/ Conflicts(clusters, file[i]) \cap Conflicts(clusters, file[j]) # {}

\* The entries selected at first: without conflict, and without overlap with
\* one selected before.
Defaults(clusters, file) ==
    CHOOSE sel \in SUBSET DOMAIN file :
        \A i \in DOMAIN file :
            i \in sel <=> /\ Conflicts(clusters, file[i]) = {}
                         /\ \A j \in sel : j < i => ~Overlap(clusters, file, i, j)

ChooseFile(t, file) ==
    Starts(t, [Idle EXCEPT !.phase = "preview", !.file = file])

\* Without conflict or overlap the file is applied without a review.
Preview(t) ==
    LET o == op[t]
        clusters == config.clusters
        plain == \A i \in DOMAIN o.file :
                    /\ Conflicts(clusters, o.file[i]) = {}
                    /\ \A j \in DOMAIN o.file : ~Overlap(clusters, o.file, i, j)
        known == [o EXCEPT !.base = config]
    IN
    /\ o.phase = "preview"
    /\ Moves(t, IF plain
                THEN [known EXCEPT !.phase = "import", !.chosen = DOMAIN o.file]
                ELSE [known EXCEPT !.phase = "review", !.reviewed = TRUE,
                                   !.chosen = Defaults(clusters, o.file)])

\* Ticking an entry unticks the ones it overlaps.
BugTick(o, i) == o.chosen \cup {i}
Tick(o, i) ==
    {j \in o.chosen : ~Overlap(o.base.clusters, o.file, i, j)} \cup {i}
Choose(t, i) ==
    /\ op[t].phase = "review"
    /\ i \in DOMAIN op[t].file
    /\ Moves(t, [op[t] EXCEPT !.chosen =
                   IF i \in @ THEN @ \ {i} ELSE Tick(op[t], i)])
ConfirmImport(t) ==
    /\ op[t].phase = "review"
    /\ op[t].chosen # {}
    /\ Moves(t, [op[t] EXCEPT !.phase = "import"])
CancelImport(t) ==
    /\ op[t].phase = "review"
    /\ Moves(t, Idle)
\* Closing the settings drops the review; a request under way goes on.
CloseSettings(t) ==
    \/ /\ op[t].phase \in {"preview", "review"}
       /\ Moves(t, Idle)
    \/ /\ op[t].phase = "import"
       /\ ~op[t].closed
       /\ Moves(t, [op[t] EXCEPT !.closed = TRUE])

MergeImported(clusters, o) ==
    LET replaced == UNION {Conflicts(clusters, o.file[i]) : i \in o.chosen}
    IN  Part(clusters, {i \in DOMAIN clusters : clusters[i].name \notin replaced})
        \o Part(o.file, o.chosen)

\* The revision is of the configuration and the file.
BugUnchanged(o) == TRUE
Unchanged(o) == config = o.base
Refused(o) ==
    \E i, j \in o.chosen : Overlap(config.clusters, o.file, i, j)

\* Where an error other than a changed configuration leaves the settings.
AfterImportError(o) ==
    IF o.reviewed /\ ~o.closed THEN [o EXCEPT !.phase = "review"] ELSE Idle

Import(t) ==
    LET o == op[t] IN
    /\ o.phase = "import"
    /\ \/ /\ ~Unchanged(o)
          /\ Moves(t, Idle)
       \/ /\ Unchanged(o)
          /\ ~Refused(o)
          /\ config' = [config EXCEPT !.clusters = MergeImported(@, o)]
          /\ op' = [op EXCEPT ![t] = Idle]
          /\ UNCHANGED <<ops, faults, collided>>

\* A request fails: a read, a write or an import, the last two perhaps only
\* after they took effect.
Fault(t) ==
    LET o == op[t] IN
    /\ faults < MaxFaults
    /\ faults' = faults + 1
    /\ UNCHANGED <<ops, collided>>
    /\ \/ /\ o.phase \in {"get", "preview"}
          /\ op' = [op EXCEPT ![t] = AfterError(o)]
          /\ UNCHANGED config
       \/ /\ o.phase = "put"
          /\ op' = [op EXCEPT ![t] = AfterError(o)]
          /\ config' \in {config, o.body}
       \/ /\ o.phase = "import" /\ Unchanged(o) /\ ~Refused(o)
          /\ op' = [op EXCEPT ![t] = AfterImportError(o)]
          /\ config' \in {config, [config EXCEPT !.clusters = MergeImported(@, o)]}

\* The browser and the server answer every request.
Answer(t) ==
    \/ Validated(t) \/ GetCurrentConfig(t) \/ RestartWithConfig(t)
    \/ Preview(t) \/ Import(t)
User(t) ==
    \/ ClusterConfigPage(t) \/ NewClusterPage(t)
    \/ \E n \in TypedNames : TypeName(t, n)
    \/ \E a \in TypedAddrs : TypeAddr(t, a)
    \/ \E s \in Touched :
        \/ ToggleSection(t, s) \/ TickCredentials(t, s)
        \/ \E m \in IF s = "auth" THEN Chosen ELSE {"jaas"} : FillSection(t, s, m)
    \/ OnReset(t) \/ Leave(t) \/ OnValidate(t)
    \/ OnSubmit(t) \/ ConfirmClusterDelete(t)
    \/ HandleDuplicate(t) \/ HandleDelete(t) \/ Confirm(t) \/ Dismiss(t)
    \/ \E f \in Files : ChooseFile(t, f)
    \/ \E i \in 1..2 : Choose(t, i)
    \/ ConfirmImport(t) \/ CancelImport(t) \/ CloseSettings(t)
Next == \E t \in Tabs : User(t) \/ Answer(t) \/ Fault(t)
Spec == Init /\ [][Next]_vars /\ \A t \in Tabs : WF_vars(Answer(t))

---------------------------------------------------------------------------
IsConfig(c) ==
    /\ \A i \in DOMAIN c.clusters :
          c.clusters[i].has \subseteq KafkaClusters \cup ClusterCfg
    /\ c.settings \subseteq Properties \cup ServerCfg

\* Every tab is in one of the phases of its operation, and holds what that
\* phase works with: a body to write, a file under review.
TypeOK ==
    /\ IsConfig(config)
    /\ ops \in 0..MaxOps /\ faults \in 0..MaxFaults /\ collided \in BOOLEAN
    /\ \A t \in Tabs :
        /\ op[t].phase \in {"idle", "form", "validate", "confirm", "get", "put",
                            "preview", "review", "import"}
        /\ op[t].kind \in {"", "add", "edit", "remove", "duplicate", "delete"}
        /\ op[t].phase = "put" => IsConfig(op[t].body)
        /\ op[t].phase \in {"review", "import"} =>
              /\ op[t].chosen \subseteq DOMAIN op[t].file
              /\ IsConfig(op[t].base)
        /\ DOMAIN op[t].form.sections = Names

\* However tabs interleave, fail and retry, no two configured clusters have
\* one name, unless a form was saved under a name in use (which nothing
\* refuses; the next start does).  So concurrent duplications never collide
\* (the comment of useDuplicateAppConfigCluster), nor do reviewed imports.
NamesUnique == Unique(config.clusters) \/ collided

\* The request to import never holds two entries that replace the same
\* cluster or each other: the server's refusal of such a selection cannot be
\* met from the review, whatever the order of ticks.
SelectionAccepted ==
    \A t \in Tabs : op[t].phase \in {"review", "import"} =>
        \A i, j \in op[t].chosen :
            ~Overlap(op[t].base.clusters, op[t].file, i, j)

\* The settings the client knows besides the clusters (auth, rbac, webclient)
\* survive every sequence of edits and imports.
SettingsKept == Around(Settings \cap Properties) \subseteq config.settings

\* Tab t's write reaches the server with this step.
Writes(t) == op[t].phase = "put" /\ op'[t].phase # "put" /\ config' = op[t].body
Imports(t) ==
    /\ op[t].phase = "import" /\ op'[t].phase # "import"
    /\ config' # config

\* An import removes exactly the local clusters the review listed as replaced
\* by the chosen entries and adds exactly these, although other tabs wrote in
\* between: Import takes the write lock and compares revisions first.
AsReviewed(t) ==
    LET o == op[t]
        shown == UNION {Conflicts(o.base.clusters, o.file[i]) : i \in o.chosen}
    IN  /\ Range(config'.clusters) =
            {c \in Range(o.base.clusters) : c.name \notin shown}
            \cup {o.file[i] : i \in o.chosen}
        /\ config'.settings = o.base.settings
ImportAsReviewed == [][\A t \in Tabs : Imports(t) => AsReviewed(t)]_vars

\* A write that no other write overlapped changes the cluster it is about and
\* leaves all others as they were, up to fields the client does not know.
About(o, c) == \/ c.name = o.target /\ o.kind # "duplicate"
               \/ o.kind \in {"add", "edit"} /\ c.name = o.form.name
OthersAsRead(t) ==
    LET o == op[t]
        old == {ClustersFromJSON(c) : c \in {d \in Range(config.clusters) : ~About(o, d)}}
        new == {c \in Range(config'.clusters) : ~About(o, c)}
    IN  IF o.kind = "duplicate"
        THEN \E copy \in new : copy \notin old /\ new = old \cup {copy}
        ELSE old = new
OthersKept ==
    [][\A t \in Tabs : Writes(t) /\ config = op[t].base => OthersAsRead(t)]_vars

\* Saving a form keeps, of every section the user did not touch, exactly what
\* the cluster had of it and the client knows; other than of schema registry,
\* ksqlDB and metrics, which are saved only when switched on in this very form.
\* Half a login, and a truststore without a password, are lost: the form does
\* not load them.
Whole(s, had) ==
    LET held == {f \in DOMAIN FormSections[s].paths : FormSections[s].paths[f] \in had}
    IN  IF s = "truststore" THEN held \in {{}, DOMAIN FormSections[s].paths}
        ELSE held \cap Credentials \in {{}, Credentials}
Untouched(form, s) ==
    /\ FormSections[s].kind \in {"list", "plain", "custom"}
    /\ form.sections[s] = form.initial.sections[s]
    /\ s = "customAuth" => form.sections["auth"].is # "active"
SectionsAsRead(t) ==
    LET form == op[t].form
        Paths(s) == Range(FormSections[s].paths)
    IN  \A s \in Names, c \in Range(config'.clusters) :
            c.name = form.name /\ Untouched(form, s) /\ Whole(s, form.had) =>
                c.has \cap Paths(s) = form.had \cap Paths(s)
UntouchedKept ==
    [][\A t \in Tabs : Writes(t) /\ op[t].kind = "edit" /\ ~collided =>
          SectionsAsRead(t)]_vars

\* A tab that waits for an answer is answered: the form, the row and the
\* settings become usable again, a cluster that is gone included.
Waiting(t) ==
    op[t].phase \in {"validate", "get", "put", "preview", "import"}
RequestsEnd == \A t \in Tabs : Waiting(t) ~> ~Waiting(t)

\* What the comments of useDeleteAppConfigCluster and GetCurrentConfig say of
\* a write: it keeps every sibling of the clusters, known to the client or not,
\* and so all that the server was told at first and has not been told since.
SiblingsKept == Settings \subseteq config.settings

\* An edit changes what the user meant and nothing else: other clusters,
\* untouched sections and the settings around the clusters; however tabs
\* interleave, names stay unique and a review can be imported: the parts above
\* together (appConfig.ts, ClusterConfigForm, ConfigTransferSection.tsx).
EditsKeepTheRest ==
    /\ [](TypeOK /\ NamesUnique /\ SelectionAccepted /\ SettingsKept)
    /\ OthersKept /\ UntouchedKept
=============================================================================
