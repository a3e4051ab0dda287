-------------------------------- MODULE Ksql --------------------------------
(***************************************************************************)
(* The KSQL page and what it drives.  A statement is submitted with a POST *)
(* that parks it in the pipe registry under a one-shot id; the page then   *)
(* opens the response stream of that id, and only that GET runs the        *)
(* statement.  The page may be left, the stream aborted or lost, the       *)
(* statement resubmitted, and the registry forgets what nobody claims.     *)
(* A statement is its kind; its text and its stream properties are left    *)
(* out.                                                                    *)
(***************************************************************************)
EXTENDS Integers, Sequences, FiniteSets, SequencesExt

CONSTANTS
    PipeTTL, PipeMax,  \* ttl and max of the PipeRegistry
    MaxFrames,         \* frames of one result
    MaxSubmits, MaxMounts, MaxTicks, KsqlFaults

ASSUME KsqlBounds ==
    /\ {PipeTTL, PipeMax, MaxMounts} \subseteq Nat \ {0}
    /\ {MaxFrames, MaxSubmits, MaxTicks, KsqlFaults} \subseteq Nat

VARIABLES
    ksql,          \* the page: route, tables, streams, mount, pipeId, opened, data
    posts,         \* POSTs of statements that are not settled
    pipes,         \* the registry: id |-> [createdAt, kind]
    streams,       \* attempts to read a response, with both their ends
    configured,    \* the cluster has a KSQL server
    clock,         \* time
    runs,          \* ghost: how often each id ran, and at what age
    ksqlSpent      \* bounded counters

ksqlVars ==
    <<ksql, posts, pipes, streams, configured, clock, runs, ksqlSpent>>

Kinds == {"query", "statement"}
Ids == 1..MaxSubmits
NoPipe == 0                            \* pipeId false
Spend(counter, bound) ==
    /\ ksqlSpent[counter] < bound
    /\ ksqlSpent' = [ksqlSpent EXCEPT ![counter] = @ + 1]

---------------------------------------------------------------------------
\* The registry.
Expired(p) == p.createdAt + PipeTTL <= clock
BugCleanupExpired == pipes
cleanupExpired == [i \in {i \in DOMAIN pipes : ~Expired(pipes[i])} |-> pipes[i]]
register(id, kind) ==
    [i \in DOMAIN cleanupExpired \cup {id} |->
        IF i = id THEN [createdAt |-> clock, kind |-> kind]
        ELSE cleanupExpired[i]]
BugClaim(id) == cleanupExpired
claim(id) == [i \in DOMAIN cleanupExpired \ {id} |-> cleanupExpired[i]]
BugMoreThanFull == Cardinality(DOMAIN cleanupExpired) > PipeMax
BugFull == Cardinality(DOMAIN pipes) >= PipeMax
Full == Cardinality(DOMAIN cleanupExpired) >= PipeMax
lookup == configured

---------------------------------------------------------------------------
\* Frames: those that replace what is shown, add to it, or leave it alone.
FrameKinds == {"Schema", "Row", "table", "Execution error"}
Replaces(frame) == frame \in {"Schema", "table"}
onmessage(data, id, frames, i) ==
    CASE Replaces(frames[i]) -> << <<id, i>> >>
      [] frames[i] = "Row" -> Append(data, <<id, i>>)
      [] OTHER -> data
\* What a server may send next: a query has a schema, then rows; a statement
\* answers with tables; either may end in an error.
NextFrames(kind, frames) ==
    IF frames # <<>> /\ Last(frames) = "Execution error" THEN {}
    ELSE {"Execution error"} \cup
         IF kind = "statement" THEN {"table"}
         ELSE IF frames = <<>> THEN {"Schema"} ELSE {"Row"}

---------------------------------------------------------------------------
\* The attempts.  One that neither end holds any more is dropped.
Attempt(id, n) ==
    [id |-> id, try |-> n, client |-> "waiting", server |-> "requested",
     kind |-> "none", frames |-> <<>>, read |-> 0]
ServerEnded(s) == s.server \in {"ended", "refused"}
Dropped(s) == s.client = "gone" /\ ServerEnded(s)
Held(S) == {s \in S : ~Dropped(s)}
Becomes(s, t) == streams' = Held((streams \ {s}) \cup {t})
BugAborted(S, id) == S
Aborted(S, id) ==
    {IF s.id = id /\ s.client # "gone" THEN [s EXCEPT !.client = "gone"] ELSE s
        : s \in S}
\* The effect of a changed pipeId: abort the old stream, open the new one.
Effect(old, new) ==
    streams' = Held(Aborted(streams, old)
                    \cup IF new = NoPipe THEN {} ELSE {Attempt(new, 1)})

---------------------------------------------------------------------------
\* The page.
Fresh(route, tables, lists, mount) ==
    [route |-> route, tables |-> tables, streams |-> lists, mount |-> mount,
     pipeId |-> NoPipe, opened |-> NoPipe, data |-> <<>>]
isSuccess == ksql.tables /\ ksql.streams
Mounted == ksql.route /\ isSuccess
isPending == \E p \in posts : p.mount = ksql.mount
hasResults == ksql.data # <<>> /\ ksql.pipeId # NoPipe

KsqlInit ==
    /\ ksql = Fresh(TRUE, TRUE, TRUE, 1)
    /\ posts = {} /\ pipes = <<>> /\ streams = {} /\ configured = TRUE
    /\ clock = 0
    /\ runs = [i \in Ids |-> <<>>]
    /\ ksqlSpent = [submits |-> 0, faults |-> 0]

\* Query: submit, the answer to it, "Clear results" and the toast's "Abort".
executeKsql(id, kind) ==
    [id |-> id, mount |-> ksql.mount, kind |-> kind, phase |-> "sent"]
submitHandler(kind) ==
    /\ Mounted /\ ~isPending /\ Spend("submits", MaxSubmits)
    /\ posts' = posts \cup {executeKsql(ksqlSpent'.submits, kind)}
    /\ UNCHANGED <<ksql, pipes, streams, configured, clock, runs>>
setPipeId(p) ==
    /\ p \in posts /\ p.phase = "registered" /\ posts' = posts \ {p}
    /\ IF Mounted /\ p.mount = ksql.mount
       THEN /\ ksql' = [ksql EXCEPT !.pipeId = p.id]
            /\ Effect(ksql.pipeId, p.id)
       ELSE UNCHANGED <<ksql, streams>>
    /\ UNCHANGED <<pipes, configured, clock, runs, ksqlSpent>>
PostFails(p) ==
    /\ p \in posts /\ posts' = posts \ {p}
    /\ \/ p.phase = "refused" /\ UNCHANGED ksqlSpent
       \/ p.phase # "refused" /\ Spend("faults", KsqlFaults)
    /\ UNCHANGED <<ksql, pipes, streams, configured, clock, runs>>
handleClear ==
    /\ Mounted /\ ~isPending /\ hasResults
    /\ ksql' = [ksql EXCEPT !.pipeId = NoPipe]
    /\ Effect(ksql.pipeId, NoPipe)
    /\ UNCHANGED <<posts, pipes, configured, clock, runs, ksqlSpent>>
Waiting(id) == \E s \in streams : s.id = id /\ s.client # "gone"
abortFetchData ==
    /\ Mounted /\ Waiting(ksql.pipeId)
    /\ streams' = Held(Aborted(streams, ksql.pipeId))
    /\ UNCHANGED <<ksql, posts, pipes, configured, clock, runs, ksqlSpent>>

\* KsqlDb shows the query only on its route and while both lists are loaded;
\* unmounting it aborts the stream and forgets everything it held.
Show(route, tables, lists) ==
    LET on == route /\ tables /\ lists
        mount == IF on /\ ~Mounted THEN ksql.mount + 1 ELSE ksql.mount
    IN  /\ mount <= MaxMounts
        /\ ksql' = IF on /\ Mounted
                   THEN [ksql EXCEPT !.route = route, !.tables = tables,
                                     !.streams = lists]
                   ELSE Fresh(route, tables, lists, mount)
        /\ IF Mounted /\ ~on THEN Effect(ksql.pipeId, NoPipe)
           ELSE UNCHANGED streams
Navigate ==
    /\ Show(~ksql.route, ksql.tables, ksql.streams)
    /\ UNCHANGED <<posts, pipes, configured, clock, runs, ksqlSpent>>
\* A list is read again when the window gets the focus, and may fail; the
\* button of the error page reads both.
useKsqlTables ==
    /\ ksql.tables /\ Spend("faults", KsqlFaults)
    /\ Show(ksql.route, FALSE, ksql.streams)
    /\ UNCHANGED <<posts, pipes, configured, clock, runs>>
useKsqlStreams ==
    /\ ksql.streams /\ Spend("faults", KsqlFaults)
    /\ Show(ksql.route, ksql.tables, FALSE)
    /\ UNCHANGED <<posts, pipes, configured, clock, runs>>
Refetch ==
    /\ ~isSuccess /\ lookup /\ Show(ksql.route, TRUE, TRUE)
    /\ UNCHANGED <<posts, pipes, configured, clock, runs, ksqlSpent>>

\* fetchEventSource: headers, frames, the end, a lost connection, the retry.
onopen(s) ==
    /\ s \in streams /\ s.client = "waiting"
    /\ s.frames # <<>> \/ ServerEnded(s)
    /\ Becomes(s, [s EXCEPT !.client = "reading"])
    /\ ksql' = IF s.server = "refused" THEN ksql
               ELSE [ksql EXCEPT !.data = <<>>, !.opened = s.id]
    /\ UNCHANGED <<posts, pipes, configured, clock, runs, ksqlSpent>>
Message(s) ==
    /\ s \in streams /\ s.client = "reading" /\ s.read < Len(s.frames)
    /\ Becomes(s, [s EXCEPT !.read = @ + 1])
    /\ ksql' = [ksql EXCEPT !.data = onmessage(@, s.id, s.frames, s.read + 1)]
    /\ UNCHANGED <<posts, pipes, configured, clock, runs, ksqlSpent>>
onclose(s) ==
    /\ s \in streams /\ s.client = "reading" /\ s.read = Len(s.frames)
    /\ ServerEnded(s)
    /\ Becomes(s, [s EXCEPT !.client = "gone"])
    /\ UNCHANGED <<ksql, posts, pipes, configured, clock, runs, ksqlSpent>>
onerror(s) ==
    /\ s \in streams /\ s.client \in {"waiting", "reading"}
    /\ Spend("faults", KsqlFaults)
    /\ streams' = Held((streams \ {s})
           \cup {[s EXCEPT !.client = "gone"], Attempt(s.id, s.try + 1)})
    /\ UNCHANGED <<ksql, posts, pipes, configured, clock, runs>>

---------------------------------------------------------------------------
\* The server.
Refused(p) == ~lookup \/ p.kind \notin Kinds \/ Full
Register(p) ==
    /\ p \in posts /\ p.phase = "sent"
    /\ posts' = (posts \ {p}) \cup
           {[p EXCEPT !.phase = IF Refused(p) THEN "refused" ELSE "registered"]}
    /\ pipes' = IF ~lookup \/ p.kind \notin Kinds THEN pipes
                ELSE IF Full THEN cleanupExpired ELSE register(p.id, p.kind)
    /\ UNCHANGED <<ksql, streams, configured, clock, runs, ksqlSpent>>
\* The GET: claim the pipe and run its statement, unless the caller is gone.
Open(s) ==
    LET found == lookup /\ s.id \in DOMAIN cleanupExpired
    IN  /\ s \in streams /\ s.server = "requested"
        /\ pipes' = IF lookup THEN claim(s.id) ELSE pipes
        /\ IF found /\ s.client # "gone"
           THEN /\ runs' = [runs EXCEPT ![s.id] =
                               Append(@, clock - pipes[s.id].createdAt)]
                /\ Becomes(s, [s EXCEPT !.server = "running",
                                        !.kind = pipes[s.id].kind])
           ELSE /\ UNCHANGED runs
                /\ Becomes(s, [s EXCEPT !.server = "refused"])
        /\ UNCHANGED <<ksql, posts, configured, clock, ksqlSpent>>
\* A request that is dropped on its way.
Unsent(s) ==
    /\ s \in streams /\ s.server = "requested" /\ s.client = "gone"
    /\ streams' = streams \ {s}
    /\ UNCHANGED <<ksql, posts, pipes, configured, clock, runs, ksqlSpent>>
send(s) ==
    /\ s \in streams /\ s.server = "running" /\ s.client # "gone"
    /\ Len(s.frames) < MaxFrames
    /\ \E f \in NextFrames(s.kind, s.frames) :
          Becomes(s, [s EXCEPT !.frames = Append(@, f)])
    /\ UNCHANGED <<ksql, posts, pipes, configured, clock, runs, ksqlSpent>>
\* Execute returns: the result is complete, or the KSQL server failed.  An
\* error before the first frame is answered with a status.
Execute(s) ==
    /\ s \in streams /\ s.server = "running" /\ s.client # "gone"
    /\ \E end \in {"ended"} \cup IF s.frames = <<>> THEN {"refused"} ELSE {} :
          Becomes(s, [s EXCEPT !.server = end])
    /\ UNCHANGED <<ksql, posts, pipes, configured, clock, runs, ksqlSpent>>
\* The context of the request is cancelled once its caller is gone.
BugCancelled(s) ==
    /\ s \in streams /\ s.server = "running" /\ s.client = "gone"
    /\ s.frames # <<>>
    /\ Becomes(s, [s EXCEPT !.server = "ended"])
    /\ UNCHANGED <<ksql, posts, pipes, configured, clock, runs, ksqlSpent>>
Cancelled(s) ==
    /\ s \in streams /\ s.server = "running" /\ s.client = "gone"
    /\ Becomes(s, [s EXCEPT !.server = "ended"])
    /\ UNCHANGED <<ksql, posts, pipes, configured, clock, runs, ksqlSpent>>

\* The world: time passes, and the cluster's KSQL server is unset and set.
Tick ==
    /\ clock < MaxTicks /\ clock' = clock + 1
    /\ UNCHANGED <<ksql, posts, pipes, streams, configured, runs, ksqlSpent>>
Reconfigure ==
    /\ Spend("faults", KsqlFaults) /\ configured' = ~configured
    /\ UNCHANGED <<ksql, posts, pipes, streams, clock, runs>>

KsqlServer ==
    \/ \E p \in posts : Register(p)
    \/ \E s \in streams : Open(s) \/ send(s) \/ Execute(s) \/ Cancelled(s)
KsqlClient ==
    \/ \E p \in posts : setPipeId(p)
    \/ \E s \in streams : onopen(s) \/ Message(s) \/ onclose(s)
KsqlUser ==
    \/ handleClear \/ abortFetchData \/ Navigate
    \/ useKsqlTables \/ useKsqlStreams \/ Refetch
    \/ \E kind \in Kinds \cup {"invalid"} : submitHandler(kind)
KsqlWorld ==
    \/ Tick \/ Reconfigure
    \/ \E p \in posts : PostFails(p)
    \/ \E s \in streams : onerror(s) \/ Unsent(s)
KsqlProgress == KsqlServer \/ KsqlClient
KsqlNext == KsqlProgress \/ KsqlUser \/ KsqlWorld
KsqlSpec == KsqlInit /\ [][KsqlNext]_ksqlVars /\ WF_ksqlVars(KsqlProgress)
---------------------------------------------------------------------------
\* What the parts of the state can be; the registry never holds more entries
\* than its limit, whoever leaves statements unclaimed.
KsqlTypeOK ==
    /\ {ksql.route, ksql.tables, ksql.streams} \subseteq BOOLEAN
    /\ ksql.mount \in 1..MaxMounts
    /\ {ksql.pipeId, ksql.opened} \subseteq Ids \cup {NoPipe}
    /\ ksql.data \in Seq(Ids \X (1..MaxFrames))
    /\ \A p \in posts :
          /\ p.id \in Ids /\ p.mount \in 1..MaxMounts
          /\ p.kind \in Kinds \cup {"invalid"}
          /\ p.phase \in {"sent", "registered", "refused"}
    /\ DOMAIN pipes \subseteq Ids /\ Cardinality(DOMAIN pipes) <= PipeMax
    /\ \A i \in DOMAIN pipes :
          pipes[i].createdAt \in 0..clock /\ pipes[i].kind \in Kinds
    /\ \A s \in streams :
          /\ s.id \in Ids /\ s.client \in {"waiting", "reading", "gone"}
          /\ s.server \in {"requested", "running", "ended", "refused"}
          /\ s.frames \in Seq(FrameKinds) /\ s.read \in 0..Len(s.frames)
    /\ configured \in BOOLEAN /\ clock \in 0..MaxTicks
    /\ runs \in [Ids -> Seq(Nat)]

\* A statement runs at most once, although a lost connection makes the page
\* ask for the same pipe again: claim removes the entry before Execute.
AtMostOnce == \A i \in Ids : Len(runs[i]) <= 1

\* A statement that nobody asked for within the time to live never runs
\* (claim cleans up before it looks).
StaleNeverRuns == \A i \in Ids : \A k \in DOMAIN runs[i] : runs[i][k] < PipeTTL

\* Once the response of the current pipe has opened, the page shows the
\* frames of that response and of no other, in order and without a gap: all
\* that were read since the last one that replaces the table.
Displayed(s) ==
    {j \in 1..s.read :
        /\ s.frames[j] # "Execution error"
        /\ \A k \in j + 1..s.read : ~Replaces(s.frames[k])}
OwnResults ==
    ksql.pipeId # NoPipe /\ ksql.opened = ksql.pipeId =>
        /\ \A k \in DOMAIN ksql.data :
              ksql.data[k] = <<ksql.pipeId, ksql.data[1][2] + k - 1>>
        /\ \A s \in streams :
              s.id = ksql.pipeId /\ s.client = "reading" /\ s.server # "refused"
                  => {ksql.data[k][2] : k \in DOMAIN ksql.data} = Displayed(s)

\* A valid statement is turned away only when the limit is reached by
\* statements that may still be claimed (register cleans up first).
Claimable == {i \in DOMAIN pipes : pipes[i].createdAt + PipeTTL > clock}
RefusedOnlyIfFull ==
    [][\A p \in posts :
          /\ p.phase = "sent" /\ p.kind \in Kinds /\ configured
          /\ [p EXCEPT !.phase = "refused"] \in posts'
          => Cardinality(Claimable) >= PipeMax]_ksqlVars

\* A statement whose reader has gone does not keep running: the page aborts
\* its stream when it is left or a new statement is opened, and the request's
\* context stops Execute.
NothingLeftRunning ==
    \A i \in Ids :
        LET Unheard == \E s \in streams :
                          s.id = i /\ s.server = "running" /\ s.client = "gone"
        IN  Unheard ~> ~Unheard

\* The four invariants of statements and their results together, and that a
\* full registry is the only reason to refuse one (ksql.go, ksqlDb.tsx):
\* no id runs twice or after its time, and a page shows its own results.
KsqlSafe ==
    [](KsqlTypeOK /\ AtMostOnce /\ StaleNeverRuns /\ OwnResults)
    /\ RefusedOnlyIfFull
=============================================================================
