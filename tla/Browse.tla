------------------------------- MODULE Browse -------------------------------
(***************************************************************************)
(* Browsing the messages of a topic: the message page of one browser tab,  *)
(* the event stream it reads, the browse service that produces the stream  *)
(* with a forward, backward or tailing emitter, and the cache of resume    *)
(* cursors.  The client turns its URL into a request; the server answers   *)
(* with events and, at the end of a page, with the id of a cursor; the     *)
(* next page asks for that cursor.  The Kafka log, the event-source        *)
(* library and the browser history are external.                           *)
(***************************************************************************)
EXTENDS Integers, FiniteSets, FiniteSetsExt, SequencesExt, Functions

CONSTANTS
    Queries,     \* the queries the user makes: mode, text filter, position
    Landing,     \* the queries the page is opened with
    Log,         \* the log of each partition, by number from 1: "plain",
                 \* "hit", "control" or "gap" (compacted away) for every offset
    FirstEnd,    \* the end of each log at first, the rest is produced later
    Limit,       \* messages per page (PER_PAGE)
    Capacity,    \* capacity of the cursor cache
    BatchMax,    \* most records of one poll
    MaxUrls,     \* times the user asks for something in one behaviour
    MaxFaults    \* faults of the environment in one behaviour

Partitions == DOMAIN Log

Forward == {"EARLIEST", "FROM_OFFSET", "FROM_TIMESTAMP"}
Backward == {"LATEST", "TO_OFFSET", "TO_TIMESTAMP"}

ASSUME BrowseBounds ==
    /\ {Limit, Capacity, BatchMax} \subseteq Nat \ {0}
    /\ {MaxUrls, MaxFaults} \subseteq Nat
ASSUME BrowseQueries ==
    /\ Landing \subseteq Queries
    /\ \A q \in Queries : /\ q.mode \in Forward \cup Backward \cup {"TAILING"}
                          /\ q.at \in Nat
ASSUME BrowseLog ==
    /\ Log \in Seq(Seq({"plain", "hit", "control", "gap"}))
    /\ FirstEnd \in [Partitions -> Nat]
    /\ \A p \in Partitions : FirstEnd[p] \in 0..Len(Log[p])

VARIABLES
    history, visit,      \* the URLs of the tab and the one shown
    stream,              \* the request of the page, as the client sees it
    isFetching, messages, pending, prevCursor, nextCursor,
    wire,                \* events the client has not received yet
    job,                 \* the request, as the server sees it
    orphans,             \* aborted pages the server is still reading
    entries, order,      \* CursorCache
    expired,             \* cursors older than the TTL
    logStart, logEnd,    \* retained offsets of each partition
    issued,              \* the query behind every cursor id ever saved
    urls, faults         \* bounded counters

client == <<history, visit, stream, isFetching, messages, pending,
            prevCursor, nextCursor, urls>>
cursors == <<entries, order, expired, issued>>
kafka == <<logStart, logEnd>>
vars == <<client, wire, job, orphans, cursors, kafka, faults>>

None == 0    \* cursor ids start at 1
Url == history[visit]

---------------------------------------------------------------------------
\* The log.
Offsets(p) == 0..(Len(Log[p]) - 1)
Kind(p, o) == Log[p][o + 1]
Readable(p) == {o \in logStart[p]..(logEnd[p] - 1) : Kind(p, o) # "gap"}
IsData(p, o) == Kind(p, o) \in {"plain", "hit"}
\* The records one poll returns from a partition: the first k from offset at.
Batch(p, at, k) ==
    {o \in Readable(p) :
        o >= at /\ Cardinality({x \in Readable(p) : at <= x /\ x < o}) < k}
clampOffset(v, lo, hi) == IF v < lo THEN lo ELSE IF v > hi THEN hi ELSE v

Matches(q, p, o) == q.text = "" \/ Kind(p, o) = "hit"

---------------------------------------------------------------------------
\* The share of the page limit each partition gets in a backward page: each
\* round divides what remains evenly, rounded up, in partition order.
BugGive(capacity, share, s, p) ==
    LET take == Min({share, capacity[p] - s.budget[p], s.remaining})
    IN [budget |-> [s.budget EXCEPT ![p] = @ + take], remaining |-> 0]
Give(capacity, share, s, p) ==
    LET take == Min({share, capacity[p] - s.budget[p], s.remaining})
    IN [budget |-> [s.budget EXCEPT ![p] = @ + take],
        remaining |-> s.remaining - take]
Active(capacity, s) == {p \in Partitions : s.budget[p] < capacity[p]}
Share(capacity, s) ==
    LET n == Cardinality(Active(capacity, s)) IN (s.remaining + n - 1) \div n
\* The state of a round that began with s after the first p partitions.
Given(capacity, s) ==
    LET given[p \in 0..Len(Log)] ==
            IF p = 0 THEN s
            ELSE IF p \in Active(capacity, s)
            THEN Give(capacity, Share(capacity, s), given[p - 1], p)
            ELSE given[p - 1]
    IN given
BudgetRound(capacity, s) ==
    IF s.remaining = 0 \/ Active(capacity, s) = {} THEN s
    ELSE Given(capacity, s)[Len(Log)]
\* Every round gives out the rest or fills up a partition.
Rounds(limit, capacity) ==
    LET after[n \in 0..Len(Log)] ==
            IF n = 0
            THEN [budget |-> [p \in Partitions |-> 0], remaining |-> limit]
            ELSE BudgetRound(capacity, after[n - 1])
    IN after
backwardBudgets(limit) ==
    [capacity \in [Partitions -> 0..Max({Len(Log[p]) : p \in Partitions})] |->
        Rounds(limit, capacity)[Len(Log)].budget]
PageBudgets == backwardBudgets(Limit)

Sums(f) ==
    LET sum[p \in 0..Len(Log)] == IF p = 0 THEN 0 ELSE sum[p - 1] + f[p]
    IN sum
Total(f) == Sums(f)[Len(Log)]

---------------------------------------------------------------------------
\* CursorCache.
NoChain == [covered |-> {}, hole |-> FALSE, from |-> logStart]
Save(offsets, q, chain) ==
    LET id == Len(issued) + 1
        kept == LET o == Append(order, id)
                IN SubSeq(o, IF Len(o) > Capacity THEN 2 ELSE 1, Len(o))
    IN /\ entries' = [i \in Range(kept) |->
                        IF i = id THEN [offsets |-> offsets, chain |-> chain]
                        ELSE entries[i]]
       /\ order' = kept
       /\ issued' = Append(issued, q)
BugRemoveFromOrder(id) == order
removeFromOrder(id) ==
    LET at == CHOOSE i \in DOMAIN order : order[i] = id
    IN SubSeq(order, 1, at - 1) \o SubSeq(order, at + 1, Len(order))
Evicts(id) == id \in DOMAIN entries /\ id \in expired
Found(id) == id \in DOMAIN entries /\ id \notin expired

---------------------------------------------------------------------------
\* The client.
NoJob == [state |-> "none"]
BugCancelPendingMessages == UNCHANGED pending
cancelPendingMessages == pending' = <<>>

\* A request of the page: what the effect of useTopicMessages does when the
\* URL changes.  The running stream is aborted; the cursor of the last page
\* is sent when the page number of the URL grew.
Orphaned == IF job.state = "reading" /\ job.q.mode # "TAILING" THEN 1 ELSE 0
SendCursor(url) == IF prevCursor < url.cursor THEN nextCursor ELSE None
Asks == urls < MaxUrls /\ urls' = urls + 1
Fetch(url) ==
    /\ Asks
    /\ cancelPendingMessages
    /\ isFetching' = TRUE
    /\ stream' = [state |-> "sent", q |-> url.q, cursor |-> SendCursor(url)]
    /\ prevCursor' = url.cursor
    /\ wire' = <<>>
    /\ orphans' = orphans + Orphaned
    /\ job' = [state |-> "sent", q |-> url.q, cursor |-> SendCursor(url)]
    /\ UNCHANGED <<messages, nextCursor, cursors, kafka, faults>>

Push(url) ==
    /\ history' = Append(SubSeq(history, 1, visit), url)
    /\ visit' = visit + 1
    /\ Fetch(url)

\* A control of Filters.tsx changes the query and keeps the page number.
ChangeQuery == \E q \in Queries \ {Url.q} : Push([Url EXCEPT !.q = q])
\* Refresh: only the r parameter changes.
refreshData == Push(Url)
\* The Next button.
NextDisabled == Url.q.mode = "TAILING" \/ isFetching \/ nextCursor = None
paginate == ~NextDisabled /\ Push([Url EXCEPT !.cursor = @ + 1])
\* Back and forward in the browser.
Go == \E v \in {visit - 1, visit + 1} \cap DOMAIN history :
        visit' = v /\ UNCHANGED history /\ Fetch(history[v])
\* Leaving the page and opening it again: the component starts afresh with
\* the stored filters of the topic, initialisation drops the page number, and
\* nextCursor lives on in a global store.
Reopen ==
    /\ Asks
    /\ history' = <<[Url EXCEPT !.cursor = 0]>> /\ visit' = 1
    /\ stream' = [state |-> "sent", q |-> Url.q, cursor |-> None]
    /\ job' = [state |-> "sent", q |-> Url.q, cursor |-> None]
    /\ messages' = <<>> /\ pending' = <<>> /\ isFetching' = TRUE
    /\ prevCursor' = 0 /\ wire' = <<>> /\ orphans' = orphans + Orphaned
    /\ UNCHANGED <<nextCursor, cursors, kafka, faults>>

\* Stop loading, shown for a live stream only.
abortFetchData ==
    /\ Url.q.mode = "TAILING" /\ isFetching
    /\ cancelPendingMessages
    /\ isFetching' = FALSE /\ stream' = [stream EXCEPT !.state = "none"]
    /\ wire' = <<>> /\ job' = NoJob
    /\ UNCHANGED <<history, visit, urls, messages, prevCursor, nextCursor,
                   orphans, cursors, kafka, faults>>

\* The batch a frame flushes: newest first for a live stream.
BugFlushed == IF Url.q.mode = "TAILING" THEN pending \o messages
              ELSE messages \o pending
Flushed == IF Url.q.mode = "TAILING" THEN Reverse(pending) \o messages
           ELSE messages \o pending
flushPendingMessages ==
    /\ pending # <<>>
    /\ messages' = Flushed /\ pending' = <<>>
    /\ UNCHANGED <<history, visit, urls, stream, isFetching, prevCursor,
                   nextCursor, wire, job, orphans, cursors, kafka, faults>>

Received == wire # <<>> /\ wire' = Tail(wire)
            /\ UNCHANGED <<history, visit, urls, prevCursor, job, orphans,
                           cursors, kafka, faults>>
\* The response begins: status 200 clears the list, another status is shown
\* as an error and the list stays.
onopen ==
    /\ Received /\ stream.state = "sent"
    /\ \/ /\ Head(wire).type # "FAIL"
          /\ stream' = [stream EXCEPT !.state = "open"]
          /\ cancelPendingMessages /\ messages' = <<>>
       \/ /\ Head(wire).type = "FAIL"
          /\ stream' = [stream EXCEPT !.state = "failed"]
          /\ UNCHANGED <<pending, messages>>
    \* The first event of a good response is a phase, which has no cursor.
    /\ nextCursor' = IF Head(wire).type = "FAIL" THEN nextCursor ELSE None
    /\ UNCHANGED isFetching
onmessage ==
    /\ Received /\ stream.state = "open" /\ Head(wire).type \in {"MESSAGE", "DONE"}
    /\ nextCursor' = Head(wire).cursor
    /\ pending' = IF Head(wire).type = "MESSAGE"
                  THEN Append(pending, Head(wire).message) ELSE pending
    /\ UNCHANGED <<stream, messages, isFetching>>
onclose ==
    /\ Received /\ stream.state \in {"open", "failed"} /\ Head(wire).type = "CLOSE"
    /\ messages' = Flushed /\ pending' = <<>>
    /\ isFetching' = FALSE
    /\ stream' = [stream EXCEPT !.state = IF @ = "open" THEN "closed" ELSE "refused"]
    /\ UNCHANGED nextCursor
\* The connection breaks; the library tries the same request again later.
onerror ==
    /\ faults < MaxFaults /\ faults' = faults + 1
    /\ stream.state \in {"sent", "open"}
    /\ nextCursor' = None /\ isFetching' = FALSE
    /\ stream' = [stream EXCEPT !.state = "retry"]
    /\ wire' = <<>> /\ job' = NoJob /\ orphans' = orphans + Orphaned
    /\ UNCHANGED <<history, visit, urls, messages, pending, prevCursor, cursors,
                   kafka>>
Retry ==
    /\ stream.state = "retry"
    /\ stream' = [stream EXCEPT !.state = "sent"]
    /\ job' = [state |-> "sent", q |-> stream.q, cursor |-> stream.cursor]
    /\ UNCHANGED <<history, visit, urls, isFetching, messages, pending,
                   prevCursor, nextCursor, wire, orphans, cursors, kafka, faults>>

---------------------------------------------------------------------------
\* The server.
Event(t) == [type |-> t, cursor |-> None, message |-> <<>>]
Message(p, o) == [Event("MESSAGE") EXCEPT !.message = <<p, o>>]
Emit(events) == wire' = wire \o events
\* A backward page is sent newest first: by timestamp, which grows with the
\* offset, then by partition.  Otherwise one poll of a partition is sent.
Precedes(q, a, b) ==
    IF q.mode \in Backward THEN a[2] > b[2] \/ (a[2] = b[2] /\ a[1] > b[1])
    ELSE a[2] < b[2]
Send(q, records) ==
    LET hits == {r \in records : Matches(q, r[1], r[2])}
        Nth(i) == CHOOSE r \in hits :
                      Cardinality({x \in hits : Precedes(q, x, r)}) = i - 1
    IN [i \in 1..Cardinality(hits) |-> Message(Nth(i)[1], Nth(i)[2])]

Fault == faults < MaxFaults /\ faults' = faults + 1

\* Browse: resolve, position and open the reader.  A cursor that is unknown
\* or expired counts as none.
Resume == IF job.cursor # None /\ Found(job.cursor)
          THEN entries[job.cursor].offsets ELSE [p \in {} |-> 0]
Position(p, dflt) ==
    clampOffset(IF p \in DOMAIN Resume THEN Resume[p]
                ELSE IF job.q.mode \in {"EARLIEST", "LATEST", "TAILING"} THEN dflt
                ELSE job.q.at,
                logStart[p], logEnd[p])
Capacities == [p \in Partitions |-> Position(p, logEnd[p]) - logStart[p]]
Starts ==
    LET budgets == PageBudgets[Capacities]
    IN [p \in Partitions |->
            IF job.q.mode \in Backward THEN Position(p, logEnd[p]) - budgets[p]
            ELSE Position(p, IF job.q.mode = "TAILING" THEN logEnd[p]
                             ELSE logStart[p])]
Ends == [p \in Partitions |->
            IF job.q.mode \in Backward THEN Position(p, logEnd[p])
            ELSE logEnd[p]]
\* The pages read so far in a chain of pages of one query: the records they
\* covered, where the first began, whether a poll came back empty.
Chain == IF job.cursor # None /\ Found(job.cursor) /\ issued[job.cursor] = job.q
         THEN entries[job.cursor].chain
         ELSE [covered |-> {}, hole |-> FALSE, from |->
               IF job.q.mode \in Backward THEN Ends ELSE Starts]
\* Looking the cursor up evicts it when it has expired.
Load == /\ entries' = IF Evicts(job.cursor)
                      THEN RestrictDomain(entries, LAMBDA i : i # job.cursor)
                      ELSE entries
        /\ order' = IF Evicts(job.cursor) THEN removeFromOrder(job.cursor)
                    ELSE order
        /\ UNCHANGED <<expired, issued>>
Browse ==
    /\ job.state = "sent"
    /\ Load
    /\ job' = [state |-> "reading", q |-> job.q, starts |-> Starts,
               ends |-> Ends, pos |-> Starts, count |-> 0, merged |-> {},
               chain |-> Chain, old |-> Chain.covered, empty |-> FALSE]
    /\ Emit(<<Event("PHASE")>>)
    /\ UNCHANGED <<client, orphans, kafka, faults>>
\* An error before the first event is an ordinary error response.
PreStreamError ==
    /\ job.state = "sent" /\ Fault
    /\ job' = NoJob /\ Emit(<<Event("FAIL"), Event("CLOSE")>>)
    /\ UNCHANGED <<client, orphans, cursors, kafka>>
\* The records of a batch the forward emitter takes: up to the page limit,
\* control records beside.
Taken(p, batch) ==
    {o \in batch : Cardinality({x \in batch : x <= o /\ IsData(p, x)})
                       <= Limit - job.count}
Data(p, S) == {o \in S : IsData(p, o)}
Pairs(p, S) == {<<p, o>> : o \in S}

BugForwardExhausted == \A p \in Partitions : job.pos[p] > job.ends[p]
forwardExhausted == \A p \in Partitions : job.pos[p] >= job.ends[p]
ForwardDone == job.count >= Limit \/ forwardExhausted
emitForward(p, k) ==
    /\ job.q.mode \in Forward /\ ~ForwardDone
    /\ LET taken == Taken(p, Batch(p, job.pos[p], k))
       IN /\ taken # {}
          /\ job' = [job EXCEPT !.pos[p] = Max(taken) + 1,
                                !.count = @ + Cardinality(Data(p, taken)),
                                !.merged = @ \cup Pairs(p, Data(p, taken)),
                                !.chain.covered = @ \cup Pairs(p, Data(p, taken))]
          /\ Emit(Send(job.q, Pairs(p, Data(p, taken))))
\* A backward page is collected first and sent at the end.
BackwardDone == job.empty \/ \A p \in Partitions : job.pos[p] >= job.ends[p]
emitBackward(p, k) ==
    /\ job.q.mode \in Backward /\ ~BackwardDone
    /\ LET batch == Batch(p, job.pos[p], k)
           window == {o \in Data(p, batch) : o < job.ends[p]}
       IN /\ batch # {}
          /\ job' = [job EXCEPT !.pos[p] = Max(batch) + 1,
                                !.merged = @ \cup Pairs(p, window),
                                !.chain.covered = @ \cup Pairs(p, window)]
          /\ Emit(<<>>)
emitTailing(p, k) ==
    /\ job.q.mode = "TAILING"
    /\ LET batch == Batch(p, job.pos[p], k)
       IN /\ batch # {}
          /\ job' = [job EXCEPT !.pos[p] = Max(batch) + 1,
                                !.chain.covered = @ \cup Pairs(p, Data(p, batch)),
                                !.merged = @ \cup Pairs(p, Data(p, batch))]
          /\ Emit(Send(job.q, Pairs(p, Data(p, batch))))
Poll ==
    /\ job.state = "reading"
    /\ \E p \in Partitions, k \in 1..BatchMax :
        emitForward(p, k) \/ emitBackward(p, k) \/ emitTailing(p, k)
    /\ UNCHANGED <<client, orphans, cursors, kafka, faults>>
\* A poll without records: the backward emitter gives up, the others go on.
EmptyPoll ==
    /\ job.state = "reading" /\ job.q.mode \in Backward /\ ~BackwardDone /\ Fault
    /\ job' = [job EXCEPT !.empty = TRUE, !.chain.hole = TRUE]
    /\ UNCHANGED <<client, wire, orphans, cursors, kafka>>

\* The position after the page: the next unread offset forward, the lowest
\* delivered offset, or else the lower bound, backward.
BugNextOf(p) ==
    IF job.q.mode \in Forward THEN job.starts[p]
    ELSE LET got == {r[2] : r \in {m \in job.merged : m[1] = p}}
         IN IF got = {} THEN job.starts[p] ELSE Min(got)
BugLowNextOf(p) ==
    IF job.q.mode \in Forward THEN job.pos[p]
    ELSE LET got == {r[2] : r \in {m \in job.merged : m[1] = p}}
         IN IF got = {} THEN job.starts[p] - 1 ELSE Min(got)
NextOf(p) ==
    IF job.q.mode \in Forward THEN job.pos[p]
    ELSE LET got == {r[2] : r \in {m \in job.merged : m[1] = p}}
         IN IF got = {} THEN job.starts[p] ELSE Min(got)
BugDone == [Event("DONE") EXCEPT !.cursor = Len(issued) + 2]
Done == [Event("DONE") EXCEPT !.cursor = Len(issued) + 1]
Finish ==
    /\ job.state = "reading"
    /\ \/ job.q.mode \in Forward /\ ForwardDone
       \/ job.q.mode \in Backward /\ BackwardDone
    /\ Save([p \in Partitions |-> NextOf(p)], job.q, job.chain)
    /\ Emit((IF job.q.mode \in Backward
             THEN Send(job.q, job.merged) ELSE <<>>)
            \o <<Done, Event("CLOSE")>>)
    /\ job' = [job EXCEPT !.state = "done"]
    /\ UNCHANGED <<client, orphans, expired, kafka, faults>>

\* An error later just ends the stream: no cursor.
ReadError ==
    /\ job.state = "reading" /\ Fault
    /\ job' = [job EXCEPT !.state = "ended"]
    /\ Emit((IF job.q.mode \in Backward THEN Send(job.q, job.merged) ELSE <<>>)
            \o <<Event("CLOSE")>>)
    /\ UNCHANGED <<client, orphans, cursors, kafka>>

\* An aborted page notices at its next event, or saves its cursor first.
OrphanEnds ==
    /\ orphans > 0 /\ orphans' = orphans - 1
    /\ \/ UNCHANGED cursors
       \/ Save([p \in Partitions |-> logStart[p]], [mode |-> "aborted"], NoChain)
          /\ UNCHANGED expired
    /\ UNCHANGED <<client, wire, job, kafka, faults>>

\* Time, producers and retention.
Expire ==
    /\ Fault
    /\ \E id \in DOMAIN entries \ expired : expired' = expired \cup {id}
    /\ UNCHANGED <<client, wire, job, orphans, entries, order, issued, kafka>>
Produce ==
    /\ Fault
    /\ \E p \in Partitions :
        /\ logEnd[p] < Len(Log[p])
        /\ logEnd' = [logEnd EXCEPT ![p] = Len(Log[p])]
    /\ UNCHANGED <<client, wire, job, orphans, cursors, logStart>>
Retain ==
    /\ Fault
    /\ \E p \in Partitions :
        /\ logStart[p] < logEnd[p]
        /\ logStart' = [logStart EXCEPT ![p] = @ + 1]
    /\ UNCHANGED <<client, wire, job, orphans, cursors, logEnd>>

---------------------------------------------------------------------------
Init ==
    /\ \E q \in Landing :
        /\ history = <<[q |-> q, cursor |-> 0]>>
        /\ stream = [state |-> "sent", q |-> q, cursor |-> None]
        /\ job = [state |-> "sent", q |-> q, cursor |-> None]
    /\ visit = 1 /\ isFetching = TRUE /\ messages = <<>> /\ pending = <<>>
    /\ prevCursor = 0 /\ nextCursor = None /\ wire = <<>> /\ orphans = 0
    /\ entries = [i \in {} |-> 0] /\ order = <<>> /\ expired = {} /\ issued = <<>>
    /\ logStart = [p \in Partitions |-> 0]
    /\ logEnd = FirstEnd
    /\ urls = 0 /\ faults = 0

User == ChangeQuery \/ refreshData \/ paginate \/ Go \/ Reopen \/ abortFetchData
Callback == flushPendingMessages \/ onopen \/ onmessage \/ onclose
Serve == Browse \/ Poll \/ Finish
Environment == onerror \/ PreStreamError \/ ReadError \/ EmptyPoll \/ OrphanEnds
               \/ Expire \/ Produce \/ Retain
Next == User \/ Callback \/ Retry \/ Serve \/ Environment

\* The browser's event loop or the goroutine of the request, if either can
\* move, does; a poll returns while there are records to read.
Progress == Callback \/ Serve
Spec == Init /\ [][Next]_vars /\ WF_vars(Progress)

---------------------------------------------------------------------------
\* Types.  Every state component keeps its shape: a URL, an event, a job, and
\* offsets inside the log.
TypeOK ==
    /\ \A i \in DOMAIN history : history[i] \in [q : Queries, cursor : 0..MaxUrls]
    /\ visit \in DOMAIN history /\ urls \in 0..MaxUrls /\ faults \in 0..MaxFaults
    /\ stream.state \in {"none", "sent", "open", "failed", "closed", "refused",
                         "retry"}
    /\ isFetching \in BOOLEAN /\ prevCursor \in 0..MaxUrls
    /\ nextCursor \in 0..Len(issued)
    /\ \A i \in DOMAIN wire :
        wire[i].type \in {"PHASE", "MESSAGE", "DONE", "CLOSE", "FAIL"}
    /\ job.state \in {"none", "sent", "reading", "done", "ended"}
    /\ \A p \in Partitions : 0 <= logStart[p] /\ logStart[p] <= logEnd[p]
                             /\ logEnd[p] <= Len(Log[p])
    /\ DOMAIN entries \subseteq DOMAIN issued /\ expired \subseteq DOMAIN issued

Answered == stream.state \in {"open", "closed"}
OnWire == {i \in DOMAIN wire : wire[i].type = "MESSAGE"}
Answer == IF job.q.mode \in Backward /\ job.state = "reading" THEN {}
          ELSE {m \in job.merged : Matches(job.q, m[1], m[2])}

\* The list shown, the messages waiting for the next frame and the ones on
\* their way are together exactly what the server read for the request of
\* this URL, each once: nothing of an aborted stream shows up, nothing is
\* lost between the queue and the frame (topicMessages.tsx).
ShownIsOwn ==
    Answered =>
        /\ stream.q = Url.q
        /\ Answer = Range(messages \o pending)
                      \cup {wire[i].message : i \in OnWire}
        /\ IsInjective(messages \o pending)
        /\ \A i \in OnWire :
               /\ wire[i].message \notin Range(messages \o pending)
               /\ \A j \in OnWire : wire[i].message = wire[j].message => i = j

\* Within a partition a forward page shows growing offsets, a backward page
\* and a live stream show falling ones, across batches and frames.
ShownInOrder ==
    Answered =>
        \A i, j \in DOMAIN messages :
            i < j /\ messages[i][1] = messages[j][1] =>
                IF Url.q.mode \in Forward THEN messages[i][2] < messages[j][2]
                ELSE messages[i][2] > messages[j][2]

Retained(p, lo, hi) == {o \in logStart[p]..(logEnd[p] - 1) :
                            lo <= o /\ o < hi /\ IsData(p, o)}
Paging == job.state \in {"reading", "done"} /\ job.q.mode # "TAILING"

\* Following Next never shows a record a second time, whatever is produced,
\* retained or evicted in between.
NoRepeat == Paging => job.merged \cap job.old = {}

\* Following Next never skips a record: everything still retained between
\* where the first page began and the cursor has been read.  A backward
\* chain in which a poll came back empty is exempt.
NoSkip ==
    Paging =>
        \A p \in Partitions :
            Pairs(p, IF job.q.mode \in Forward
                     THEN Retained(p, job.chain.from[p], job.pos[p])
                     ELSE IF job.state = "done" /\ ~job.chain.hole
                     THEN Retained(p, NextOf(p), job.chain.from[p])
                     ELSE {})
                \subseteq job.chain.covered

BudgetTable == [limit \in 1..6 |-> backwardBudgets(limit)]
\* Whatever the limit and the requested ends, the budgets of a backward page
\* use up the whole limit, or everything the log holds below those ends, and
\* ask no partition for more than it has (backwardBudgets).
BudgetsExact ==
    job.state = "sent" =>
        \A limit \in DOMAIN BudgetTable, end \in DOMAIN PageBudgets :
            LET capacity == [p \in Partitions |->
                    clampOffset(end[p], logStart[p], logEnd[p]) - logStart[p]]
                budget == BudgetTable[limit][capacity]
            IN /\ Total(budget) = Min({limit, Total(capacity)})
               /\ \A p \in Partitions : budget[p] <= capacity[p]

\* The cursor cache never exceeds its capacity, and its eviction order names
\* exactly the entries it holds, each once: an expired entry taken out by a
\* lookup does not make a later save evict a live one.
CacheConsistent ==
    /\ Len(order) <= Capacity
    /\ Range(order) = DOMAIN entries
    /\ IsInjective(order)

\* A page with nothing left to read in a partition short of its end: the
\* tail was compacted or removed, and the forward emitter polls on.
Stuck == job.state = "reading"
         /\ \E p \in Partitions : job.pos[p] < job.ends[p]
                                  /\ Batch(p, job.pos[p], 1) = {}

\* The page stops loading, unless it shows a live stream or the tail it
\* reads is gone.
FetchEnds == isFetching ~> (~isFetching \/ Url.q.mode = "TAILING" \/ Stuck)

\* A request that carries a cursor carries one its own query was given:
\* "filters stay the same and we have cursor set cursor"
\* (topicMessages.tsx:154).
OwnCursor == stream.cursor # None => issued[stream.cursor] = stream.q

\* The list on the page is, in order, what the server read for its address:
\* the parts above together (topicMessages.tsx, message.go).
ShownAsRead == TypeOK /\ ShownIsOwn /\ ShownInOrder

\* Following Next through a topic neither repeats nor skips a record, with
\* exact budgets and a consistent cursor cache: the parts above together
\* (emitter.go, cursor.go).
PagesExact == NoRepeat /\ NoSkip /\ BudgetsExact /\ CacheConsistent
=============================================================================
