------------------------------ MODULE Analysis -----------------------------
(***************************************************************************)
(* AnalysisService: POST starts a scan of a topic's fixed offset range in  *)
(* the background, GET shows its progress or result, DELETE cancels it.    *)
(* POST and DELETE of one topic exclude each other by the keyed lock (see  *)
(* KeyedLock), except while POST asks the broker for the range: then only  *)
(* its reservation in starts stands for it.  One partition stands for all: *)
(* the scan treats partitions independently and is exhausted when each is. *)
(***************************************************************************)
EXTENDS Naturals, FiniteSets

CONSTANTS
    Topics,    \* analysisIdentity values
    Posts,     \* concurrent Analyze calls
    Deletes,   \* concurrent Cancel calls
    Runs,      \* addresses of analysisRun values
    None,      \* nil
    MaxLog,    \* records a topic can receive
    MaxCancel  \* Cancel calls that get through, per topic

ASSUME AnalysisAssumption ==
    /\ Posts \cap Deletes = {}
    /\ None \notin Posts \cup Deletes \cup Runs \cup Topics
    /\ MaxLog \in Nat /\ MaxCancel \in Nat

VARIABLES
    root,        \* the service's context is not cancelled
    configured,  \* the Resolver knows the cluster
    log,         \* per topic: offset -> what is there, for 1 .. its length
    keyMu,       \* holder of the keyed lock of a topic across steps, or None
    runs,        \* AnalysisService.runs
    starts,      \* AnalysisService.starts: whose reservation
    post,        \* per Analyze call: pc, topic, range end (None: lookup error)
    del,         \* per Cancel call: pc, topic and the run it took out
    run,         \* the analysisRun values and their scan goroutines
    cancels      \* history: Cancel calls that took effect, per topic

vars == <<root, configured, log, keyMu, runs, starts, post, del, run, cancels>>

\* What an offset holds: a record, a transaction marker, or nothing any more
\* (compaction).
Slots == {"data", "control", "gone"}
Logs == UNION {[1..n -> Slots] : n \in 0..MaxLog}
End(t) == Cardinality(DOMAIN log[t])

\* (asOf is history: the Cancel calls before the reservation was made.)
NoPost == [pc |-> "idle", topic |-> None, end |-> None, asOf |-> 0]
NoDelete == [pc |-> "idle", topic |-> None, run |-> None]
NoRun == [pc |-> "none", topic |-> None, live |-> TRUE, end |-> 0, next |-> 1,
          cursor |-> 1, seen |-> {}, done |-> FALSE, ok |-> FALSE,
          asOf |-> 0]

Init ==
    /\ root = TRUE
    /\ configured = TRUE
    /\ log = [t \in Topics |-> <<>>]
    /\ keyMu = [t \in Topics |-> None]
    /\ runs = [t \in Topics |-> None]
    /\ starts = [t \in Topics |-> None]
    /\ post = [p \in Posts |-> NoPost]
    /\ del = [d \in Deletes |-> NoDelete]
    /\ run = [r \in Runs |-> NoRun]
    /\ cancels = [t \in Topics |-> 0]

\* ctx.Err() == nil for a run: its context derives from root.
Live(r) == root /\ run[r].live

\* What is left of a run that nobody can reach from the map any more: its
\* goroutine while it lasts.
Garbage(r) == IF run[r].pc = "none" THEN NoRun ELSE run[r]

\* The goroutine of r ends, with or without a result.
Exit(r, done) ==
    IF runs[run[r].topic] = r
      THEN [run EXCEPT ![r].pc = "none", ![r].done = done]
      ELSE [run EXCEPT ![r] = NoRun]

\* A run that is registered and still going.
Running(t) == runs[t] # None /\ ~run[runs[t]].done

----------------------------------------------------------------------------
(* Analyze *)

\* The cluster is looked up before the keyed lock is waited for.
Analyze(p, t) ==
    /\ configured /\ post[p].pc = "idle"
    /\ post' = [post EXCEPT ![p] = [NoPost EXCEPT !.pc = "asked", !.topic = t]]
    /\ UNCHANGED <<root, configured, log, keyMu, runs, starts, del, run, cancels>>

\* The first locked section: a topic that is being analyzed or about to be is
\* left alone, otherwise the call reserves it.
Reserve(p) ==
    LET t == post[p].topic
    IN  /\ post[p].pc = "asked" /\ keyMu[t] = None
        /\ IF Running(t) \/ starts[t] # None
             THEN post' = [post EXCEPT ![p] = NoPost] /\ UNCHANGED starts
             ELSE /\ starts' = [starts EXCEPT ![t] = p]
                  /\ post' = [post EXCEPT ![p].pc = "lookup",
                                          ![p].asOf = cancels[t]]
        /\ UNCHANGED <<root, configured, log, keyMu, runs, del, run, cancels>>

\* PartitionRanges, without any lock: the end of the log as it is now, or no
\* answer (an error, or a topic without partitions, which is an error too).
RangesAnswer(p) ==
    /\ post[p].pc = "lookup"
    /\ \E e \in {None, End(post[p].topic)} :
         post' = [post EXCEPT ![p].pc = "answered", ![p].end = e]
    /\ UNCHANGED <<root, configured, log, keyMu, runs, starts, del, run, cancels>>

\* Fault: any reservation will do.
BugAnyReservation(p) == starts[post[p].topic] # None

\* The reservation in the map is the very one this call made.
Reserved(p) == starts[post[p].topic] = p

\* The second locked section, when the call has lost its reservation, the
\* lookup failed, or the service is shutting down: no run is registered.
GiveUp(p) ==
    LET t == post[p].topic
    IN  /\ post[p].pc = "answered" /\ keyMu[t] = None
        /\ ~Reserved(p) \/ post[p].end = None \/ Running(t) \/ ~root
        /\ starts' = IF Reserved(p) THEN [starts EXCEPT ![t] = None] ELSE starts
        /\ post' = [post EXCEPT ![p] = NoPost]
        /\ UNCHANGED <<root, configured, log, keyMu, runs, del, run, cancels>>

\* The second locked section otherwise: a run is registered, replacing a
\* finished one.  An empty range is finished by this call, which holds the keyed
\* lock until then; otherwise a goroutine scans it.
Register(p) ==
    LET t == post[p].topic
        empty == post[p].end = 0
    IN  /\ post[p].pc = "answered" /\ keyMu[t] = None
        /\ Reserved(p) /\ post[p].end # None /\ ~Running(t) /\ root
        /\ starts' = [starts EXCEPT ![t] = None]
        /\ \E r \in Runs :
             /\ run[r] = NoRun /\ \A d \in Deletes : del[d].run # r
             /\ runs' = [runs EXCEPT ![t] = r]
             /\ run' = [x \in Runs |->
                   IF x = r
                     THEN [NoRun EXCEPT !.topic = t, !.end = post[p].end,
                                        !.pc = IF empty THEN "finish" ELSE "open",
                                        !.ok = empty, !.asOf = post[p].asOf]
                     ELSE IF x = runs[t] THEN Garbage(x) ELSE run[x]]
        /\ keyMu' = [keyMu EXCEPT ![t] = IF empty THEN p ELSE None]
        /\ post' = [post EXCEPT ![p] = IF empty THEN [@ EXCEPT !.pc = "empty"]
                                       ELSE NoPost]
        /\ UNCHANGED <<root, configured, log, del, cancels>>

\* The call returns once the empty run is finished.
EmptyDone(p) ==
    LET t == post[p].topic
    IN  /\ post[p].pc = "empty" /\ run[runs[t]].pc = "none"
        /\ keyMu' = [keyMu EXCEPT ![t] = None]
        /\ post' = [post EXCEPT ![p] = NoPost]
        /\ UNCHANGED <<root, configured, log, runs, starts, del, run, cancels>>

----------------------------------------------------------------------------
(* Cancel *)

\* The lookup comes first here too.
Cancel(d, t) ==
    /\ configured /\ del[d].pc = "idle"
    /\ del' = [del EXCEPT ![d] = [NoDelete EXCEPT !.pc = "asked", !.topic = t]]
    /\ UNCHANGED <<root, configured, log, keyMu, runs, starts, post, run, cancels>>

\* Under the locks: run and reservation leave the maps ...
TakeOut(d) ==
    LET t == del[d].topic
    IN  /\ del[d].pc = "asked" /\ keyMu[t] = None
        /\ cancels[t] < MaxCancel
        /\ del' = [del EXCEPT ![d].pc = "stop", ![d].run = runs[t]]
        /\ run' = [r \in Runs |-> IF r = runs[t] THEN Garbage(r) ELSE run[r]]
        /\ runs' = [runs EXCEPT ![t] = None]
        /\ starts' = [starts EXCEPT ![t] = None]
        /\ keyMu' = [keyMu EXCEPT ![t] = d]
        /\ cancels' = [cancels EXCEPT ![t] = @ + 1]
        /\ UNCHANGED <<root, configured, log, post>>

\* Fault: the run is dropped but its context is left alone.
BugRunNotStopped(d) ==
    /\ del[d].pc = "stop"
    /\ keyMu' = [keyMu EXCEPT ![del[d].topic] = None]
    /\ del' = [del EXCEPT ![d] = NoDelete]
    /\ UNCHANGED <<root, configured, log, runs, starts, post, run, cancels>>

\* Fault: the keyed lock is not given back.
BugLockKept(d) ==
    /\ del[d].pc = "stop"
    /\ run' = [r \in Runs |-> IF r = del[d].run /\ run[r].pc # "none"
                               THEN [run[r] EXCEPT !.live = FALSE] ELSE run[r]]
    /\ del' = [del EXCEPT ![d] = NoDelete]
    /\ UNCHANGED <<root, configured, log, keyMu, runs, starts, post, cancels>>

\* ... and their contexts are cancelled, still under the keyed lock.  (The
\* lookup of a cancelled reservation may now answer with an error.)
StopRun(d) ==
    /\ del[d].pc = "stop"
    /\ run' = [r \in Runs |-> IF r = del[d].run /\ run[r].pc # "none"
                               THEN [run[r] EXCEPT !.live = FALSE] ELSE run[r]]
    /\ keyMu' = [keyMu EXCEPT ![del[d].topic] = None]
    /\ del' = [del EXCEPT ![d] = NoDelete]
    /\ UNCHANGED <<root, configured, log, runs, starts, post, cancels>>

----------------------------------------------------------------------------
(* scan *)

Unscanned(r) == {o \in DOMAIN log[run[r].topic] :
                   o >= run[r].cursor /\ log[run[r].topic][o] # "gone"}

\* Fault: the record before the end counts as the end.
BugExhaustedEarly(r) == run[r].next + 1 > run[r].end

\* forwardAnalysisExhausted: next has passed the last offset of the range.
Exhausted(r) == run[r].next > run[r].end

OpenSession(r) ==
    /\ run[r].pc = "open"
    /\ run' = [run EXCEPT ![r].pc = "loop"]
    /\ UNCHANGED <<root, configured, log, keyMu, runs, starts, post, del,
                   cancels>>

\* Fault: next skips the offset after the record.
BugSkipsOne(r, o) ==
    [run[r] EXCEPT !.cursor = o + 1, !.next = o + 2, !.seen = @ \cup {o}]

\* What a polled record does to a run.  A record at or beyond the range's end
\* proves that the range is done; markers are passed but not counted.
Observe(r, o) ==
    IF o > run[r].end
      THEN [run[r] EXCEPT !.cursor = o + 1, !.next = run[r].end + 1]
      ELSE [run[r] EXCEPT !.cursor = o + 1, !.next = o + 1,
              !.seen = IF log[run[r].topic][o] = "data" THEN @ \cup {o} ELSE @]

\* Poll brings the next record (an empty round changes nothing), and possibly
\* an error, which ends the scan after the record is counted.
Poll(r) ==
    /\ run[r].pc = "loop" /\ Live(r) /\ ~Exhausted(r)
    /\ \E o \in Unscanned(r), err \in BOOLEAN :
         /\ \A u \in Unscanned(r) : o <= u
         /\ run' = [run EXCEPT ![r] =
              [Observe(r, o) EXCEPT !.pc = IF err THEN "finish" ELSE "loop"]]
    /\ UNCHANGED <<root, configured, log, keyMu, runs, starts, post, del,
                   cancels>>

\* The session cannot be opened, the poll fails, or no poll makes progress for
\* noProgressTimeout.
ScanFails(r) ==
    /\ \/ run[r].pc = "open"
       \/ run[r].pc = "loop" /\ Live(r) /\ ~Exhausted(r)
    /\ run' = [run EXCEPT ![r].pc = "finish"]
    /\ UNCHANGED <<root, configured, log, keyMu, runs, starts, post, del,
                   cancels>>

\* The range has been scanned to its end: the run finishes without an error.
ScanDone(r) ==
    /\ run[r].pc = "loop" /\ Live(r) /\ Exhausted(r)
    /\ run' = [run EXCEPT ![r].pc = "finish", ![r].ok = TRUE]
    /\ UNCHANGED <<root, configured, log, keyMu, runs, starts, post, del,
                   cancels>>

\* A cancelled run stops without a result, be it in the loop or in finish.
ScanStops(r) ==
    /\ run[r].pc \in {"loop", "finish"} /\ ~Live(r)
    /\ run' = Exit(r, FALSE)
    /\ UNCHANGED <<root, configured, log, keyMu, runs, starts, post, del,
                   cancels>>

\* finish looks at the context first ...
FinishChecked(r) ==
    /\ run[r].pc = "finish" /\ Live(r)
    /\ run' = [run EXCEPT ![r].pc = "publish"]
    /\ UNCHANGED <<root, configured, log, keyMu, runs, starts, post, del,
                   cancels>>

\* Fault: the goroutine ends without marking the run as done.
BugNeverDone(r) ==
    /\ run[r].pc = "publish"
    /\ run' = Exit(r, FALSE)
    /\ UNCHANGED <<root, configured, log, keyMu, runs, starts, post, del,
                   cancels>>

\* ... and publishes the result under the run's own lock.
Publish(r) ==
    /\ run[r].pc = "publish"
    /\ run' = Exit(r, TRUE)
    /\ UNCHANGED <<root, configured, log, keyMu, runs, starts, post, del,
                   cancels>>

----------------------------------------------------------------------------
(* Environment *)

Produce(t) ==
    /\ End(t) < MaxLog
    /\ \E x \in Slots :
         log' = [log EXCEPT ![t] =
                   [o \in 1..(End(t) + 1) |-> IF o \in DOMAIN @ THEN @[o] ELSE x]]
    /\ UNCHANGED <<root, configured, keyMu, runs, starts, post, del, run,
                   cancels>>

\* A reload removes the cluster or adds it again.
Reconfigure ==
    /\ configured' = ~configured
    /\ UNCHANGED <<root, log, keyMu, runs, starts, post, del, run, cancels>>

\* The process shuts down.
Shutdown ==
    /\ root /\ root' = FALSE
    /\ UNCHANGED <<configured, log, keyMu, runs, starts, post, del, run, cancels>>

PostStep(p) ==
    \/ Reserve(p) \/ RangesAnswer(p) \/ GiveUp(p) \/ Register(p) \/ EmptyDone(p)

ScanStep(r) ==
    \/ OpenSession(r) \/ Poll(r) \/ ScanFails(r) \/ ScanDone(r) \/ ScanStops(r)
    \/ FinishChecked(r) \/ Publish(r)

Next ==
    \/ \E p \in Posts : (\E t \in Topics : Analyze(p, t)) \/ PostStep(p)
    \/ \E d \in Deletes : (\E t \in Topics : Cancel(d, t)) \/ TakeOut(d) \/ StopRun(d)
    \/ \E r \in Runs : ScanStep(r)
    \/ \E t \in Topics : Produce(t)
    \/ Reconfigure \/ Shutdown

Spec == Init /\ [][Next]_vars

\* Calls that began are carried through, whoever else takes the keyed lock in
\* between (see EveryWaiterEnters of KeyedLock), and scan goroutines run; a poll
\* that brings nothing ends in the no-progress timeout.
FairSpec ==
    /\ Spec
    /\ \A p \in Posts : SF_vars(PostStep(p))
    /\ \A d \in Deletes : SF_vars(TakeOut(d) \/ StopRun(d))
    /\ \A r \in Runs : WF_vars(ScanStep(r))

----------------------------------------------------------------------------
(* Properties *)

PostType ==
    [pc : {"idle", "asked", "lookup", "answered", "empty"},
     topic : Topics \cup {None}, end : 0..MaxLog \cup {None}, asOf : 0..MaxCancel]
DeleteType ==
    [pc : {"idle", "asked", "stop"}, topic : Topics \cup {None},
     run : Runs \cup {None}]
RunType ==
    [pc : {"none", "open", "loop", "finish", "publish"}, topic : Topics \cup {None},
     live : BOOLEAN, end : 0..MaxLog, next : 1..(MaxLog + 1),
     cursor : 1..(MaxLog + 1), seen : SUBSET (1..MaxLog), done : BOOLEAN,
     ok : BOOLEAN, asOf : 0..MaxCancel]

\* Every variable holds what its Go type allows.
TypeOK ==
    /\ root \in BOOLEAN /\ configured \in BOOLEAN
    /\ log \in [Topics -> Logs]
    /\ keyMu \in [Topics -> Posts \cup Deletes \cup {None}]
    /\ runs \in [Topics -> Runs \cup {None}]
    /\ starts \in [Topics -> Posts \cup {None}]
    /\ post \in [Posts -> PostType]
    /\ del \in [Deletes -> DeleteType]
    /\ run \in [Runs -> RunType]
    /\ cancels \in [Topics -> 0..MaxCancel]

\* A scan that nobody is stopping is the registered one of its topic, so it can
\* be seen and cancelled, and no topic is scanned twice at the same time
\* (Analyze, Cancel).
NoOrphanScan ==
    \A r \in Runs :
        /\ run[r].pc # "none" /\ run[r].live
        /\ \A d \in Deletes : del[d].run # r
        => runs[run[r].topic] = r

\* A cancelled topic stays cancelled: the registered run was asked for after the
\* last Cancel of its topic, even when its POST was already looking up the range
\* while the DELETE came and went (Analyze's reservation token).
CancelWins ==
    \A t \in Topics : runs[t] # None => run[runs[t]].asOf = cancels[t]

\* A result without an error is complete: it counts exactly the records of the
\* range that the POST had looked up, records produced meanwhile, markers and
\* compacted offsets left aside (scan, forwardAnalysisExhausted).
CompleteOrError ==
    \A r \in Runs : run[r].done /\ run[r].ok =>
        run[r].seen = {o \in 1..run[r].end : log[run[r].topic][o] = "data"}

\* A registered analysis ends: it gets a result, or is cancelled, unless the
\* process shuts down first.  (One that stayed unfinished would also refuse
\* every further POST for its topic.)
EveryRunEnds ==
    \A t \in Topics, r \in Runs :
        runs[t] = r ~> (run[r].done \/ runs[t] # r \/ ~root)

\* Every POST returns.
EveryPostReturns == \A p \in Posts : post[p].pc # "idle" ~> post[p].pc = "idle"


\* A result is never that of a cancelled run, nor of a part of the log shown
\* as the whole: the parts above together (analysis.go).
ResultsSound == TypeOK /\ CancelWins /\ CompleteOrError

\* Every analysis and every request ends: the parts above together.
AllEnds == EveryRunEnds /\ EveryPostReturns
=============================================================================
