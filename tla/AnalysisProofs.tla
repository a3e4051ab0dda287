--------------------------- MODULE AnalysisProofs --------------------------
(***************************************************************************)
(* AnalysisService never leaves a scan that nobody can see or cancel, never *)
(* shows the result of a cancelled run, and shows a result without an error *)
(* only when it is complete: for any number of topics, requests, runs and   *)
(* records.  And keyedLocker, the lock it works under, is a mutex per key:  *)
(* it strands nobody and keeps no idle entry, for any number of goroutines. *)
(***************************************************************************)
EXTENDS Analysis, KeyedLock, FiniteSetTheorems, TLAPS

\* A call that began knows its topic; a Cancel holds a run only while it stops it.
CallsShaped ==
    /\ \A p \in Posts : post[p].pc # "idle" => post[p].topic \in Topics
    /\ \A d \in Deletes : /\ del[d].pc # "idle" => del[d].topic \in Topics
                          /\ del[d].pc # "stop" => del[d].run = None

\* The reservation of a topic belongs to the call that made it, which is still
\* looking the range up, and no Cancel has come since.
ReservationOwned ==
    \A t \in Topics : starts[t] # None =>
        /\ post[starts[t]].pc \in {"lookup", "answered"}
        /\ post[starts[t]].topic = t
        /\ post[starts[t]].asOf = cancels[t]

\* A run is registered for its own topic, and no Cancel has come since its POST
\* made its reservation.
RegisteredCurrent ==
    \A t \in Topics : runs[t] # None =>
        run[runs[t]].topic = t /\ run[runs[t]].asOf = cancels[t]

\* What r has counted so far: the records of its range before its cursor.
Counted(r) ==
    /\ run[r].end <= End(run[r].topic)
    /\ run[r].seen = {o \in 1..run[r].end :
                        o < run[r].cursor /\ log[run[r].topic][o] = "data"}
    /\ run[r].next > run[r].end => run[r].cursor > run[r].end
    /\ run[r].ok => run[r].next > run[r].end

\* A run that scans, or has a result.
RunsShaped ==
    \A r \in Runs :
        /\ run[r].done => run[r].pc = "none"
        /\ run[r].pc # "none" \/ run[r].done => run[r].topic \in Topics /\ Counted(r)

\* A range that was looked up is still within the log.
RangesLookedUp ==
    \A p \in Posts : post[p].pc = "answered" /\ post[p].end # None =>
        post[p].end <= End(post[p].topic)

\* The inductive invariant.
IInv ==
    /\ TypeOK /\ CallsShaped /\ RangesLookedUp /\ ReservationOwned /\ RegisteredCurrent
    /\ RunsShaped /\ NoOrphanScan

----------------------------------------------------------------------------
(* Logs *)

\* A log is a function on 1 .. its end.
LEMMA LogShape ==
    ASSUME TypeOK, NEW t \in Topics
    PROVE  /\ End(t) \in 0..MaxLog /\ MaxLog \in Nat
           /\ log[t] \in [1..End(t) -> Slots]
<1>1. log[t] \in Logs /\ MaxLog \in Nat
  BY AnalysisAssumption DEF TypeOK
<1>2. PICK n \in 0..MaxLog : log[t] \in [1..n -> Slots]
  BY <1>1 DEF Logs
<1>3. DOMAIN log[t] = 1..n
  BY <1>2
<1>4. Cardinality(1..n) = n
  BY <1>1, <1>2, FS_Interval
<1> QED
  BY <1>1, <1>2, <1>3, <1>4 DEF End

\* A log that grows keeps what it has.
LEMMA LogGrows ==
    ASSUME TypeOK, NEW t \in Topics, Produce(t)
    PROVE  /\ log' \in [Topics -> Logs]
           /\ \A u \in Topics : End(u) <= End(u)'
           /\ \A u \in Topics : \A o \in 1..End(u) : log'[u][o] = log[u][o]
<1> DEFINE n == End(t) + 1
<1>1. /\ End(t) \in 0..MaxLog /\ MaxLog \in Nat /\ n \in 1..MaxLog
      /\ log[t] \in [1..End(t) -> Slots]
  BY LogShape DEF Produce
<1>2. PICK x \in Slots : log' = [log EXCEPT ![t] =
          [o \in 1..n |-> IF o \in DOMAIN @ THEN @[o] ELSE x]]
  BY DEF Produce
<1>3. PICK q : q = [o \in 1..n |-> IF o \in DOMAIN log[t] THEN log[t][o] ELSE x]
  OBVIOUS
<1>4. q \in [1..n -> Slots] /\ \A o \in 1..End(t) : q[o] = log[t][o]
  BY <1>1, <1>3
<1>5. q \in Logs
  <2>1. n \in 0..MaxLog
    BY <1>1
  <2> QED
    BY <1>4, <2>1 DEF Logs
<1>6. log' = [log EXCEPT ![t] = q]
  BY <1>2, <1>3
<1>7. log' \in [Topics -> Logs] /\ log'[t] = q /\ \A u \in Topics : u # t => log'[u] = log[u]
  BY <1>5, <1>6 DEF TypeOK
<1>8. End(t)' = n
  <2>1. DOMAIN log'[t] = 1..n
    BY <1>4, <1>7
  <2>2. Cardinality(1..n) = n
    BY <1>1, FS_Interval
  <2> QED
    BY <2>1, <2>2 DEF End
<1>9. \A u \in Topics : u # t => End(u)' = End(u)
  BY <1>7 DEF End
<1>10. \A u \in Topics : End(u) \in 0..MaxLog
  BY LogShape
<1>11. \A u \in Topics : End(u) <= End(u)'
  BY <1>1, <1>8, <1>9, <1>10
<1>12. \A u \in Topics : \A o \in 1..End(u) : log'[u][o] = log[u][o]
  BY <1>4, <1>7
<1> QED
  BY <1>7, <1>11, <1>12

----------------------------------------------------------------------------
(* The steps *)

LEMMA InitStep == Init => IInv
<1> SUFFICES ASSUME Init PROVE IInv
  OBVIOUS
<1>1. MaxLog \in Nat /\ MaxCancel \in Nat
  BY AnalysisAssumption
<1>2. <<>> \in Logs
  <2>1. <<>> \in [1..0 -> Slots] /\ 0 \in 0..MaxLog
    BY <1>1
  <2> QED
    BY <2>1 DEF Logs
<1>3. NoPost \in PostType /\ NoDelete \in DeleteType /\ NoRun \in RunType
  BY <1>1 DEF NoPost, NoDelete, NoRun, PostType, DeleteType, RunType
<1>4. TypeOK
  BY <1>1, <1>2, <1>3 DEF Init, TypeOK
<1>5. CallsShaped /\ RangesLookedUp
  BY DEF Init, CallsShaped, RangesLookedUp, NoPost, NoDelete
<1>6. ReservationOwned /\ RegisteredCurrent
  BY DEF Init, ReservationOwned, RegisteredCurrent
<1>7. RunsShaped /\ NoOrphanScan
  BY DEF Init, RunsShaped, NoOrphanScan, NoRun
<1> QED
  BY <1>4, <1>5, <1>6, <1>7 DEF IInv

\* Steps of the calls that leave the runs alone.
LEMMA CallStep ==
    ASSUME IInv, UNCHANGED <<log, runs, run, cancels>>,
           TypeOK', CallsShaped', RangesLookedUp', ReservationOwned',
           \A d \in Deletes : del'[d].run = del[d].run
    PROVE  IInv'
<1>1. RegisteredCurrent'
  BY DEF IInv, RegisteredCurrent
<1>2. RunsShaped'
  BY DEF IInv, RunsShaped, Counted, End
<1>3. NoOrphanScan'
  BY DEF IInv, NoOrphanScan
<1> QED
  BY <1>1, <1>2, <1>3 DEF IInv

LEMMA AnalyzeStep ==
    ASSUME IInv, NEW p \in Posts, NEW t \in Topics, Analyze(p, t)
    PROVE  IInv'
<1> USE AnalysisAssumption
<1>1. PICK x : x = [NoPost EXCEPT !.pc = "asked", !.topic = t]
  OBVIOUS
<1>2. x \in PostType /\ x.topic \in Topics /\ x.pc = "asked"
  <2>1. NoPost \in PostType
    BY DEF NoPost, PostType
  <2> QED
    BY <1>1, <2>1 DEF PostType
<1>3. post' = [post EXCEPT ![p] = x]
  BY <1>1 DEF Analyze
<1>4. TypeOK'
  BY <1>2, <1>3 DEF Analyze, IInv, TypeOK
<1>5. CallsShaped'
  BY <1>2, <1>3 DEF Analyze, IInv, TypeOK, CallsShaped
<1>6. ReservationOwned'
  BY <1>3 DEF Analyze, IInv, TypeOK, ReservationOwned
<1>7. RangesLookedUp'
  BY <1>2, <1>3 DEF Analyze, IInv, TypeOK, RangesLookedUp, End
<1> QED
  BY <1>4, <1>5, <1>6, <1>7, CallStep DEF Analyze

LEMMA ReserveStep ==
    ASSUME IInv, NEW p \in Posts, Reserve(p)
    PROVE  IInv'
<1> USE AnalysisAssumption
<1>1. PICK t \in Topics : t = post[p].topic
  BY DEF Reserve, IInv, CallsShaped
<1>2. post[p] \in PostType /\ cancels[t] \in 0..MaxCancel /\ NoPost \in PostType
  BY DEF IInv, TypeOK, NoPost, PostType
<1>3. CASE post' = [post EXCEPT ![p] = NoPost] /\ UNCHANGED starts
  <2>1. TypeOK'
    BY <1>2, <1>3 DEF Reserve, IInv, TypeOK
  <2>2. CallsShaped'
    BY <1>2, <1>3 DEF Reserve, IInv, TypeOK, CallsShaped, NoPost
  <2>3. ReservationOwned'
    BY <1>3 DEF Reserve, IInv, TypeOK, ReservationOwned
  <2>4. RangesLookedUp'
    BY <1>2, <1>3 DEF Reserve, IInv, TypeOK, RangesLookedUp, End, NoPost
  <2> QED
    BY <2>1, <2>2, <2>3, <2>4, CallStep DEF Reserve
<1>4. CASE /\ starts[t] = None /\ starts' = [starts EXCEPT ![t] = p]
           /\ post' = [post EXCEPT ![p].pc = "lookup", ![p].asOf = cancels[t]]
  <2>0. PICK x : x = [post[p] EXCEPT !.pc = "lookup", !.asOf = cancels[t]]
    OBVIOUS
  <2>1. /\ x \in PostType
        /\ x.topic = t /\ x.pc = "lookup" /\ x.asOf = cancels[t]
    BY <1>1, <1>2, <2>0 DEF PostType
  <2>2. post' = [post EXCEPT ![p] = x]
    BY <1>4, <2>0 DEF IInv, TypeOK
  <2>3. TypeOK'
    BY <1>4, <2>1, <2>2 DEF Reserve, IInv, TypeOK
  <2>4. CallsShaped'
    BY <2>1, <2>2 DEF Reserve, IInv, TypeOK, CallsShaped
  <2>5. ReservationOwned'
    BY <1>4, <2>1, <2>2 DEF Reserve, IInv, TypeOK, ReservationOwned
  <2>6. RangesLookedUp'
    BY <2>1, <2>2 DEF Reserve, IInv, TypeOK, RangesLookedUp, End
  <2> QED
    BY <2>3, <2>4, <2>5, <2>6, CallStep DEF Reserve
<1> QED
  BY <1>1, <1>3, <1>4 DEF Reserve

LEMMA RangesAnswerStep ==
    ASSUME IInv, NEW p \in Posts, RangesAnswer(p)
    PROVE  IInv'
<1> USE AnalysisAssumption
<1>1. post[p].topic \in Topics /\ post[p] \in PostType
  BY DEF RangesAnswer, IInv, TypeOK, CallsShaped
<1>2. PICK e \in {None, End(post[p].topic)} :
        post' = [post EXCEPT ![p].pc = "answered", ![p].end = e]
  BY DEF RangesAnswer
<1>3. e \in 0..MaxLog \cup {None}
  BY <1>1, LogShape DEF IInv
<1>10. PICK x : x = [post[p] EXCEPT !.pc = "answered", !.end = e]
  OBVIOUS
<1>4. /\ x \in PostType
      /\ x.topic = post[p].topic /\ x.pc = "answered" /\ x.asOf = post[p].asOf
      /\ x.end = e
  BY <1>1, <1>3, <1>10 DEF PostType
<1>5. post' = [post EXCEPT ![p] = x]
  BY <1>2, <1>10 DEF IInv, TypeOK
<1>6. TypeOK'
  BY <1>4, <1>5 DEF RangesAnswer, IInv, TypeOK
<1>7. CallsShaped'
  BY <1>1, <1>4, <1>5 DEF RangesAnswer, IInv, TypeOK, CallsShaped
<1>8. ReservationOwned'
  BY <1>4, <1>5 DEF RangesAnswer, IInv, TypeOK, ReservationOwned
<1>9. RangesLookedUp'
  <2>1. End(post[p].topic) \in 0..MaxLog /\ MaxLog \in Nat
    BY <1>1, LogShape DEF IInv
  <2>2. \A t \in Topics : End(t)' = End(t)
    BY DEF RangesAnswer, End
  <2> QED
    BY <1>1, <1>2, <1>4, <1>5, <2>1, <2>2 DEF IInv, TypeOK, CallsShaped, RangesLookedUp
<1> QED
  BY <1>6, <1>7, <1>8, <1>9, CallStep DEF RangesAnswer

LEMMA GiveUpStep ==
    ASSUME IInv, NEW p \in Posts, GiveUp(p) \/ EmptyDone(p)
    PROVE  IInv'
<1> USE AnalysisAssumption
<1>1. PICK t \in Topics : t = post[p].topic
  BY DEF GiveUp, EmptyDone, IInv, CallsShaped
<1>2. NoPost \in PostType /\ NoPost.pc = "idle"
  BY DEF NoPost, PostType
<1>3. /\ post' = [post EXCEPT ![p] = NoPost]
      /\ UNCHANGED <<root, configured, log, runs, del, run, cancels>>
      /\ keyMu' = keyMu \/ keyMu' = [keyMu EXCEPT ![t] = None]
      /\ \/ starts' = starts /\ starts[t] # p
         \/ starts' = [starts EXCEPT ![t] = None]
  <2>1. CASE GiveUp(p)
    BY <1>1, <2>1 DEF GiveUp, Reserved
  <2>2. CASE EmptyDone(p)
    BY <1>1, <2>2 DEF EmptyDone, IInv, ReservationOwned
  <2> QED
    BY <2>1, <2>2
<1>4. TypeOK'
  BY <1>2, <1>3 DEF IInv, TypeOK
<1>5. CallsShaped'
  BY <1>2, <1>3 DEF IInv, TypeOK, CallsShaped
<1>6. ReservationOwned'
  BY <1>1, <1>3 DEF IInv, TypeOK, ReservationOwned
<1>7. RangesLookedUp'
  BY <1>2, <1>3 DEF IInv, TypeOK, RangesLookedUp, End
<1> QED
  BY <1>3, <1>4, <1>5, <1>6, <1>7, CallStep

LEMMA CancelStep ==
    ASSUME IInv, NEW d \in Deletes, NEW t \in Topics, Cancel(d, t)
    PROVE  IInv'
<1>1. PICK x : x = [NoDelete EXCEPT !.pc = "asked", !.topic = t]
  OBVIOUS
<1>2. /\ x \in DeleteType /\ x.topic \in Topics /\ x.pc = "asked"
      /\ x.run = None
  BY <1>1 DEF NoDelete, DeleteType
<1>3. del' = [del EXCEPT ![d] = x] /\ del[d].run = None
  BY <1>1 DEF Cancel, IInv, CallsShaped
<1>4. TypeOK'
  BY <1>2, <1>3 DEF Cancel, IInv, TypeOK
<1>5. CallsShaped' /\ \A e \in Deletes : del'[e].run = del[e].run
  BY <1>2, <1>3 DEF Cancel, IInv, TypeOK, CallsShaped
<1>6. ReservationOwned' /\ RangesLookedUp'
  BY DEF Cancel, IInv, ReservationOwned, RangesLookedUp, End
<1> QED
  BY <1>4, <1>5, <1>6, CallStep DEF Cancel

LEMMA EnvironmentStep ==
    ASSUME IInv, Reconfigure \/ Shutdown \/ UNCHANGED vars
    PROVE  IInv'
<1>1. UNCHANGED <<log, keyMu, runs, starts, post, del, run, cancels>>
  BY DEF Reconfigure, Shutdown, vars
<1>2. root' \in BOOLEAN /\ configured' \in BOOLEAN
  BY Zenon DEF Reconfigure, Shutdown, vars, IInv, TypeOK
<1>3. TypeOK'
  BY <1>1, <1>2 DEF IInv, TypeOK
<1>4. CallsShaped' /\ RangesLookedUp' /\ ReservationOwned'
  BY <1>1 DEF IInv, CallsShaped, RangesLookedUp, ReservationOwned, End
<1> QED
  BY <1>1, <1>3, <1>4, CallStep

LEMMA ProduceStep ==
    ASSUME IInv, NEW t \in Topics, Produce(t)
    PROVE  IInv'
<1>1. UNCHANGED <<root, configured, keyMu, runs, starts, post, del, run, cancels>>
  BY DEF Produce
<1>2. /\ log' \in [Topics -> Logs]
      /\ \A u \in Topics : End(u) <= End(u)'
      /\ \A u \in Topics : \A o \in 1..End(u) : log'[u][o] = log[u][o]
  BY LogGrows DEF IInv
<1>3. TypeOK'
  BY <1>1, <1>2 DEF IInv, TypeOK
<1>4. CallsShaped' /\ ReservationOwned' /\ RegisteredCurrent' /\ NoOrphanScan'
  BY <1>1 DEF IInv, CallsShaped, ReservationOwned, RegisteredCurrent, NoOrphanScan
<1>5. \A u \in Topics : End(u) \in Nat /\ End(u)' \in Nat /\ End(u) <= End(u)'
  <2> SUFFICES ASSUME NEW u \in Topics PROVE End(u) \in Nat /\ End(u)' \in Nat
    BY <1>2
  <2>1. End(u) \in Nat
    BY LogShape DEF IInv
  <2>2. \E n \in 0..MaxLog : log'[u] \in [1..n -> Slots]
    BY <1>2 DEF Logs
  <2>3. PICK n \in 0..MaxLog : log'[u] \in [1..n -> Slots]
    BY <2>2
  <2>4. DOMAIN log'[u] = 1..n /\ n \in Nat
    BY <2>3, AnalysisAssumption
  <2>5. Cardinality(1..n) = n
    BY <2>4, FS_Interval
  <2> QED
    BY <2>1, <2>3, <2>4, <2>5 DEF End
<1>6. RangesLookedUp'
  <2>1. MaxLog \in Nat
    BY AnalysisAssumption
  <2>2. \A p \in Posts : post[p].end # None => post[p].end \in 0..MaxLog
    BY DEF IInv, TypeOK, PostType
  <2> QED
    BY <1>1, <1>5, <2>1, <2>2 DEF IInv, CallsShaped, RangesLookedUp
<1>7. RunsShaped'
  <2> SUFFICES ASSUME NEW r \in Runs, run[r].topic \in Topics, Counted(r)
               PROVE  Counted(r)'
    BY <1>1 DEF IInv, RunsShaped
  <2>1. PICK u \in Topics : u = run[r].topic
    OBVIOUS
  <2>2. /\ End(u) \in Nat /\ End(u)' \in Nat /\ run[r].end \in Nat
        /\ End(u) <= End(u)' /\ run[r].end <= End(u)
    BY <1>5, <2>1, AnalysisAssumption DEF IInv, TypeOK, RunType, Counted
  <2>3. \A o \in 1..run[r].end : log'[u][o] = log[u][o]
    BY <1>2, <2>2
  <2> QED
    BY <1>1, <2>1, <2>2, <2>3 DEF Counted
<1> QED
  BY <1>3, <1>4, <1>6, <1>7 DEF IInv

\* A step of the goroutine of r that does not end it.
LEMMA ScanStepInv ==
    ASSUME IInv, NEW r \in Runs, run[r].pc # "none", NEW x \in RunType,
           run' = [run EXCEPT ![r] = x],
           x.pc # "none", x.topic = run[r].topic, x.asOf = run[r].asOf,
           x.live = run[r].live, x.done = run[r].done, Counted(r)',
           UNCHANGED <<root, configured, log, keyMu, runs, starts, post, del,
                       cancels>>
    PROVE  IInv'
<1>1. run'[r] = x /\ \A y \in Runs : y # r => run'[y] = run[y]
  BY DEF IInv, TypeOK
<1>2. TypeOK'
  BY DEF IInv, TypeOK
<1>3. CallsShaped' /\ RangesLookedUp' /\ ReservationOwned'
  BY DEF IInv, CallsShaped, RangesLookedUp, ReservationOwned, End
<1>4. RegisteredCurrent'
  BY <1>1 DEF IInv, TypeOK, RegisteredCurrent
<1>5. RunsShaped'
  <2>1. \A y \in Runs : y # r => (Counted(y)' <=> Counted(y))
    BY <1>1 DEF Counted, End
  <2> QED
    BY <1>1, <2>1 DEF IInv, RunsShaped
<1>6. NoOrphanScan'
  BY <1>1 DEF IInv, NoOrphanScan
<1> QED
  BY <1>2, <1>3, <1>4, <1>5, <1>6 DEF IInv

\* A step that changes nothing but where the goroutine is.
LEMMA MoveOnStep ==
    ASSUME IInv, NEW r \in Runs,
           OpenSession(r) \/ ScanFails(r) \/ ScanDone(r) \/ FinishChecked(r)
    PROVE  IInv'
<1>1. /\ run[r].pc # "none" /\ run[r] \in RunType /\ run[r].topic \in Topics
      /\ Counted(r)
  BY DEF OpenSession, ScanFails, ScanDone, FinishChecked, IInv, TypeOK, RunsShaped
<1>2. UNCHANGED <<root, configured, log, keyMu, runs, starts, post, del, cancels>>
  BY DEF OpenSession, ScanFails, ScanDone, FinishChecked
<1>3. CASE ~ScanDone(r)
  <2>1. PICK phase \in {"loop", "finish", "publish"} : run' = [run EXCEPT ![r].pc = phase]
    BY <1>3 DEF OpenSession, ScanFails, FinishChecked
  <2>2. PICK x : x = [run[r] EXCEPT !.pc = phase]
    OBVIOUS
  <2>3. /\ x \in RunType /\ x.pc = phase /\ x.topic = run[r].topic
        /\ x.asOf = run[r].asOf /\ x.live = run[r].live /\ x.done = run[r].done
        /\ x.end = run[r].end /\ x.next = run[r].next /\ x.seen = run[r].seen
        /\ x.cursor = run[r].cursor /\ x.ok = run[r].ok
    BY <1>1, <2>2 DEF RunType
  <2>4. run' = [run EXCEPT ![r] = x] /\ run'[r] = x
    BY <2>1, <2>2, <2>3 DEF IInv, TypeOK
  <2>5. Counted(r)'
    BY <1>1, <1>2, <2>3, <2>4 DEF Counted, End
  <2> QED
    BY <1>1, <1>2, <2>3, <2>4, <2>5, ScanStepInv
<1>4. CASE ScanDone(r)
  <2>1. PICK x : x = [run[r] EXCEPT !.pc = "finish", !.ok = TRUE]
    OBVIOUS
  <2>2. /\ x \in RunType /\ x.pc = "finish" /\ x.topic = run[r].topic
        /\ x.asOf = run[r].asOf /\ x.live = run[r].live /\ x.done = run[r].done
        /\ x.end = run[r].end /\ x.next = run[r].next /\ x.seen = run[r].seen
        /\ x.cursor = run[r].cursor
    BY <1>1, <2>1 DEF RunType
  <2>3. run' = [run EXCEPT ![r] = x] /\ run'[r] = x
    BY <1>4, <2>1, <2>2 DEF ScanDone, IInv, TypeOK
  <2>4. run[r].next > run[r].end
    BY <1>4 DEF ScanDone, Exhausted
  <2>5. Counted(r)'
    BY <1>1, <1>2, <2>2, <2>3, <2>4 DEF Counted, End
  <2> QED
    BY <1>1, <1>2, <2>2, <2>3, <2>5, ScanStepInv
<1> QED
  BY <1>3, <1>4

\* A polled record is counted if it is one of the range; what lies between the
\* cursor and it holds no record.
LEMMA PollStep ==
    ASSUME IInv, NEW r \in Runs, Poll(r)
    PROVE  IInv'
<1>1. /\ run[r].pc # "none" /\ run[r] \in RunType /\ run[r].topic \in Topics
      /\ Counted(r)
  BY DEF Poll, IInv, TypeOK, RunsShaped
<1>2. UNCHANGED <<root, configured, log, keyMu, runs, starts, post, del, cancels>>
  BY DEF Poll
<1>3. PICK t \in Topics : t = run[r].topic
  BY <1>1
<1>4. /\ End(t) \in 0..MaxLog /\ MaxLog \in Nat /\ log[t] \in [1..End(t) -> Slots]
  BY LogShape DEF IInv
<1>5. PICK o \in Unscanned(r), err \in BOOLEAN :
        /\ \A u \in Unscanned(r) : o <= u
        /\ run' = [run EXCEPT ![r] =
             [Observe(r, o) EXCEPT !.pc = IF err THEN "finish" ELSE "loop"]]
  BY DEF Poll
<1>6. PICK e, c, n, seen : /\ e = run[r].end /\ c = run[r].cursor /\ n = run[r].next
                          /\ seen = run[r].seen
  OBVIOUS
<1>7. /\ o \in 1..End(t) /\ o >= c /\ log[t][o] # "gone"
      /\ \A u \in 1..End(t) : u >= c /\ log[t][u] # "gone" => o <= u
  BY <1>3, <1>4, <1>5, <1>6 DEF Unscanned
<1>8. /\ e \in 0..MaxLog /\ c \in 1..(MaxLog + 1) /\ n \in 1..(MaxLog + 1)
      /\ seen \subseteq 1..MaxLog
  BY <1>1, <1>6 DEF RunType
<1>9. /\ e <= End(t) /\ seen = {u \in 1..e : u < c /\ log[t][u] = "data"}
      /\ (n > e => c > e) /\ (run[r].ok => n > e) /\ n <= e
  BY <1>1, <1>3, <1>6, <1>8 DEF Counted, Poll, Exhausted
<1>10. PICK m, s : /\ m = IF o > e THEN e + 1 ELSE o + 1
                  /\ s = IF o <= e /\ log[t][o] = "data" THEN seen \cup {o} ELSE seen
  OBVIOUS
<1>11. PICK phase \in {"finish", "loop"} : phase = IF err THEN "finish" ELSE "loop"
  OBVIOUS
<1>12. PICK x : x = [run[r] EXCEPT !.pc = phase, !.cursor = o + 1, !.next = m, !.seen = s]
  OBVIOUS
<1>13. run' = [run EXCEPT ![r] = x]
  <2>1. CASE o > e
    <3>1. m = e + 1 /\ s = seen
      BY <1>4, <1>7, <1>8, <1>10, <2>1
    <3>2. PICK y : y = [run[r] EXCEPT !.cursor = o + 1, !.next = run[r].end + 1]
      OBVIOUS
    <3>3. Observe(r, o) = y
      BY <1>6, <2>1, <3>2 DEF Observe
    <3>4. [y EXCEPT !.pc = phase] = x
      BY <1>1, <1>6, <1>12, <3>1, <3>2 DEF RunType
    <3> QED
      BY <1>5, <1>11, <3>3, <3>4
  <2>2. CASE ~(o > e)
    <3>1. o <= e /\ m = o + 1
      BY <1>4, <1>7, <1>8, <1>10, <2>2
    <3>2. PICK y : y = [run[r] EXCEPT !.cursor = o + 1, !.next = o + 1, !.seen = s]
      OBVIOUS
    <3>3. s = IF log[t][o] = "data" THEN seen \cup {o} ELSE seen
      BY <1>10, <3>1
    <3>4. Observe(r, o) = y
      BY <1>1, <1>3, <1>6, <2>2, <3>2, <3>3 DEF Observe, RunType
    <3>5. [y EXCEPT !.pc = phase] = x
      BY <1>1, <1>12, <3>1, <3>2 DEF RunType
    <3> QED
      BY <1>5, <1>11, <3>4, <3>5
  <2> QED
    BY <2>1, <2>2
<1>14. /\ m \in 1..(MaxLog + 1) /\ o + 1 \in 1..(MaxLog + 1) /\ s \subseteq 1..MaxLog
  BY <1>4, <1>7, <1>8, <1>10
<1>15. /\ x \in RunType /\ x.pc = phase /\ x.topic = run[r].topic
       /\ x.asOf = run[r].asOf /\ x.live = run[r].live /\ x.done = run[r].done
       /\ x.end = e /\ x.next = m /\ x.seen = s
       /\ x.cursor = o + 1 /\ x.ok = run[r].ok
  BY <1>1, <1>6, <1>12, <1>14 DEF RunType
<1>16. s = {u \in 1..e : u < o + 1 /\ log[t][u] = "data"}
  <2>1. \A u \in 1..e : u < c => u < o + 1
    BY <1>4, <1>7, <1>8, <1>9
  <2>2. \A u \in 1..e : u < o + 1 /\ log[t][u] = "data" => u < c \/ u = o
    BY <1>4, <1>7, <1>8, <1>9
  <2>3. ASSUME NEW u PROVE u \in s <=> u \in 1..e /\ u < o + 1 /\ log[t][u] = "data"
    <3>1. CASE u = o
      BY <1>4, <1>7, <1>8, <1>9, <1>10, <3>1
    <3>2. CASE u # o
      BY <1>9, <1>10, <2>1, <2>2, <3>2
    <3> QED
      BY <3>1, <3>2
  <2> QED
    BY <2>3
<1>17. m > e => o + 1 > e
  BY <1>4, <1>7, <1>8, <1>10
<1>18. ~run[r].ok
  BY <1>8, <1>9
<1>19. run'[r] = x
  BY <1>13 DEF IInv, TypeOK
<1>20. Counted(r)'
  BY <1>2, <1>3, <1>9, <1>15, <1>16, <1>17, <1>18, <1>19 DEF Counted, End
<1> QED
  BY <1>1, <1>2, <1>11, <1>13, <1>15, <1>20, ScanStepInv

\* The goroutine ends: its run keeps its result if it is registered, or is gone.
LEMMA ExitStep ==
    ASSUME IInv, NEW r \in Runs, run[r].pc # "none", NEW done \in BOOLEAN,
           run' = Exit(r, done),
           UNCHANGED <<root, configured, log, keyMu, runs, starts, post, del,
                       cancels>>
    PROVE  IInv'
<1> USE AnalysisAssumption
<1>1. run[r] \in RunType /\ run[r].topic \in Topics /\ Counted(r)
  BY DEF IInv, TypeOK, RunsShaped
<1>2. NoRun \in RunType /\ NoRun.pc = "none" /\ ~NoRun.done
  BY DEF NoRun, RunType
<1>3. CallsShaped' /\ RangesLookedUp' /\ ReservationOwned'
  BY DEF IInv, CallsShaped, RangesLookedUp, ReservationOwned, End
<1>4. CASE runs[run[r].topic] = r
  <2>1. PICK x : x = [run[r] EXCEPT !.pc = "none", !.done = done]
    OBVIOUS
  <2>2. /\ x \in RunType /\ x.pc = "none" /\ x.topic = run[r].topic
        /\ x.asOf = run[r].asOf /\ x.end = run[r].end /\ x.next = run[r].next
        /\ x.seen = run[r].seen /\ x.cursor = run[r].cursor /\ x.ok = run[r].ok
    BY <1>1, <2>1 DEF RunType
  <2>3. run' = [run EXCEPT ![r] = x]
    BY <1>4, <2>1 DEF Exit, IInv, TypeOK
  <2>4. run'[r] = x /\ \A y \in Runs : y # r => run'[y] = run[y]
    BY <2>3 DEF IInv, TypeOK
  <2>5. TypeOK'
    BY <2>2, <2>3 DEF IInv, TypeOK
  <2>6. RegisteredCurrent'
    BY <2>2, <2>4 DEF IInv, TypeOK, RegisteredCurrent
  <2>7. \A y \in Runs : Counted(y)' <=> Counted(y)
    BY <2>2, <2>4 DEF Counted, End
  <2>8. RunsShaped'
    BY <1>1, <2>2, <2>4, <2>7 DEF IInv, RunsShaped
  <2>9. NoOrphanScan'
    BY <2>2, <2>4 DEF IInv, NoOrphanScan
  <2> QED
    BY <1>3, <2>5, <2>6, <2>8, <2>9 DEF IInv
<1>5. CASE runs[run[r].topic] # r
  <2>1. run' = [run EXCEPT ![r] = NoRun]
    BY <1>5 DEF Exit
  <2>2. run'[r] = NoRun /\ \A y \in Runs : y # r => run'[y] = run[y]
    BY <2>1 DEF IInv, TypeOK
  <2>3. TypeOK'
    BY <1>2, <2>1 DEF IInv, TypeOK
  <2>4. RegisteredCurrent'
    BY <1>5, <2>2 DEF IInv, TypeOK, RegisteredCurrent
  <2>5. \A y \in Runs : y # r => (Counted(y)' <=> Counted(y))
    BY <2>2 DEF Counted, End
  <2>6. RunsShaped'
    BY <1>2, <2>2, <2>5 DEF IInv, RunsShaped
  <2>7. NoOrphanScan'
    BY <1>2, <2>2 DEF IInv, NoOrphanScan
  <2> QED
    BY <1>3, <2>3, <2>4, <2>6, <2>7 DEF IInv
<1> QED
  BY <1>4, <1>5

LEMMA EndStep ==
    ASSUME IInv, NEW r \in Runs, ScanStops(r) \/ Publish(r)
    PROVE  IInv'
<1>1. CASE ScanStops(r)
  BY <1>1, ExitStep DEF ScanStops
<1>2. CASE Publish(r)
  BY <1>2, ExitStep DEF Publish
<1> QED
  BY <1>1, <1>2

----------------------------------------------------------------------------
(* The steps that hand runs over *)

\* Nobody can reach the run that is replaced: it is gone unless its goroutine
\* still goes.
LEMMA GarbageShape ==
    ASSUME IInv, NEW r \in Runs
    PROVE  /\ Garbage(r) \in RunType
           /\ run[r].pc # "none" => Garbage(r) = run[r]
           /\ run[r].pc = "none" => Garbage(r) = NoRun
<1>1. NoRun \in RunType /\ run[r] \in RunType
  BY AnalysisAssumption DEF NoRun, RunType, IInv, TypeOK
<1> QED
  BY <1>1 DEF Garbage

LEMMA RegisterStep ==
    ASSUME IInv, NEW p \in Posts, Register(p)
    PROVE  IInv'
<1> USE AnalysisAssumption
<1>1. PICK t \in Topics : t = post[p].topic
  BY DEF Register, IInv, CallsShaped
<1>2. /\ post[p] \in PostType /\ post[p].pc = "answered" /\ starts[t] = p
      /\ post[p].end \in 0..MaxLog /\ post[p].end <= End(t)
      /\ post[p].asOf = cancels[t] /\ post[p].asOf \in 0..MaxCancel
      /\ ~Running(t) /\ starts' = [starts EXCEPT ![t] = None]
      /\ UNCHANGED <<root, configured, log, del, cancels>>
  BY <1>1 DEF Register, Reserved, IInv, TypeOK, PostType, ReservationOwned, RangesLookedUp
<1>3. PICK r \in Runs :
        /\ run[r] = NoRun /\ \A d \in Deletes : del[d].run # r
        /\ runs' = [runs EXCEPT ![t] = r]
        /\ run' = [x \in Runs |->
              IF x = r
                THEN [NoRun EXCEPT !.topic = t, !.end = post[p].end,
                                   !.pc = IF post[p].end = 0 THEN "finish" ELSE "open",
                                   !.ok = post[p].end = 0, !.asOf = post[p].asOf]
                ELSE IF x = runs[t] THEN Garbage(x) ELSE run[x]]
  BY <1>1 DEF Register
<1>4. PICK empty \in BOOLEAN : empty <=> post[p].end = 0
  OBVIOUS
<1>5. PICK n : n = [NoRun EXCEPT !.topic = t, !.end = post[p].end,
                                 !.pc = IF post[p].end = 0 THEN "finish" ELSE "open",
                                 !.ok = post[p].end = 0, !.asOf = post[p].asOf]
  OBVIOUS
<1>6. /\ n \in RunType /\ n.topic = t /\ n.end = post[p].end /\ n.pc # "none"
      /\ n.asOf = cancels[t] /\ ~n.done /\ n.next = 1 /\ n.cursor = 1 /\ n.seen = {}
      /\ n.ok => post[p].end = 0
  <2>1. PICK phase \in {"finish", "open"} : phase = IF post[p].end = 0 THEN "finish" ELSE "open"
    OBVIOUS
  <2>2. PICK ok \in BOOLEAN : ok = (post[p].end = 0)
    OBVIOUS
  <2>3. n = [NoRun EXCEPT !.topic = t, !.end = post[p].end, !.pc = phase, !.ok = ok,
                          !.asOf = post[p].asOf]
    BY <1>5, <2>1, <2>2, Zenon DEF NoRun
  <2>4. n = [pc |-> phase, topic |-> t, live |-> TRUE, end |-> post[p].end, next |-> 1,
             cursor |-> 1, seen |-> {}, done |-> FALSE, ok |-> ok,
             asOf |-> post[p].asOf]
    BY <2>3 DEF NoRun
  <2>5. 1 \in 1..(MaxLog + 1) /\ {} \in SUBSET (1..MaxLog)
    OBVIOUS
  <2>6. n \in RunType
    BY <1>2, <2>4, <2>5 DEF RunType
  <2>7. /\ n.topic = t /\ n.end = post[p].end /\ n.pc = phase /\ n.asOf = post[p].asOf
        /\ n.done = FALSE /\ n.next = 1 /\ n.cursor = 1 /\ n.seen = {} /\ n.ok = ok
    BY <2>4
  <2> QED
    BY <1>2, <2>2, <2>6, <2>7
<1>7. /\ run'[r] = n
      /\ \A x \in Runs : x # r /\ x # runs[t] => run'[x] = run[x]
      /\ \A x \in Runs : x # r /\ x = runs[t] => run'[x] = Garbage(x)
  BY <1>3, <1>5
<1>8. PICK q : q = IF empty THEN [post[p] EXCEPT !.pc = "empty"] ELSE NoPost
  OBVIOUS
<1>9. q \in PostType /\ q.pc \in {"empty", "idle"} /\ (q.pc # "idle" => q.topic = t)
  <2>1. NoPost \in PostType /\ NoPost.pc = "idle"
    BY DEF NoPost, PostType
  <2>2. PICK y : y = [post[p] EXCEPT !.pc = "empty"]
    OBVIOUS
  <2>3. y \in PostType /\ y.pc = "empty" /\ y.topic = t
    BY <1>1, <1>2, <2>2 DEF PostType
  <2> QED
    BY <1>8, <2>1, <2>2, <2>3
<1>10. /\ post' = [post EXCEPT ![p] = q]
       /\ keyMu' = [keyMu EXCEPT ![t] = IF empty THEN p ELSE None]
  BY <1>1, <1>4, <1>8 DEF Register, IInv, TypeOK
<1>11. TypeOK'
  <2>1. \A x \in Runs : run'[x] \in RunType
    BY <1>6, <1>7, GarbageShape DEF IInv, TypeOK
  <2>2. run' \in [Runs -> RunType]
    BY <1>3, <2>1
  <2>3. keyMu' \in [Topics -> Posts \cup Deletes \cup {None}]
    BY <1>10 DEF IInv, TypeOK
  <2> QED
    BY <1>2, <1>3, <1>9, <1>10, <2>2, <2>3 DEF IInv, TypeOK
<1>12. CallsShaped' /\ RangesLookedUp'
  BY <1>2, <1>9, <1>10 DEF IInv, TypeOK, CallsShaped, RangesLookedUp, End
<1>13. ReservationOwned'
  BY <1>1, <1>2, <1>10 DEF IInv, TypeOK, ReservationOwned
\* A run registered before is not one of another topic, and not the new one.
<1>14. \A u \in Topics \ {t} : runs[u] # None => runs[u] # r /\ runs[u] # runs[t]
  BY <1>3 DEF IInv, RegisteredCurrent, NoRun
<1>15. RegisteredCurrent'
  <2> SUFFICES ASSUME NEW u \in Topics, runs'[u] # None
               PROVE  run'[runs'[u]].topic = u /\ run'[runs'[u]].asOf = cancels[u]
    BY <1>2 DEF RegisteredCurrent
  <2>1. CASE u = t
    BY <1>3, <1>6, <1>7, <2>1 DEF IInv, TypeOK
  <2>2. CASE u # t
    BY <1>3, <1>7, <1>14, <2>2 DEF IInv, TypeOK, RegisteredCurrent
  <2> QED
    BY <2>1, <2>2
\* The run that is replaced is done, so its goroutine has ended.
<1>16. runs[t] # None => Garbage(runs[t]) = NoRun
  BY <1>2, GarbageShape DEF Running, IInv, TypeOK, RunsShaped
<1>17. \A x \in Runs : x # r => run'[x] = run[x] \/ run'[x] = NoRun
  BY <1>7, <1>16
<1>18. Counted(r)'
  <2>1. End(t)' = End(t) /\ MaxLog \in Nat
    BY <1>2 DEF End
  <2>2. \A o \in 1..n.end : ~(o < 1)
    BY <1>2, <1>6
  <2>3. {} = {o \in 1..n.end : o < 1 /\ log[t][o] = "data"}
    BY <2>2
  <2>4. (n.next > n.end => n.cursor > n.end) /\ (n.ok => n.next > n.end)
    BY <1>2, <1>6
  <2> QED
    BY <1>2, <1>6, <1>7, <2>1, <2>3, <2>4 DEF Counted
<1>19. RunsShaped'
  <2>1. NoRun.pc = "none" /\ ~NoRun.done
    BY DEF NoRun
  <2>2. \A x \in Runs : run'[x] = run[x] => (Counted(x)' <=> Counted(x))
    BY <1>2 DEF Counted, End
  <2> QED
    BY <1>6, <1>7, <1>17, <1>18, <2>1, <2>2 DEF IInv, RunsShaped
<1>20. NoOrphanScan'
  <2> SUFFICES ASSUME NEW x \in Runs, run'[x].pc # "none", run'[x].live,
                      \A d \in Deletes : del[d].run # x
               PROVE  runs'[run'[x].topic] = x
    BY <1>2 DEF NoOrphanScan
  <2>1. CASE x = r
    BY <1>3, <1>6, <1>7, <2>1 DEF IInv, TypeOK
  <2>2. CASE x # r
    <3>1. run'[x] = run[x]
      BY <1>17, <2>2 DEF NoRun
    <3>2. x = runs[run[x].topic] /\ run[x].topic \in Topics
      BY <3>1 DEF IInv, NoOrphanScan, RunsShaped
    <3>3. run[x].topic # t
      BY <1>2, <3>1, <3>2 DEF Running, IInv, RunsShaped
    <3> QED
      BY <1>3, <3>1, <3>2, <3>3 DEF IInv, TypeOK
  <2> QED
    BY <2>1, <2>2
<1> QED
  BY <1>11, <1>12, <1>13, <1>15, <1>19, <1>20 DEF IInv

LEMMA TakeOutStep ==
    ASSUME IInv, NEW d \in Deletes, TakeOut(d)
    PROVE  IInv'
<1> USE AnalysisAssumption
<1>1. PICK t \in Topics : t = del[d].topic
  BY DEF TakeOut, IInv, CallsShaped
<1>2. /\ del[d].pc = "asked" /\ del[d].run = None /\ del[d] \in DeleteType
      /\ runs[t] \in Runs \cup {None} /\ cancels[t] \in 0..MaxCancel
      /\ cancels[t] < MaxCancel
      /\ run' = [r \in Runs |-> IF r = runs[t] THEN Garbage(r) ELSE run[r]]
      /\ runs' = [runs EXCEPT ![t] = None] /\ starts' = [starts EXCEPT ![t] = None]
      /\ keyMu' = [keyMu EXCEPT ![t] = d] /\ cancels' = [cancels EXCEPT ![t] = @ + 1]
      /\ UNCHANGED <<root, configured, log, post>>
  BY <1>1 DEF TakeOut, IInv, CallsShaped, TypeOK
<1>3. PICK x : x = [del[d] EXCEPT !.pc = "stop", !.run = runs[t]]
  OBVIOUS
<1>4. x \in DeleteType /\ x.topic = t /\ x.pc = "stop" /\ x.run = runs[t]
  BY <1>1, <1>2, <1>3 DEF DeleteType
<1>5. del' = [del EXCEPT ![d] = x]
  BY <1>1, <1>3 DEF TakeOut, IInv, TypeOK
<1>6. NoRun.pc = "none" /\ ~NoRun.done
  BY DEF NoRun
<1>7. \A r \in Runs : /\ run'[r] \in RunType /\ (r # runs[t] => run'[r] = run[r])
                      /\ (run'[r] = run[r] \/ (r = runs[t] /\ run'[r] = NoRun))
  BY <1>2, GarbageShape DEF IInv, TypeOK
<1>8. TypeOK'
  <2>1. run' \in [Runs -> RunType]
    BY <1>2, <1>7
  <2>2. cancels[t] + 1 \in 0..MaxCancel
    BY <1>2
  <2> QED
    BY <1>2, <1>4, <1>5, <2>1, <2>2 DEF IInv, TypeOK
<1>9. CallsShaped' /\ RangesLookedUp'
  BY <1>2, <1>4, <1>5 DEF IInv, TypeOK, CallsShaped, RangesLookedUp, End
<1>10. ReservationOwned'
  BY <1>2 DEF IInv, TypeOK, ReservationOwned
<1>11. RegisteredCurrent'
  <2> SUFFICES ASSUME NEW u \in Topics, runs'[u] # None
               PROVE  run'[runs'[u]].topic = u /\ run'[runs'[u]].asOf = cancels'[u]
    BY DEF RegisteredCurrent
  <2>1. u # t /\ runs'[u] = runs[u] /\ cancels'[u] = cancels[u] /\ runs[u] \in Runs
    BY <1>2 DEF IInv, TypeOK
  <2>2. runs[u] # runs[t]
    BY <2>1 DEF IInv, RegisteredCurrent
  <2> QED
    BY <1>7, <2>1, <2>2 DEF IInv, RegisteredCurrent
<1>12. RunsShaped'
  <2>1. \A r \in Runs : run'[r] = run[r] => (Counted(r)' <=> Counted(r))
    BY <1>2 DEF Counted, End
  <2> QED
    BY <1>6, <1>7, <2>1 DEF IInv, RunsShaped
<1>13. NoOrphanScan'
  <2> SUFFICES ASSUME NEW r \in Runs, run'[r].pc # "none", run'[r].live,
                      \A e \in Deletes : del'[e].run # r
               PROVE  runs'[run'[r].topic] = r
    BY DEF NoOrphanScan
  <2>1. r # runs[t] /\ \A e \in Deletes : del[e].run # r
    BY <1>2, <1>4, <1>5 DEF IInv, TypeOK
  <2>2. run'[r] = run[r]
    BY <1>7, <2>1
  <2>3. runs[run[r].topic] = r /\ run[r].topic \in Topics
    BY <2>1, <2>2 DEF IInv, NoOrphanScan, RunsShaped
  <2> QED
    BY <1>2, <2>1, <2>2, <2>3 DEF IInv, TypeOK
<1> QED
  BY <1>8, <1>9, <1>10, <1>11, <1>12, <1>13 DEF IInv

LEMMA StopRunStep ==
    ASSUME IInv, NEW d \in Deletes, StopRun(d)
    PROVE  IInv'
<1>1. /\ del[d].topic \in Topics /\ del' = [del EXCEPT ![d] = NoDelete]
      /\ keyMu' = [keyMu EXCEPT ![del[d].topic] = None]
      /\ run' = [r \in Runs |-> IF r = del[d].run /\ run[r].pc # "none"
                                 THEN [run[r] EXCEPT !.live = FALSE] ELSE run[r]]
      /\ UNCHANGED <<root, configured, log, runs, starts, post, cancels>>
  BY DEF StopRun, IInv, CallsShaped
<1>2. NoDelete \in DeleteType /\ NoDelete.pc = "idle" /\ NoDelete.run = None
  BY DEF NoDelete, DeleteType
\* All that changes in a run is that it is told to stop.
<1>3. \A r \in Runs :
        /\ run'[r] \in RunType
        /\ run'[r].pc = run[r].pc /\ run'[r].topic = run[r].topic
        /\ run'[r].asOf = run[r].asOf /\ run'[r].done = run[r].done
        /\ run'[r].end = run[r].end /\ run'[r].next = run[r].next
        /\ run'[r].seen = run[r].seen /\ run'[r].cursor = run[r].cursor
        /\ run'[r].ok = run[r].ok
        /\ run'[r].pc # "none" /\ run'[r].live => run[r].live /\ r # del[d].run
  <2> SUFFICES ASSUME NEW r \in Runs
               PROVE  /\ run'[r] \in RunType
                      /\ run'[r].pc = run[r].pc /\ run'[r].topic = run[r].topic
                      /\ run'[r].asOf = run[r].asOf /\ run'[r].done = run[r].done
                      /\ run'[r].end = run[r].end /\ run'[r].next = run[r].next
                      /\ run'[r].seen = run[r].seen /\ run'[r].cursor = run[r].cursor
                      /\ run'[r].ok = run[r].ok
                      /\ run'[r].pc # "none" /\ run'[r].live => run[r].live /\ r # del[d].run
    OBVIOUS
  <2>1. run[r] \in RunType
    BY DEF IInv, TypeOK
  <2>2. CASE r = del[d].run /\ run[r].pc # "none"
    <3>1. PICK x : x = [run[r] EXCEPT !.live = FALSE]
      OBVIOUS
    <3>2. /\ x \in RunType
          /\ x.pc = run[r].pc /\ x.topic = run[r].topic /\ x.asOf = run[r].asOf
          /\ x.done = run[r].done /\ x.end = run[r].end /\ x.next = run[r].next
          /\ x.seen = run[r].seen /\ x.cursor = run[r].cursor /\ x.ok = run[r].ok
          /\ x.live = FALSE
      BY <2>1, <3>1 DEF RunType
    <3>3. run'[r] = x
      BY <1>1, <2>2, <3>1
    <3> QED
      BY <3>2, <3>3
  <2>3. CASE ~(r = del[d].run /\ run[r].pc # "none")
    BY <1>1, <2>1, <2>3
  <2> QED
    BY <2>2, <2>3
<1>4. TypeOK'
  <2>1. run' \in [Runs -> RunType]
    BY <1>1, <1>3
  <2> QED
    BY <1>1, <1>2, <2>1 DEF IInv, TypeOK
<1>5. CallsShaped' /\ RangesLookedUp' /\ ReservationOwned'
  BY <1>1, <1>2 DEF IInv, TypeOK, CallsShaped, RangesLookedUp, ReservationOwned, End
<1>6. RegisteredCurrent'
  BY <1>1, <1>3 DEF IInv, TypeOK, RegisteredCurrent
<1>7. RunsShaped'
  <2>1. \A r \in Runs : Counted(r)' <=> Counted(r)
    BY <1>1, <1>3 DEF Counted, End
  <2> QED
    BY <1>3, <2>1 DEF IInv, RunsShaped
<1>8. NoOrphanScan'
  BY <1>1, <1>2, <1>3 DEF IInv, TypeOK, NoOrphanScan
<1> QED
  BY <1>4, <1>5, <1>6, <1>7, <1>8 DEF IInv

----------------------------------------------------------------------------
(* The theorems *)

LEMMA NextStep == IInv /\ [Next]_vars => IInv'
<1> SUFFICES ASSUME IInv, [Next]_vars PROVE IInv'
  OBVIOUS
<1>1. ASSUME NEW p \in Posts, NEW t \in Topics, Analyze(p, t) PROVE IInv'
  BY <1>1, AnalyzeStep
<1>2. ASSUME NEW p \in Posts, PostStep(p) PROVE IInv'
  BY <1>2, ReserveStep, RangesAnswerStep, GiveUpStep, RegisterStep DEF PostStep
<1>3. ASSUME NEW d \in Deletes, NEW t \in Topics, Cancel(d, t) PROVE IInv'
  BY <1>3, CancelStep
<1>4. ASSUME NEW d \in Deletes, TakeOut(d) \/ StopRun(d) PROVE IInv'
  BY <1>4, TakeOutStep, StopRunStep
<1>5. ASSUME NEW r \in Runs, ScanStep(r) PROVE IInv'
  BY <1>5, MoveOnStep, PollStep, EndStep DEF ScanStep
<1>6. ASSUME NEW t \in Topics, Produce(t) PROVE IInv'
  BY <1>6, ProduceStep
<1>7. CASE Reconfigure \/ Shutdown \/ UNCHANGED vars
  BY <1>7, EnvironmentStep
<1> QED
  BY <1>1, <1>2, <1>3, <1>4, <1>5, <1>6, <1>7 DEF Next

LEMMA Invariance == Spec => []IInv
<1> QED
  BY InitStep, NextStep, PTL DEF Spec

\* A scan that nobody is stopping is the registered one of its topic: it can be
\* seen and cancelled, and no topic is scanned twice at the same time.
THEOREM EveryScanIsReachable == Spec => []NoOrphanScan
<1>1. IInv => NoOrphanScan
  BY DEF IInv
<1> QED
  BY <1>1, Invariance, PTL

LEMMA CompleteFromInv == IInv => CompleteOrError
<1> SUFFICES ASSUME IInv, NEW r \in Runs, run[r].done, run[r].ok
             PROVE  run[r].seen = {o \in 1..run[r].end : log[run[r].topic][o] = "data"}
  BY DEF CompleteOrError
<1>1. Counted(r) /\ run[r] \in RunType /\ MaxLog \in Nat
  BY AnalysisAssumption DEF IInv, RunsShaped, TypeOK
<1>2. run[r].cursor > run[r].end /\ run[r].cursor \in Nat /\ run[r].end \in Nat
  BY <1>1 DEF Counted, RunType
<1>3. \A o \in 1..run[r].end : o < run[r].cursor
  BY <1>2
<1>4. run[r].seen = {o \in 1..run[r].end :
                       o < run[r].cursor /\ log[run[r].topic][o] = "data"}
  BY <1>1 DEF Counted
<1> QED
  BY <1>3, <1>4

\* The registered run was asked for after the last Cancel of its topic, and a
\* result without an error counts exactly the records of its range.
THEOREM ResultsAreSound == Spec => []ResultsSound
<1>1. IInv => TypeOK /\ CancelWins
  BY DEF IInv, CancelWins, RegisteredCurrent
<1>2. IInv => ResultsSound
  BY <1>1, CompleteFromInv DEF ResultsSound
<1> QED
  BY <1>2, Invariance, PTL

----------------------------------------------------------------------------
(* keyedLocker, the lock the service works under. *)
\* A goroutine refers to an entry from lock to the end of unlock, and that entry
\* is the one in the map.
Placed ==
    \A p \in Procs :
        IF pc[p] = "idle"
          THEN key[p] = Nil /\ entry[p] = Nil
          ELSE key[p] \in Keys /\ entry[p] \in Ids /\ entries[key[p]] = entry[p]

\* No two keys share an entry.
EntriesDistinct ==
    \A j, k \in Keys : entries[j] # Nil /\ entries[j] = entries[k] => j = k

\* entry.mu is held by the goroutine in the critical section, by nobody else.
HeldByCritical ==
    /\ \A p \in Procs : pc[p] = "critical" => holder[entry[p]] = p
    /\ \A i \in Ids : holder[i] # Nil =>
         pc[holder[i]] = "critical" /\ entry[holder[i]] = i

\* Every entry in the map is referred to.
InUse == \A k \in Keys : entries[k] # Nil => \E p \in Procs : entry[p] = entries[k]

\* The inductive invariant.
LockInv ==
    /\ LockTypeOK /\ RefsExact /\ Placed /\ EntriesDistinct /\ HeldByCritical
    /\ InUse

----------------------------------------------------------------------------
\* Users(i) is finite, so its cardinality is a natural number.
LEMMA UsersFinite ==
    ASSUME NEW i \in Ids
    PROVE  IsFiniteSet(Users(i)) /\ Cardinality(Users(i)) \in Nat
<1>1. Users(i) \subseteq Procs
  BY DEF Users
<1>2. IsFiniteSet(Users(i))
  BY <1>1, FiniteAssumption, FS_Subset
<1> QED
  BY <1>2, FS_CardinalityType

\* When p begins to refer to i, the number of i's users grows by one.
LEMMA UsersGrow ==
    ASSUME LockTypeOK, NEW p \in Procs, NEW i \in Ids, entry[p] = Nil,
           entry' = [entry EXCEPT ![p] = i]
    PROVE  /\ Users(i)' = Users(i) \cup {p}
           /\ Cardinality(Users(i)') = Cardinality(Users(i)) + 1
           /\ \A j \in Ids \ {i} : Users(j)' = Users(j)
<1>1. Users(i)' = Users(i) \cup {p}
  BY DEF Users, LockTypeOK
<1>2. p \notin Users(i)
  BY NilAssumption DEF Users
<1>3. \A j \in Ids \ {i} : Users(j)' = Users(j)
  BY NilAssumption DEF Users, LockTypeOK
<1>4. Cardinality(Users(i) \cup {p}) = Cardinality(Users(i)) + 1
  BY <1>2, UsersFinite, FS_AddElement
<1> QED
  BY <1>1, <1>3, <1>4

\* When p stops referring to i, the number of i's users shrinks by one.
LEMMA UsersShrink ==
    ASSUME LockTypeOK, NEW p \in Procs, NEW i \in Ids, entry[p] = i,
           entry' = [entry EXCEPT ![p] = Nil]
    PROVE  /\ Users(i)' = Users(i) \ {p}
           /\ Cardinality(Users(i)') = Cardinality(Users(i)) - 1
           /\ \A j \in Ids \ {i} : Users(j)' = Users(j)
           /\ Cardinality(Users(i)) = 1 => Users(i) = {p}
           /\ Cardinality(Users(i)) \in Nat \ {0}
<1>1. Users(i)' = Users(i) \ {p}
  BY NilAssumption DEF Users, LockTypeOK
<1>2. p \in Users(i)
  BY DEF Users
<1>3. \A j \in Ids \ {i} : Users(j)' = Users(j)
  BY NilAssumption DEF Users, LockTypeOK
<1>4. /\ IsFiniteSet(Users(i) \ {p})
      /\ Cardinality(Users(i) \ {p}) = Cardinality(Users(i)) - 1
  BY <1>2, UsersFinite, FS_RemoveElement
<1>5. Cardinality(Users(i)) = 1 => Users(i) = {p}
  <2>1. SUFFICES ASSUME Cardinality(Users(i)) = 1 PROVE Users(i) \ {p} = {}
    BY <2>1, <1>2
  <2>2. Cardinality(Users(i) \ {p}) = 0
    BY <2>1, <1>4
  <2> QED
    BY <2>2, <1>4, FS_EmptySet
<1>6. Cardinality(Users(i)) # 0
  BY <1>2, UsersFinite, FS_EmptySet
<1> QED
  BY <1>1, <1>3, <1>4, <1>5, <1>6, UsersFinite

----------------------------------------------------------------------------
\* Nobody holds, waits for or refers to anything at first.
LEMMA InitIInv == LockInit => LockInv
<1> SUFFICES ASSUME LockInit PROVE LockInv
  OBVIOUS
<1>1. LockTypeOK
  BY DEF LockInit, LockTypeOK, Pcs
<1>2. RefsExact
  <2>1. \A i \in Ids : Users(i) = {}
    BY NilAssumption DEF LockInit, Users
  <2> QED
    BY <2>1, FS_EmptySet DEF LockInit, RefsExact
<1>3. Placed /\ EntriesDistinct /\ HeldByCritical /\ InUse
  BY NilAssumption DEF LockInit, Placed, EntriesDistinct, HeldByCritical, InUse
<1> QED
  BY <1>1, <1>2, <1>3 DEF LockInv

\* lock, under l.mu.
LEMMA LockIInv ==
    ASSUME LockInv, NEW p \in Procs, NEW k \in Keys, Lock(p, k)
    PROVE  LockInv'
<1> USE DEF LockInv
<1>1. PICK i \in Ids :
        /\ IF entries[k] = Nil
             THEN /\ Users(i) = {} /\ \A j \in Keys : entries[j] # i
                  /\ refs' = [refs EXCEPT ![i] = 1]
                  /\ holder' = [holder EXCEPT ![i] = Nil]
             ELSE /\ i = entries[k]
                  /\ refs' = [refs EXCEPT ![i] = @ + 1]
                  /\ UNCHANGED holder
        /\ entries' = [entries EXCEPT ![k] = i]
        /\ entry' = [entry EXCEPT ![p] = i]
  BY DEF Lock
<1>2. /\ pc[p] = "idle" /\ entry[p] = Nil /\ key[p] = Nil
      /\ key' = [key EXCEPT ![p] = k] /\ pc' = [pc EXCEPT ![p] = "waiting"]
  BY DEF Lock, Placed
<1>3. LockTypeOK'
  BY <1>1, <1>2 DEF LockTypeOK, Pcs
<1>4. RefsExact'
  <2>1. /\ Cardinality(Users(i)') = Cardinality(Users(i)) + 1
        /\ \A j \in Ids \ {i} : Users(j)' = Users(j)
    BY <1>1, <1>2, UsersGrow
  <2>2. refs'[i] = refs[i] + 1 /\ \A j \in Ids \ {i} : refs'[j] = refs[j]
    <3>1. Users(i) = {} => refs[i] = 0
      BY FS_EmptySet DEF RefsExact
    <3> QED
      BY <1>1, <3>1 DEF LockTypeOK
  <2> QED
    BY <2>1, <2>2 DEF RefsExact
<1>5. Placed'
  BY <1>1, <1>2, NilAssumption DEF Placed, LockTypeOK
<1>6. EntriesDistinct'
  BY <1>1, NilAssumption DEF EntriesDistinct, LockTypeOK
<1>7. HeldByCritical'
  <2>1. \A q \in Procs : pc'[q] = "critical" => pc[q] = "critical" /\ q # p
    BY <1>2 DEF LockTypeOK
  <2>2. \A q \in Procs \ {p} : entry'[q] = entry[q] /\ pc'[q] = pc[q]
    BY <1>1, <1>2 DEF LockTypeOK
  <2>3. ASSUME NEW q \in Procs, pc'[q] = "critical" PROVE holder'[entry'[q]] = q
    <3>1. q # p /\ holder[entry[q]] = q /\ entry[q] \in Ids
      BY <2>1, <2>3 DEF HeldByCritical, Placed
    <3>2. Users(i) = {} => entry[q] # i
      BY DEF Users
    <3> QED
      BY <1>1, <2>2, <3>1, <3>2 DEF LockTypeOK
  <2>4. ASSUME NEW j \in Ids, holder'[j] # Nil
        PROVE  pc'[holder'[j]] = "critical" /\ entry'[holder'[j]] = j
    <3>1. holder'[j] = holder[j]
      BY <1>1, <2>4 DEF LockTypeOK
    <3>2. holder[j] \in Procs /\ pc[holder[j]] = "critical" /\ entry[holder[j]] = j
      BY <3>1, <2>4 DEF HeldByCritical, LockTypeOK
    <3> QED
      BY <3>1, <3>2, <2>2, <1>2
  <2> QED
    BY <2>3, <2>4 DEF HeldByCritical
<1>8. InUse'
  <2>1. SUFFICES ASSUME NEW j \in Keys, entries'[j] # Nil
                 PROVE  \E q \in Procs : entry'[q] = entries'[j]
    BY DEF InUse
  <2>2. CASE j = k
    BY <2>2, <1>1 DEF LockTypeOK
  <2>3. CASE j # k
    <3>1. PICK q \in Procs : entry[q] = entries[j]
      BY <2>1, <2>3, <1>1 DEF InUse, LockTypeOK
    <3>2. q # p
      BY <3>1, <1>2, <2>1, <2>3, <1>1 DEF LockTypeOK
    <3> QED
      BY <3>1, <3>2, <2>3, <1>1 DEF LockTypeOK
  <2> QED
    BY <2>2, <2>3
<1> QED
  BY <1>3, <1>4, <1>5, <1>6, <1>7, <1>8

\* Taking entry.mu leaves map and counts alone.
LEMMA EnterIInv ==
    ASSUME LockInv, NEW p \in Procs, Enter(p)
    PROVE  LockInv'
<1> USE DEF LockInv
<1>1. LockTypeOK' /\ Placed' /\ EntriesDistinct' /\ InUse'
  BY DEF Enter, LockTypeOK, Placed, EntriesDistinct, InUse, Pcs
<1>2. RefsExact'
  <2>1. \A i \in Ids : Users(i)' = Users(i)
    BY DEF Enter, Users
  <2> QED
    BY <2>1 DEF Enter, RefsExact
<1>3. HeldByCritical'
  BY NilAssumption DEF Enter, HeldByCritical, Placed, LockTypeOK
<1> QED
  BY <1>1, <1>2, <1>3

\* Releasing entry.mu leaves map and counts alone.
LEMMA UnlockIInv ==
    ASSUME LockInv, NEW p \in Procs, Unlock(p)
    PROVE  LockInv'
<1> USE DEF LockInv
<1>1. LockTypeOK' /\ Placed' /\ EntriesDistinct' /\ InUse'
  BY DEF Unlock, LockTypeOK, Placed, EntriesDistinct, InUse, Pcs
<1>2. RefsExact'
  <2>1. \A i \in Ids : Users(i)' = Users(i)
    BY DEF Unlock, Users
  <2> QED
    BY <2>1 DEF Unlock, RefsExact
<1>3. HeldByCritical'
  BY NilAssumption DEF Unlock, HeldByCritical, Placed, LockTypeOK
<1> QED
  BY <1>1, <1>2, <1>3

\* unlock, under l.mu: the count tells whether p was the last to refer to the
\* entry, and only then does the entry leave the map.
LEMMA DropIInv ==
    ASSUME LockInv, NEW p \in Procs, Drop(p)
    PROVE  LockInv'
<1> USE DEF LockInv
<1>0. PICK i \in Ids : i = entry[p]
  BY DEF Drop, Placed
<1>1. /\ pc[p] = "releasing" /\ i = entry[p] /\ key[p] \in Keys
      /\ entries[key[p]] = i
  BY <1>0 DEF Drop, Placed
<1>2. /\ Cardinality(Users(i)') = Cardinality(Users(i)) - 1
      /\ \A j \in Ids \ {i} : Users(j)' = Users(j)
      /\ Cardinality(Users(i)) = 1 => Users(i) = {p}
      /\ Cardinality(Users(i)) \in Nat \ {0}
  BY <1>1, UsersShrink DEF Drop
<1>3. refs[i] = Cardinality(Users(i)) /\ refs[i] \in Nat \ {0}
  BY <1>1, <1>2 DEF RefsExact
<1>4. LockTypeOK'
  BY <1>1, <1>3 DEF Drop, LockTypeOK, Pcs
<1>5. RefsExact'
  BY <1>1, <1>2, <1>3 DEF Drop, RefsExact, LockTypeOK
<1>6. refs[i] = 1 => \A q \in Procs : entry[q] = i => q = p
  BY <1>2, <1>3 DEF Users
<1>7. Placed'
  <2>1. \A q \in Procs \ {p} : pc[q] # "idle" /\ key[q] = key[p] => entry[q] = i
    BY <1>1 DEF Placed
  <2>2. \A q \in Procs \ {p} : /\ pc'[q] = pc[q] /\ key'[q] = key[q]
                              /\ entry'[q] = entry[q]
    BY DEF Drop, LockTypeOK
  <2>3. \A q \in Procs \ {p} : pc[q] # "idle" => entries'[key[q]] = entries[key[q]]
    BY <1>1, <1>6, <2>1 DEF Drop, LockTypeOK, Placed
  <2> QED
    BY <2>2, <2>3 DEF Drop, Placed, LockTypeOK
<1>8. EntriesDistinct'
  BY <1>1 DEF Drop, EntriesDistinct, LockTypeOK
<1>9. HeldByCritical'
  BY <1>1 DEF Drop, HeldByCritical, Placed, LockTypeOK
<1>10. InUse'
  <2>1. SUFFICES ASSUME NEW j \in Keys, entries'[j] # Nil
                 PROVE  \E q \in Procs : entry'[q] = entries'[j]
    BY DEF InUse
  <2>2. entries'[j] = entries[j]
    BY <1>1, <2>1 DEF Drop, LockTypeOK
  <2>3. CASE entries[j] = i
    <3>1. refs[i] # 1
      BY <2>1, <2>2, <2>3, <1>1 DEF Drop, LockTypeOK, EntriesDistinct
    <3>2. PICK q \in Users(i) : q # p
      <4>1. p \in Users(i)
        BY <1>1 DEF Users
      <4>2. Users(i) # {p}
        BY <1>3, <3>1, FS_Singleton
      <4> QED
        BY <4>1, <4>2
    <3> QED
      BY <3>2, <2>2, <2>3 DEF Drop, Users, LockTypeOK
  <2>4. CASE entries[j] # i
    <3>1. PICK q \in Procs : entry[q] = entries[j]
      BY <2>1, <2>2 DEF InUse
    <3> QED
      BY <3>1, <2>2, <2>4, <1>1 DEF Drop, LockTypeOK
  <2> QED
    BY <2>3, <2>4
<1> QED
  BY <1>4, <1>5, <1>7, <1>8, <1>9, <1>10

\* Every step preserves the inductive invariant.
LEMMA NextIInv == LockInv /\ [LockNext]_lockVars => LockInv'
<1> SUFFICES ASSUME LockInv, [LockNext]_lockVars PROVE LockInv'
  OBVIOUS
<1>1. CASE UNCHANGED lockVars
  BY <1>1 DEF lockVars, LockInv, LockTypeOK, RefsExact, Users, Placed, EntriesDistinct,
              HeldByCritical, InUse
<1>2. ASSUME NEW p \in Procs, NEW k \in Keys, Lock(p, k) PROVE LockInv'
  BY <1>2, LockIInv
<1>3. ASSUME NEW p \in Procs, Enter(p) \/ Unlock(p) \/ Drop(p) PROVE LockInv'
  BY <1>3, EnterIInv, UnlockIInv, DropIInv
<1> QED
  BY <1>1, <1>2, <1>3 DEF LockNext

----------------------------------------------------------------------------
\* The inductive invariant holds in every reachable state.
THEOREM Inductive == LockSpec => []LockInv
BY InitIInv, NextIInv, PTL DEF LockSpec

\* keyedLocker's variables keep their types; in particular refs never goes
\* below zero.
THEOREM LockTypes == LockSpec => []LockTypeOK
<1>1. LockInv => LockTypeOK
  BY DEF LockInv
<1> QED
  BY <1>1, Inductive, PTL

\* refs is exactly the number of goroutines that hold, await or give back the
\* entry.
THEOREM RefsCounted == LockSpec => []RefsExact
<1>1. LockInv => RefsExact
  BY DEF LockInv
<1> QED
  BY <1>1, Inductive, PTL

\* Two goroutines never are in the critical section of the same key.
THEOREM Exclusive == LockSpec => []MutualExclusion
<1>1. LockInv => MutualExclusion
  BY DEF LockInv, MutualExclusion, Placed, HeldByCritical
<1> QED
  BY <1>1, Inductive, PTL

\* No goroutine waits on an entry that has left the map.
THEOREM NobodyStranded == LockSpec => []NoStrandedWaiter
<1>1. LockInv => NoStrandedWaiter
  BY DEF LockInv, NoStrandedWaiter, Placed
<1> QED
  BY <1>1, Inductive, PTL

\* The map holds only keys somebody is using.
THEOREM NoIdleEntry == LockSpec => []IdleReclaimed
<1>1. ASSUME LockInv PROVE IdleReclaimed
  <2>1. SUFFICES ASSUME NEW k \in Keys, entries[k] # Nil
                 PROVE  \E p \in Procs : key[p] = k
    BY DEF IdleReclaimed
  <2>2. PICK p \in Procs : entry[p] = entries[k]
    BY <1>1, <2>1 DEF LockInv, InUse
  <2>3. key[p] \in Keys /\ entries[key[p]] = entries[k]
    BY <1>1, <2>1, <2>2 DEF LockInv, Placed
  <2> QED
    BY <1>1, <2>1, <2>3 DEF LockInv, EntriesDistinct
<1> QED
  BY <1>1, Inductive, PTL

\* The keyed lock is safe: exclusive, nobody waits on a discarded entry, no
\* entry outlives its users and every reference is counted (lock, unlock and
\* the reclamation in keyed_lock.go).
THEOREM LockIsSafe == LockSpec => []LockSafe
BY Exclusive, NobodyStranded, NoIdleEntry, RefsCounted, PTL DEF LockSafe

----------------------------------------------------------------------------
(* keyedLocker implements KeyedMutex. *)

\* The owner and want of the refinement mapping.
Owner == [k \in Keys |->
            IF \E p \in Procs : pc[p] = "critical" /\ key[p] = k
              THEN CHOOSE p \in Procs : pc[p] = "critical" /\ key[p] = k
              ELSE Nil]
Want == [p \in Procs |->
           IF pc[p] \in {"waiting", "critical"} THEN key[p] ELSE Nil]

\* The owner of a key is the goroutine in its critical section.
LEMMA OwnerCritical ==
    ASSUME LockInv, NEW p \in Procs, pc[p] = "critical"
    PROVE  key[p] \in Keys /\ Owner[key[p]] = p
<1>1. MutualExclusion /\ key[p] \in Keys
  BY DEF LockInv, MutualExclusion, Placed, HeldByCritical
<1>2. \A q \in Procs : pc[q] = "critical" /\ key[q] = key[p] => q = p
  BY <1>1 DEF MutualExclusion
<1> QED
  BY <1>1, <1>2 DEF Owner

\* A key whose mutex is free has no owner.
LEMMA FreeNoOwner ==
    ASSUME LockInv, NEW p \in Procs, pc[p] # "idle", holder[entry[p]] = Nil
    PROVE  Owner[key[p]] = Nil
<1>1. key[p] \in Keys /\ entries[key[p]] = entry[p]
  BY DEF LockInv, Placed
<1>2. ASSUME NEW q \in Procs, pc[q] = "critical", key[q] = key[p] PROVE FALSE
  BY <1>1, <1>2, NilAssumption DEF LockInv, Placed, HeldByCritical
<1> QED
  BY <1>1, <1>2 DEF Owner

\* A step that leaves pc and key alone for everyone in or out of k's critical
\* section leaves the owner of k alone.
LEMMA OwnerUnchanged ==
    ASSUME NEW k \in Keys,
           \A q \in Procs : (pc[q] = "critical" /\ key[q] = k)
                               <=> (pc'[q] = "critical" /\ key'[q] = k)
    PROVE  Owner'[k] = Owner[k]
<1>1. (CHOOSE q \in Procs : pc[q] = "critical" /\ key[q] = k)
        = (CHOOSE q \in Procs : pc'[q] = "critical" /\ key'[q] = k)
  OBVIOUS
<1> QED
  BY <1>1 DEF Owner

\* keyedLocker implements one mutex per key: lock is Ask, the return of
\* entry.mu.Lock is Get, entry.mu.Unlock is Put, and the bookkeeping that drops
\* the reference is invisible.
THEOREM Implements == LockSpec => IsKeyedMutex
<1>1. LockInit => Abstract!Init
  BY DEF LockInit, Abstract!Init
<1>2. ASSUME LockInv, LockInv', [LockNext]_lockVars
      PROVE  [Abstract!Next]_<<Owner, Want>>
  <2>1. CASE UNCHANGED lockVars
    BY <2>1 DEF lockVars, Owner, Want
  <2>2. ASSUME NEW p \in Procs, NEW k \in Keys, Lock(p, k)
        PROVE  Abstract!Ask(p, k)
    <3>1. Owner' = Owner
      <4>1. \A j \in Keys : Owner'[j] = Owner[j]
        BY <2>2, <1>2, OwnerUnchanged DEF Lock, LockInv, LockTypeOK
      <4> QED
        BY <4>1 DEF Owner
    <3>2. Want[p] = Nil /\ Want' = [Want EXCEPT ![p] = k]
      BY <2>2, <1>2 DEF Want, Lock, LockInv, LockTypeOK
    <3> QED
      BY <3>1, <3>2 DEF Abstract!Ask, Owner, Want
  <2>3. ASSUME NEW p \in Procs, Enter(p) PROVE Abstract!Get(p)
    <3>1. Want' = Want /\ Want[p] = key[p] /\ key[p] \in Keys
      BY <2>3, <1>2 DEF Want, Enter, LockInv, LockTypeOK, Placed
    <3>2. Owner[key[p]] = Nil
      BY <2>3, <1>2, FreeNoOwner DEF Enter
    <3>3. Owner'[key[p]] = p
      <4>1. pc'[p] = "critical" /\ key'[p] = key[p]
        BY <2>3, <1>2 DEF Enter, LockInv, LockTypeOK
      <4>2. \A q \in Procs : pc'[q] = "critical" /\ key'[q] = key[p] => q = p
        BY <1>2, <4>1 DEF LockInv, Placed, HeldByCritical
      <4> QED
        BY <4>1, <4>2, <3>1 DEF Owner
    <3>4. \A j \in Keys \ {key[p]} : Owner'[j] = Owner[j]
      BY <2>3, <1>2, OwnerUnchanged DEF Enter, LockInv, LockTypeOK
    <3>5. Owner' = [Owner EXCEPT ![key[p]] = p]
      BY <3>1, <3>3, <3>4 DEF Owner
    <3>6. Want[p] # Nil
      BY <3>1, NilAssumption
    <3> QED
      BY <3>1, <3>2, <3>5, <3>6 DEF Abstract!Get, Owner, Want
  <2>4. ASSUME NEW p \in Procs, Unlock(p) PROVE Abstract!Put(p)
    <3>1. /\ Want[p] = key[p] /\ key[p] \in Keys
          /\ Want' = [Want EXCEPT ![p] = Nil]
      BY <2>4, <1>2 DEF Want, Unlock, LockInv, LockTypeOK, Placed
    <3>2. Owner[key[p]] = p
      BY <2>4, <1>2, OwnerCritical DEF Unlock
    <3>3. \A q \in Procs : pc[q] = "critical" /\ key[q] = key[p] => q = p
      BY <2>4, <1>2 DEF Unlock, LockInv, Placed, HeldByCritical
    <3>4. Owner'[key[p]] = Nil
      BY <2>4, <1>2, <3>1, <3>3 DEF Unlock, Owner, LockInv, LockTypeOK
    <3>5. \A j \in Keys \ {key[p]} : Owner'[j] = Owner[j]
      BY <2>4, <1>2, OwnerUnchanged DEF Unlock, LockInv, LockTypeOK
    <3>6. Owner' = [Owner EXCEPT ![key[p]] = Nil]
      BY <3>1, <3>4, <3>5 DEF Owner
    <3>7. Want[p] # Nil
      BY <3>1, NilAssumption
    <3> QED
      BY <3>1, <3>2, <3>6, <3>7 DEF Abstract!Put, Owner, Want
  <2>5. ASSUME NEW p \in Procs, Drop(p) PROVE Owner' = Owner /\ Want' = Want
    <3>1. \A j \in Keys : Owner'[j] = Owner[j]
      BY <2>5, <1>2, OwnerUnchanged DEF Drop, LockInv, LockTypeOK
    <3>2. Want' = Want
      BY <2>5, <1>2 DEF Want, Drop, LockInv, LockTypeOK
    <3> QED
      BY <3>1, <3>2 DEF Owner
  <2> QED
    BY <1>2, <2>1, <2>2, <2>3, <2>4, <2>5 DEF LockNext, Abstract!Next
<1> QED
  BY <1>1, <1>2, Inductive, PTL
  DEF LockSpec, IsKeyedMutex, Abstract!Spec, Owner, Want

=============================================================================
