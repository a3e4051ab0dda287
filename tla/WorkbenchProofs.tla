-------------------------- MODULE WorkbenchProofs --------------------------
(***************************************************************************)
(* What the six parts of the workbench promise.  The updater               *)
(* installs only what was asked for, and once, and what it shows as        *)
(* withdrawn is withdrawn.  The frame reminds once, keeps the address      *)
(* asked for, leads to the form without clusters and shows the menus as    *)
(* remembered.  Topics, the store and the address agree about filters.  A  *)
(* message is produced with the serdes its parameters were chosen for, and *)
(* a reproduced one as it was.  A statement runs at most once, in time,    *)
(* and the page shows its results and no others.  A topic becomes what its *)
(* form showed, one setting after the other.                               *)
(***************************************************************************)
EXTENDS Workbench, FiniteSetTheorems, SequenceTheorems, TLAPS

----------------------------------------------------------------------------
(* The updater: its inductive invariant *)

VersionOrNone == {NoVersion} \cup Versions
Lives == {"load", "ask", "install", "restore", "clear", "up", "stopping"}
Actions == {"check", "install", "schedule", "cancel"}
Doings == {"none"} \cup Actions
          \cup {"asking", "loading", "saving", "preparing", "verifying"}
Snapshots == [phase : Phases, version : VersionOrNone, scheduled : BOOLEAN]
Hosts ==
    [life : Lives, phase : Phases, version : VersionOrNone,
     scheduled : BOOLEAN, queue : {"none"} \cup Actions, doing : Doings,
     held : VersionOrNone, prepared : VersionOrNone]
Caches ==
    [installed : Versions, ready : {Broken} \cup VersionOrNone,
     schedule : VersionOrNone]
Consents ==
    [versions : SUBSET VersionOrNone, times : Nat, tried : Nat,
     blind : BOOLEAN]
UpdaterTypes ==
    /\ host \in Hosts /\ cache \in Caches
    /\ section \in [open : BOOLEAN, status : Seq(Snapshots),
                    confirming : VersionOrNone]
    /\ wire \in Seq(Snapshots) /\ offered \in Versions
    /\ consent \in Consents

\* How far an action has come goes with the phase it has published; outside a
\* session the worker has nothing in hand.
WorkerOK ==
    /\ host.doing = "asking" => host.phase = "checking"
    /\ host.doing \in {"loading", "saving"} =>
          /\ host.phase = "downloading" /\ host.held = host.version
          /\ host.held > cache.installed
    /\ host.doing \in {"preparing", "verifying"} => host.phase = "installing"
    /\ ~Running => /\ host.phase = "idle" /\ host.doing = "none"
                   /\ host.queue = "none" /\ host.prepared = NoVersion
                   /\ ~host.scheduled

\* The actions that may lead to an installation, and how far they come.
Asks == {"install", "schedule"}
Works == Asks \cup {"preparing", "verifying"}

\* An installation or an opt-in waits in the queue only for the release that
\* was ready when it was asked for.
QueueOK ==
    host.queue \in Asks =>
        /\ host.doing \notin {"asking", "loading", "saving"}
        /\ host.doing = "check" => host.phase = "ready"

\* The release shown as ready is the cached one, unless that is damaged, and
\* newer than the installed one.
ReadyOK ==
    /\ host.phase \in {"ready", "installing"} =>
          cache.ready \in {host.version, NoVersion, Broken}
    /\ host.phase = "ready" => host.version > cache.installed
    /\ host.doing = "verifying" => host.held = host.version

\* A schedule belongs to a package, and is shown.
ScheduleOK ==
    /\ cache.ready = NoVersion => cache.schedule = NoVersion
    /\ Running /\ ~host.scheduled => cache.schedule = NoVersion
    /\ host.doing = "saving" => cache.schedule = NoVersion
    /\ host.life = "ask" => cache.schedule # NoVersion

\* Whatever may lead to an installation was asked for.
WasAsked(v) == v \in consent.versions \/ consent.blind
AskedOK ==
    /\ host.queue \in Asks \/ host.doing \in Works => WasAsked(host.version)
    /\ host.prepared # NoVersion => WasAsked(host.prepared)
    /\ cache.schedule # NoVersion => WasAsked(cache.schedule)
    /\ host.life \in {"ask", "install"} =>
          host.held # NoVersion /\ WasAsked(host.held)
    /\ cache.installed # 1 => WasAsked(cache.installed)

\* Requests that have not led to an attempt yet.
One(condition) == IF condition THEN 1 ELSE 0
Pending(h, c) ==
    One(h.queue \in Asks) + One(h.doing \in Works) + One(h.prepared # NoVersion)
    + One(c.schedule # NoVersion) + One(h.life = "install")
CountOK == consent.tried + Pending(host, cache) <= consent.times

UpdaterInv ==
    /\ UpdaterTypes /\ WorkerOK /\ QueueOK /\ ReadyOK /\ ScheduleOK
    /\ AskedOK /\ CountOK

----------------------------------------------------------------------------
(* The updater: the cache and the snapshots *)

\* What the steps of the updater compare and count are numbers.
LEMMA UpdaterNumbers ==
    ASSUME UpdaterTypes
    PROVE  /\ host.version \in Int /\ host.held \in Int /\ host.prepared \in Int
           /\ host.scheduled \in BOOLEAN
           /\ cache.installed \in Int /\ cache.installed > 0
           /\ cache.ready \in Int /\ cache.schedule \in Int
           /\ consent.times \in Nat /\ consent.tried \in Nat
           /\ consent.blind \in BOOLEAN /\ offered \in Int
<1>1. Versions \subseteq Int /\ VersionOrNone \subseteq Int
      /\ \A v \in Versions : v > 0
  BY UpdaterBounds DEF Versions, VersionOrNone, NoVersion
<1>2. host \in Hosts /\ cache \in Caches /\ offered \in Versions
      /\ consent.times \in Nat /\ consent.tried \in Nat
      /\ consent.blind \in BOOLEAN
  BY DEF UpdaterTypes, Consents
<1>3. cache.installed \in Versions /\ cache.schedule \in VersionOrNone
      /\ cache.ready \in {Broken} \cup VersionOrNone
  BY <1>2 DEF Caches
<1>4. host.version \in VersionOrNone /\ host.held \in VersionOrNone
      /\ host.prepared \in VersionOrNone /\ host.scheduled \in BOOLEAN
  BY <1>2 DEF Hosts
<1>5. cache.ready \in Int
  <2>1. Broken \in Int
    BY DEF Broken
  <2> QED
    BY <1>1, <1>3, <2>1
<1> QED
  BY <1>1, <1>2, <1>3, <1>4, <1>5

\* Clearing and withdrawing.
LEMMA Cleared ==
    ASSUME NEW c \in Caches
    PROVE  /\ clear_files(c) \in Caches
           /\ clear_files(c).installed = c.installed
           /\ clear_files(c).ready = NoVersion
           /\ clear_files(c).schedule = NoVersion
           /\ unscheduled(c) \in Caches
           /\ unscheduled(c).installed = c.installed
           /\ unscheduled(c).ready = c.ready
           /\ unscheduled(c).schedule = NoVersion
BY DEF clear_files, unscheduled, Caches, VersionOrNone

\* What load leaves: nothing that is broken or outdated, and no schedule of
\* another package (cache.rs load).
LEMMA Loaded ==
    ASSUME NEW c \in Caches
    PROVE  /\ load(c) \in Caches /\ load(c).installed = c.installed
           /\ load(c).ready \in {c.ready, NoVersion} /\ load(c).ready # Broken
           /\ load(c).ready # NoVersion => load(c).ready > c.installed
           /\ load(c).schedule \in {c.schedule, NoVersion}
           /\ load(c).ready # NoVersion /\ load(c).schedule # NoVersion
                  => load(c).schedule = load(c).ready
           /\ c.ready = NoVersion => load(c) = c
           /\ load(c).ready = NoVersion /\ c.ready # NoVersion
                  => load(c).schedule = NoVersion
           /\ load(c).ready # NoVersion =>
                  load(c).ready = c.ready /\ c.ready # Broken
<1>1. /\ c.installed \in Versions /\ c.ready \in {Broken, NoVersion} \cup Versions
      /\ c.schedule \in {NoVersion} \cup Versions
  BY DEF Caches, VersionOrNone
<1>2. \A v \in Versions : v \in Int /\ v > 0
  BY UpdaterBounds DEF Versions
<1>3. CASE /\ c.ready = Broken \/ c.ready \in 1..c.installed
           /\ load(c) = clear_files(c)
  BY <1>3, Cleared DEF NoVersion, Broken
<1>4. CASE /\ ~(c.ready = Broken \/ c.ready \in 1..c.installed)
           /\ c.ready # NoVersion /\ c.schedule # c.ready
           /\ load(c) = [c EXCEPT !.schedule = NoVersion]
  BY <1>1, <1>2, <1>4, SMTT(20) DEF Caches, VersionOrNone, NoVersion, Broken
<1>5. CASE /\ ~(c.ready = Broken \/ c.ready \in 1..c.installed)
           /\ ~(c.ready # NoVersion /\ c.schedule # c.ready)
           /\ load(c) = c
  BY <1>1, <1>2, <1>5, SMTT(20) DEF NoVersion, Broken
<1> QED
  BY <1>3, <1>4, <1>5 DEF load

\* A step that shows the new state, or nothing, keeps the types.
LEMMA TypesKept ==
    ASSUME UpdaterTypes, host' \in Hosts, cache' \in Caches,
           wire' \in {wire, <<>>, Append(wire, Snapshot(host))}
           \/ wire' = Append(wire, Snapshot(host')),
           section' \in {section, NoSection}, offered' \in Versions,
           consent' \in Consents
    PROVE  UpdaterTypes'
<1>1. Snapshot(host) \in Snapshots /\ Snapshot(host') \in Snapshots
  BY DEF UpdaterTypes, Snapshot, Snapshots, Hosts
<1>2. wire' \in Seq(Snapshots)
  <2>1. wire \in Seq(Snapshots)
    BY DEF UpdaterTypes
  <2>2. /\ <<>> \in Seq(Snapshots)
        /\ \A s \in Snapshots : Append(wire, s) \in Seq(Snapshots)
    BY <2>1
  <2> QED
    BY <1>1, <2>1, <2>2
<1>3. section' \in [open : BOOLEAN, status : Seq(Snapshots),
                    confirming : VersionOrNone]
  <2>1. <<>> \in Seq(Snapshots) /\ NoVersion \in VersionOrNone
    BY DEF VersionOrNone
  <2>2. NoSection \in [open : BOOLEAN, status : Seq(Snapshots),
                       confirming : VersionOrNone]
    BY <2>1 DEF NoSection
  <2> QED
    BY <2>2 DEF UpdaterTypes
<1> QED
  BY <1>2, <1>3 DEF UpdaterTypes

\* A step of the page alone.
LEMMA PageStep ==
    ASSUME UpdaterInv, UNCHANGED <<host, cache, offered, consent>>,
           section' \in [open : BOOLEAN, status : Seq(Snapshots),
                         confirming : VersionOrNone],
           wire' \in Seq(Snapshots)
    PROVE  UpdaterInv'
<1>1. /\ host' = host /\ cache' = cache
      /\ offered' = offered /\ consent' = consent
  OBVIOUS
<1>2. UpdaterTypes'
  BY <1>1 DEF UpdaterInv, UpdaterTypes
<1>3. WorkerOK' /\ QueueOK' /\ ReadyOK' /\ ScheduleOK'
  BY <1>1 DEF UpdaterInv, WorkerOK, QueueOK, ReadyOK, ScheduleOK, Running
<1>4. AskedOK' /\ CountOK'
  BY <1>1 DEF UpdaterInv, AskedOK, WasAsked, CountOK
<1> QED
  BY <1>2, <1>3, <1>4 DEF UpdaterInv

\* The worker takes the action that waits.
LEMMA recvStep == ASSUME UpdaterInv, recv PROVE UpdaterInv'
<1> USE DEF UpdaterInv
<1>1. host \in Hosts /\ cache \in Caches
  BY DEF UpdaterTypes
<1>2. /\ host' \in Hosts
      /\ host'.life = host.life /\ host'.phase = host.phase
      /\ host'.version = host.version /\ host'.scheduled = host.scheduled
      /\ host'.held = host.held /\ host'.prepared = host.prepared
      /\ host.doing = "none" /\ host.queue \in Actions
      /\ host'.doing = host.queue /\ host'.queue = "none"
      /\ wire' = wire /\ cache' = cache /\ section' = section
      /\ offered' = offered /\ consent' = consent
  BY <1>1 DEF recv, Hosts, Doings
<1>3. UpdaterTypes'
  BY <1>1, <1>2, TypesKept DEF UpdaterTypes
<1>4. WorkerOK' /\ QueueOK'
  BY <1>2, UpdaterNumbers DEF WorkerOK, QueueOK, Running, Actions, Asks
<1>5. ReadyOK' /\ ScheduleOK'
  BY <1>2, UpdaterNumbers
     DEF WorkerOK, ReadyOK, ScheduleOK, Running, Actions, Broken, NoVersion
<1>6. AskedOK'
  BY <1>2, UpdaterNumbers
     DEF AskedOK, Actions, Asks, Works, WasAsked, WorkerOK, QueueOK,
         ReadyOK, Running
<1>7. CountOK'
  BY <1>2, UpdaterNumbers
     DEF CountOK, Pending, One, Actions, Asks, Works, WorkerOK,
         ScheduleOK, Running
<1> QED
  BY <1>3, <1>4, <1>5, <1>6, <1>7

\* The periodic check starts with an empty queue.
LEMMA TimeoutStep == ASSUME UpdaterInv, Timeout PROVE UpdaterInv'
<1> USE DEF UpdaterInv
<1>1. host \in Hosts /\ cache \in Caches
  BY DEF UpdaterTypes
<1>2. /\ host' \in Hosts
      /\ host'.life = host.life /\ host'.phase = host.phase
      /\ host'.version = host.version /\ host'.scheduled = host.scheduled
      /\ host'.held = host.held /\ host'.prepared = host.prepared
      /\ Running /\ host.doing = "none" /\ host'.doing = "check"
      /\ host.queue = "none" /\ host'.queue = "none"
      /\ wire' = wire /\ cache' = cache /\ section' = section
      /\ offered' = offered /\ consent' = consent
  BY <1>1 DEF Timeout, Hosts, Doings, Actions
<1>3. UpdaterTypes'
  BY <1>1, <1>2, TypesKept DEF UpdaterTypes
<1>4. WorkerOK' /\ QueueOK'
  BY <1>2, UpdaterNumbers DEF WorkerOK, QueueOK, Running, Actions, Asks
<1>5. ReadyOK' /\ ScheduleOK'
  BY <1>2, UpdaterNumbers
     DEF WorkerOK, ReadyOK, ScheduleOK, Running, Actions, Broken, NoVersion
<1>6. AskedOK'
  BY <1>2, UpdaterNumbers
     DEF AskedOK, Actions, Asks, Works, WasAsked, WorkerOK, QueueOK,
         ReadyOK, Running
<1>7. CountOK'
  BY <1>2, UpdaterNumbers
     DEF CountOK, Pending, One, Actions, Asks, Works, WorkerOK,
         ScheduleOK, Running
<1> QED
  BY <1>3, <1>4, <1>5, <1>6, <1>7

\* A check begins only when nothing is ready or under way.
LEMMA begin_checkStep == ASSUME UpdaterInv, begin_check PROVE UpdaterInv'
<1> USE DEF UpdaterInv
<1>1. host \in Hosts /\ cache \in Caches
  BY DEF UpdaterTypes
<1>2. /\ host' \in Hosts
      /\ host'.life = host.life /\ host'.queue = host.queue
      /\ host'.version = host.version /\ host'.scheduled = host.scheduled
      /\ host'.prepared = host.prepared /\ Running /\ host.doing = "check"
      /\ \/ host.phase # "ready" /\ host'.phase = "checking" /\ host'.doing = "asking"
         \/ host'.phase = host.phase /\ host'.doing = "none"
      /\ wire' \in {wire, Append(wire, Snapshot(host'))}
      /\ cache' = cache /\ section' = section
      /\ offered' = offered /\ consent' = consent
  BY <1>1 DEF begin_check, change, Rest, Hosts, Doings, Phases, VersionOrNone, CanCheck
<1>3. UpdaterTypes'
  BY <1>1, <1>2, TypesKept DEF UpdaterTypes
<1>4. WorkerOK' /\ QueueOK'
  BY <1>2, UpdaterNumbers DEF WorkerOK, QueueOK, Running, Actions, Asks
<1>5. ReadyOK' /\ ScheduleOK'
  BY <1>2, UpdaterNumbers
     DEF WorkerOK, ReadyOK, ScheduleOK, Running, Actions, Broken, NoVersion
<1>6. AskedOK'
  BY <1>2, UpdaterNumbers
     DEF AskedOK, Actions, Asks, Works, WasAsked, WorkerOK, QueueOK,
         ReadyOK, Running
<1>7. CountOK'
  BY <1>2, UpdaterNumbers
     DEF CountOK, Pending, One, Actions, Asks, Works, WorkerOK,
         ScheduleOK, Running
<1> QED
  BY <1>3, <1>4, <1>5, <1>6, <1>7

\* The release server's answer: a newer release, none, or a failure.
LEMMA checkStep == ASSUME UpdaterInv, check PROVE UpdaterInv'
<1> USE DEF UpdaterInv
<1>1. host \in Hosts /\ cache \in Caches
  BY DEF UpdaterTypes
<1>2. /\ host' \in Hosts
      /\ host'.life = host.life /\ host'.queue = host.queue
      /\ host'.scheduled = host.scheduled
      /\ host'.prepared = host.prepared /\ Running /\ host.doing = "asking"
      /\ \/ host'.phase \in {"error", "up_to_date"} /\ host'.doing = "none"
         \/ /\ host'.phase = "downloading" /\ host'.doing = "loading"
            /\ host'.held = host'.version /\ host'.version = offered
            /\ offered > cache.installed
      /\ wire' \in {wire, Append(wire, Snapshot(host'))}
      /\ cache' = cache /\ section' = section
      /\ offered' = offered /\ consent' = consent
  <2>1. \A v \in VersionOrNone :
           /\ error(host) \in Hosts
           /\ [Rest EXCEPT !.phase = "up_to_date", !.version = v] \in Hosts
           /\ [host EXCEPT !.phase = "downloading", !.version = v,
                           !.doing = "loading", !.held = v] \in Hosts
    BY <1>1 DEF error, Rest, Hosts, Doings, Phases, VersionOrNone
  <2>2. offered \in VersionOrNone /\ NoVersion \in VersionOrNone
    BY DEF UpdaterTypes, VersionOrNone
  <2>3. CASE change(error(host))
    BY <1>1, <2>1, <2>3 DEF check, change, error, Hosts
  <2>4. CASE change([Rest EXCEPT !.phase = "up_to_date", !.version = NoVersion])
    BY <1>1, <2>1, <2>2, <2>4 DEF check, change, Rest, Hosts
  <2>5. CASE /\ offered > cache.installed
             /\ change([host EXCEPT !.phase = "downloading", !.version = offered,
                                    !.doing = "loading", !.held = offered])
    BY <1>1, <2>1, <2>2, <2>5 DEF check, change, Hosts
  <2> QED
    BY <2>3, <2>4, <2>5 DEF check
<1>3. UpdaterTypes'
  BY <1>1, <1>2, TypesKept DEF UpdaterTypes
<1>4. WorkerOK' /\ QueueOK'
  BY <1>2, UpdaterNumbers DEF WorkerOK, QueueOK, Running, Actions, Asks
<1>5. ReadyOK' /\ ScheduleOK'
  BY <1>2, UpdaterNumbers
     DEF WorkerOK, ReadyOK, ScheduleOK, Running, Actions, Broken, NoVersion
<1>6. AskedOK'
  BY <1>2, UpdaterNumbers
     DEF AskedOK, Actions, Asks, Works, WasAsked, WorkerOK, QueueOK,
         ReadyOK, Running
<1>7. CountOK'
  BY <1>2, UpdaterNumbers
     DEF CountOK, Pending, One, Actions, Asks, Works, WorkerOK,
         ScheduleOK, Running
<1> QED
  BY <1>3, <1>4, <1>5, <1>6, <1>7

\* A package that is cached already is shown as ready; otherwise the schedule
\* is removed before the new package is saved.
LEMMA downloadStep == ASSUME UpdaterInv, download PROVE UpdaterInv'
<1> USE DEF UpdaterInv
<1>1. host \in Hosts /\ cache \in Caches
  BY DEF UpdaterTypes
<1>2. /\ host' \in Hosts /\ cache' \in Caches
      /\ host'.life = host.life /\ host'.queue = host.queue
      /\ host'.scheduled = host.scheduled /\ host'.version = host.version
      /\ host'.prepared = host.prepared /\ Running /\ host.doing = "loading"
      /\ cache'.installed = cache.installed
      /\ cache'.schedule \in {cache.schedule, NoVersion}
      /\ cache'.ready = NoVersion => cache'.schedule = NoVersion
      /\ \/ host'.phase = "error" /\ host'.doing = "none"
         \/ /\ host'.phase = "ready" /\ host'.doing = "none"
            /\ cache'.ready = host.held
         \/ /\ host'.phase = host.phase /\ host'.doing = "saving"
            /\ host'.held = host.held /\ cache'.schedule = NoVersion
      /\ wire' \in {wire, Append(wire, Snapshot(host'))}
      /\ section' = section /\ offered' = offered /\ consent' = consent
  <2>1. /\ error(host) \in Hosts /\ [Rest EXCEPT !.phase = "ready"] \in Hosts
        /\ [host EXCEPT !.doing = "saving"] \in Hosts
    BY <1>1 DEF error, Rest, Hosts, Doings, Phases, VersionOrNone
  <2>2. load(cache).ready = NoVersion => load(cache).schedule = NoVersion
    BY <1>1, Loaded DEF ScheduleOK
  <2>3. CASE change([Rest EXCEPT !.phase = "ready"])
             /\ load(cache).ready = host.held /\ cache' = load(cache)
    BY <1>1, <2>1, <2>2, <2>3, Loaded DEF download, change, Rest, Hosts
  <2>4. CASE change(error(host)) /\ cache' = load(cache)
    BY <1>1, <2>1, <2>2, <2>4, Loaded DEF download, change, error, Hosts
  <2>5. CASE /\ host' = [host EXCEPT !.doing = "saving"] /\ wire' = wire
             /\ cache' = unscheduled(load(cache))
    BY <1>1, <2>1, <2>2, <2>5, Loaded, Cleared DEF download, Hosts
  <2> QED
    BY <2>3, <2>4, <2>5 DEF download
<1>3. UpdaterTypes'
  BY <1>1, <1>2, TypesKept DEF UpdaterTypes
<1>4. WorkerOK' /\ QueueOK'
  BY <1>2, UpdaterNumbers DEF WorkerOK, QueueOK, Running, Actions, Asks
<1>5. ReadyOK' /\ ScheduleOK'
  BY <1>2, UpdaterNumbers
     DEF WorkerOK, ReadyOK, ScheduleOK, Running, Actions, Broken, NoVersion
<1>6. AskedOK'
  BY <1>2, UpdaterNumbers
     DEF AskedOK, Actions, Asks, Works, WasAsked, WorkerOK, QueueOK,
         ReadyOK, Running
<1>7. CountOK'
  BY <1>2, UpdaterNumbers
     DEF CountOK, Pending, One, Actions, Asks, Works, WorkerOK,
         ScheduleOK, Running
<1> QED
  BY <1>3, <1>4, <1>5, <1>6, <1>7

\* The new package is in the cache, or the download failed.
LEMMA atomic_writeStep == ASSUME UpdaterInv, atomic_write PROVE UpdaterInv'
<1> USE DEF UpdaterInv
<1>1. host \in Hosts /\ cache \in Caches
  BY DEF UpdaterTypes
<1>2. /\ host' \in Hosts /\ cache' \in Caches
      /\ host'.life = host.life /\ host'.queue = host.queue
      /\ host'.scheduled = host.scheduled /\ host'.version = host.version
      /\ host'.prepared = host.prepared /\ Running /\ host.doing = "saving"
      /\ host'.doing = "none" /\ cache'.installed = cache.installed
      /\ cache'.schedule = cache.schedule
      /\ \/ host'.phase = "error" /\ cache' = cache
         \/ host'.phase = "ready" /\ cache'.ready = host.held
      /\ wire' \in {wire, Append(wire, Snapshot(host'))}
      /\ section' = section /\ offered' = offered /\ consent' = consent
  <2>1. /\ error(host) \in Hosts /\ [Rest EXCEPT !.phase = "ready"] \in Hosts
    BY <1>1 DEF error, Rest, Hosts, Doings, Phases, VersionOrNone
  <2>2. [cache EXCEPT !.ready = host.held] \in Caches
    BY <1>1 DEF Hosts, Caches
  <2>3. CASE change([Rest EXCEPT !.phase = "ready"])
             /\ cache' = [cache EXCEPT !.ready = host.held]
    BY <1>1, <2>1, <2>2, <2>3 DEF atomic_write, change, Rest, Hosts, Caches
  <2>4. CASE change(error(host)) /\ cache' = cache
    BY <1>1, <2>1, <2>4 DEF atomic_write, change, error, Hosts
  <2> QED
    BY <2>3, <2>4 DEF atomic_write
<1>3. UpdaterTypes'
  BY <1>1, <1>2, TypesKept DEF UpdaterTypes
<1>4. WorkerOK' /\ QueueOK'
  BY <1>2, UpdaterNumbers DEF WorkerOK, QueueOK, Running, Actions, Asks
<1>5. ReadyOK' /\ ScheduleOK'
  BY <1>2, UpdaterNumbers
     DEF WorkerOK, ReadyOK, ScheduleOK, Running, Actions, Broken, NoVersion
<1>6. AskedOK'
  BY <1>2, UpdaterNumbers
     DEF AskedOK, Actions, Asks, Works, WasAsked, WorkerOK, QueueOK,
         ReadyOK, Running
<1>7. CountOK'
  BY <1>2, UpdaterNumbers
     DEF CountOK, Pending, One, Actions, Asks, Works, WorkerOK,
         ScheduleOK, Running
<1> QED
  BY <1>3, <1>4, <1>5, <1>6, <1>7

\* The opt-in for the release that is shown as ready, or a failure.
LEMMA OptInStep == ASSUME UpdaterInv, schedule(TRUE) PROVE UpdaterInv'
<1> USE DEF UpdaterInv
<1>1. host \in Hosts /\ cache \in Caches
  BY DEF UpdaterTypes
<1>2. /\ host' \in Hosts /\ cache' \in Caches
      /\ host'.life = host.life /\ host'.queue = host.queue
      /\ host'.phase = host.phase /\ host'.version = host.version
      /\ host'.prepared = host.prepared /\ Running /\ host.doing = "schedule"
      /\ host'.doing = "none" /\ cache'.installed = cache.installed
      /\ \/ host'.scheduled = host.scheduled /\ cache' = cache
         \/ /\ host'.scheduled = host.scheduled
            /\ cache'.ready = NoVersion /\ cache'.schedule = NoVersion
         \/ /\ host'.scheduled /\ host.phase = "ready"
            /\ cache.ready \notin {NoVersion, Broken}
            /\ cache'.ready = cache.ready /\ cache'.schedule = cache.ready
      /\ wire' \in {wire, Append(wire, Snapshot(host'))}
      /\ section' = section /\ offered' = offered /\ consent' = consent
  <2>1. Rest \in Hosts /\ \A b \in BOOLEAN : [Rest EXCEPT !.scheduled = b] \in Hosts
    BY <1>1 DEF Rest, Hosts, Doings, VersionOrNone
  <2>2. cache.ready \notin {NoVersion, Broken}
        => [cache EXCEPT !.schedule = cache.ready] \in Caches
    BY <1>1 DEF Caches, VersionOrNone
  <2>3. CASE host.phase = "installing" \/ host.phase # "ready"
    BY <1>1, <2>1, <2>3 DEF schedule, Rest, Hosts
  <2>4. CASE host.phase = "ready"
    <3>1. PICK broken \in BOOLEAN :
            LET failed == broken \/ (TRUE /\ cache.ready \in {NoVersion, Broken})
            IN  /\ change([Rest EXCEPT !.scheduled = ScheduledAfter(TRUE, failed)])
                /\ cache' = IF failed
                            THEN IF TRUE /\ cache.ready = Broken
                                 THEN clear_files(cache) ELSE cache
                            ELSE IF TRUE
                                 THEN [cache EXCEPT !.schedule = cache.ready]
                                 ELSE unscheduled(cache)
      BY <2>4, Zenon DEF schedule
    <3>2. CASE broken \/ cache.ready \in {NoVersion, Broken}
      <4>1. /\ change([Rest EXCEPT !.scheduled = host.scheduled])
            /\ cache' \in {clear_files(cache), cache}
        <5>1. ScheduledAfter(TRUE, broken \/ (TRUE /\ cache.ready \in {NoVersion, Broken}))
              = host.scheduled
          BY <3>2 DEF ScheduledAfter
        <5>2. change([Rest EXCEPT !.scheduled = host.scheduled])
          BY <3>1, <5>1
        <5>3. cache' \in {clear_files(cache), cache}
          BY <3>1, <3>2
        <5> QED
          BY <5>2, <5>3
      <4>2. /\ host' = [Rest EXCEPT !.scheduled = host.scheduled]
            /\ wire' \in {wire, Append(wire, Snapshot(host'))}
        BY <4>1 DEF change
      <4>3. host.scheduled \in BOOLEAN
        BY <1>1 DEF Hosts
      <4>4. host' \in Hosts
        BY <2>1, <4>2, <4>3
      <4>5. Running /\ host.doing = "schedule" /\ section' = section
            /\ offered' = offered /\ consent' = consent
        BY DEF schedule
      <4>6. /\ host'.life = host.life /\ host'.queue = host.queue
            /\ host'.phase = host.phase /\ host'.version = host.version
            /\ host'.prepared = host.prepared /\ host'.doing = "none"
            /\ host'.scheduled = host.scheduled
        BY <1>1, <4>2 DEF Rest, Hosts
      <4> QED
        BY <1>1, <4>1, <4>2, <4>4, <4>5, <4>6, Cleared
    <3>3. CASE ~(broken \/ cache.ready \in {NoVersion, Broken})
      <4>1. /\ host' = [Rest EXCEPT !.scheduled = TRUE]
            /\ cache' = [cache EXCEPT !.schedule = cache.ready]
            /\ wire' \in {wire, Append(wire, Snapshot(host'))}
        BY <3>1, <3>3 DEF change, ScheduledAfter
      <4> QED
        BY <1>1, <2>1, <2>2, <2>4, <3>3, <4>1
           DEF schedule, Rest, Hosts, Caches
    <3> QED
      BY <3>2, <3>3
  <2> QED
    BY <2>3, <2>4
<1>3. UpdaterTypes'
  BY <1>1, <1>2, TypesKept DEF UpdaterTypes
<1>4. WorkerOK' /\ QueueOK'
  BY <1>2, UpdaterNumbers DEF WorkerOK, QueueOK, Running, Actions, Asks
<1>5. ReadyOK' /\ ScheduleOK'
  BY <1>2, UpdaterNumbers
     DEF WorkerOK, ReadyOK, ScheduleOK, Running, Actions, Broken, NoVersion
<1>6. AskedOK'
  BY <1>2, UpdaterNumbers
     DEF AskedOK, Actions, Asks, Works, WasAsked, WorkerOK, QueueOK,
         ReadyOK, Running
<1>7. CountOK'
  BY <1>2, UpdaterNumbers
     DEF CountOK, Pending, One, Actions, Asks, Works, WorkerOK,
         ScheduleOK, Running
<1> QED
  BY <1>3, <1>4, <1>5, <1>6, <1>7

\* The opt-in is withdrawn, or stays and is still shown.
LEMMA WithdrawStep == ASSUME UpdaterInv, schedule(FALSE) PROVE UpdaterInv'
<1> USE DEF UpdaterInv
<1>1. host \in Hosts /\ cache \in Caches
  BY DEF UpdaterTypes
<1>2. /\ host' \in Hosts /\ cache' \in Caches
      /\ host'.life = host.life /\ host'.queue = host.queue
      /\ host'.phase = host.phase /\ host'.version = host.version
      /\ host'.prepared = host.prepared /\ Running /\ host.doing = "cancel"
      /\ host'.doing = "none" /\ cache'.installed = cache.installed
      /\ \/ host'.scheduled = host.scheduled /\ cache' = cache
         \/ cache'.ready = cache.ready /\ cache'.schedule = NoVersion
      /\ wire' \in {wire, Append(wire, Snapshot(host'))}
      /\ section' = section /\ offered' = offered /\ consent' = consent
  <2>1. Rest \in Hosts /\ \A b \in BOOLEAN : [Rest EXCEPT !.scheduled = b] \in Hosts
    BY <1>1 DEF Rest, Hosts, Doings, VersionOrNone
  <2>2. CASE host' = Rest /\ wire' = wire /\ cache' = cache
    BY <1>1, <2>1, <2>2 DEF schedule, Rest, Hosts
  <2>3. CASE change([Rest EXCEPT !.scheduled = host.scheduled]) /\ cache' = cache
    BY <1>1, <2>1, <2>3 DEF schedule, change, Rest, Hosts
  <2>4. CASE change([Rest EXCEPT !.scheduled = FALSE])
             /\ cache' = unscheduled(cache)
    BY <1>1, <2>1, <2>4, Cleared DEF schedule, change, Rest, Hosts
  <2> QED
    BY <2>2, <2>3, <2>4 DEF schedule, ScheduledAfter
<1>3. UpdaterTypes'
  BY <1>1, <1>2, TypesKept DEF UpdaterTypes
<1>4. WorkerOK' /\ QueueOK'
  BY <1>2, UpdaterNumbers DEF WorkerOK, QueueOK, Running, Actions, Asks
<1>5. ReadyOK' /\ ScheduleOK'
  BY <1>2, UpdaterNumbers
     DEF WorkerOK, ReadyOK, ScheduleOK, Running, Actions, Broken, NoVersion
<1>6. AskedOK'
  BY <1>2, UpdaterNumbers
     DEF AskedOK, Actions, Asks, Works, WasAsked, WorkerOK, QueueOK,
         ReadyOK, Running
<1>7. CountOK'
  BY <1>2, UpdaterNumbers
     DEF CountOK, Pending, One, Actions, Asks, Works, WorkerOK,
         ScheduleOK, Running
<1> QED
  BY <1>3, <1>4, <1>5, <1>6, <1>7

\* An installation begins only when a release is ready.
LEMMA installStep == ASSUME UpdaterInv, install PROVE UpdaterInv'
<1> USE DEF UpdaterInv
<1>1. host \in Hosts /\ cache \in Caches
  BY DEF UpdaterTypes
<1>2. /\ host' \in Hosts
      /\ host'.life = host.life /\ host'.queue = host.queue
      /\ host'.version = host.version /\ host'.scheduled = host.scheduled
      /\ host'.prepared = host.prepared /\ Running /\ host.doing = "install"
      /\ \/ /\ host.phase = "ready" /\ host'.phase = "installing"
            /\ host'.doing = "preparing"
         \/ host'.phase = host.phase /\ host'.doing = "none"
      /\ wire' \in {wire, Append(wire, Snapshot(host'))}
      /\ cache' = cache /\ section' = section
      /\ offered' = offered /\ consent' = consent
  BY <1>1 DEF install, change, Rest, Hosts, Doings, Phases, VersionOrNone
<1>3. UpdaterTypes'
  BY <1>1, <1>2, TypesKept DEF UpdaterTypes
<1>4. WorkerOK' /\ QueueOK'
  BY <1>2, UpdaterNumbers DEF WorkerOK, QueueOK, Running, Actions, Asks
<1>5. ReadyOK' /\ ScheduleOK'
  BY <1>2, UpdaterNumbers
     DEF WorkerOK, ReadyOK, ScheduleOK, Running, Actions, Broken, NoVersion
<1>6. AskedOK'
  BY <1>2, UpdaterNumbers
     DEF AskedOK, Actions, Asks, Works, WasAsked, WorkerOK, QueueOK,
         ReadyOK, Running
<1>7. CountOK'
  BY <1>2, UpdaterNumbers
     DEF CountOK, Pending, One, Actions, Asks, Works, WorkerOK,
         ScheduleOK, Running
<1> QED
  BY <1>3, <1>4, <1>5, <1>6, <1>7

\* What is prepared is the package load finds.
LEMMA prepare_installStep == ASSUME UpdaterInv, prepare_install PROVE UpdaterInv'
<1> USE DEF UpdaterInv
<1>1. host \in Hosts /\ cache \in Caches
  BY DEF UpdaterTypes
<1>2. /\ host' \in Hosts /\ cache' \in Caches
      /\ host'.life = host.life /\ host'.queue = host.queue
      /\ host'.scheduled = host.scheduled /\ host'.version = host.version
      /\ host'.prepared = host.prepared /\ Running /\ host.doing = "preparing"
      /\ cache'.installed = cache.installed
      /\ cache'.schedule \in {cache.schedule, NoVersion}
      /\ cache'.ready = NoVersion => cache'.schedule = NoVersion
      /\ cache'.ready \in {cache.ready, NoVersion}
      /\ \/ host'.phase = "error" /\ host'.doing = "none"
         \/ /\ host'.phase = host.phase /\ host'.doing = "verifying"
            /\ host'.held = cache'.ready
            /\ cache'.ready # NoVersion /\ cache'.ready # Broken
      /\ wire' \in {wire, Append(wire, Snapshot(host'))}
      /\ section' = section /\ offered' = offered /\ consent' = consent
  <2>1. load(cache).ready # NoVersion => load(cache).ready \in VersionOrNone
    BY <1>1, Loaded DEF Caches, VersionOrNone
  <2>2. /\ error(host) \in Hosts
        /\ \A v \in VersionOrNone :
              [host EXCEPT !.doing = "verifying", !.held = v] \in Hosts
    BY <1>1 DEF error, Hosts, Doings, Phases, VersionOrNone
  <2>3. load(cache).ready = NoVersion => load(cache).schedule = NoVersion
    BY <1>1, Loaded DEF ScheduleOK
  <2>4. CASE change(error(host)) /\ cache' = cache
    BY <1>1, <2>2, <2>4 DEF prepare_install, change, error, Hosts, ScheduleOK
  <2>5. CASE change(error(host)) /\ cache' = load(cache)
    BY <1>1, <2>2, <2>3, <2>5, Loaded DEF prepare_install, change, error, Hosts
  <2>6. CASE /\ host' = [host EXCEPT !.doing = "verifying",
                                    !.held = load(cache).ready]
             /\ load(cache).ready # NoVersion /\ cache' = load(cache)
             /\ wire' = wire
    BY <1>1, <2>1, <2>2, <2>3, <2>6, Loaded DEF prepare_install, Hosts
  <2> QED
    BY <2>4, <2>5, <2>6 DEF prepare_install
<1>3. UpdaterTypes'
  BY <1>1, <1>2, TypesKept DEF UpdaterTypes
<1>4. WorkerOK' /\ QueueOK'
  BY <1>2, UpdaterNumbers DEF WorkerOK, QueueOK, Running, Actions, Asks
<1>5. ReadyOK' /\ ScheduleOK'
  BY <1>2, UpdaterNumbers
     DEF WorkerOK, ReadyOK, ScheduleOK, Running, Actions, Broken, NoVersion
<1>6. AskedOK'
  BY <1>2, UpdaterNumbers
     DEF AskedOK, Actions, Asks, Works, WasAsked, WorkerOK, QueueOK,
         ReadyOK, Running
<1>7. CountOK'
  BY <1>2, UpdaterNumbers
     DEF CountOK, Pending, One, Actions, Asks, Works, WorkerOK,
         ScheduleOK, Running
<1> QED
  BY <1>3, <1>4, <1>5, <1>6, <1>7

\* The release server confirms the release and it is handed over, or the
\* installation is given up.
LEMMA VerifiedStep == ASSUME UpdaterInv, Verified PROVE UpdaterInv'
<1> USE DEF UpdaterInv
<1>1. host \in Hosts /\ cache \in Caches
  BY DEF UpdaterTypes
<1>2. /\ host' \in Hosts /\ cache' \in Caches
      /\ host'.queue = host.queue
      /\ host'.scheduled = host.scheduled /\ host'.version = host.version
      /\ Running /\ host.doing = "verifying" /\ host'.doing = "none"
      /\ cache'.installed = cache.installed /\ cache'.ready = cache.ready
      /\ \/ /\ host'.phase = "error" /\ host'.life = host.life
            /\ host'.prepared = host.prepared
            /\ cache'.schedule \in {cache.schedule, NoVersion}
         \/ /\ host'.phase = host.phase /\ host'.life = "stopping"
            /\ host'.prepared = host.held /\ cache'.schedule = NoVersion
      /\ wire' \in {wire, Append(wire, Snapshot(host'))}
      /\ section' = section /\ offered' = offered /\ consent' = consent
  <2>1. /\ error(host) \in Hosts
        /\ [Rest EXCEPT !.prepared = host.held, !.life = "stopping"] \in Hosts
    BY <1>1 DEF error, Rest, Hosts, Lives, Doings, Phases, VersionOrNone
  <2>2. CASE change(error(host)) /\ cache' \in {cache, unscheduled(cache)}
    BY <1>1, <2>1, <2>2, Cleared DEF Verified, change, error, Hosts
  <2>3. CASE /\ host' = [Rest EXCEPT !.prepared = host.held, !.life = "stopping"]
             /\ cache' = unscheduled(cache) /\ wire' = wire
    BY <1>1, <2>1, <2>3, Cleared DEF Verified, Rest, Hosts
  <2> QED
    BY <2>2, <2>3 DEF Verified
<1>3. UpdaterTypes'
  BY <1>1, <1>2, TypesKept DEF UpdaterTypes
<1>4. WorkerOK' /\ QueueOK'
  BY <1>2, UpdaterNumbers DEF WorkerOK, QueueOK, Running, Actions, Asks
<1>5. ReadyOK' /\ ScheduleOK'
  BY <1>2, UpdaterNumbers
     DEF WorkerOK, ReadyOK, ScheduleOK, Running, Actions, Broken, NoVersion
<1>6. AskedOK'
  BY <1>2, UpdaterNumbers
     DEF AskedOK, Actions, Asks, Works, WasAsked, WorkerOK, QueueOK,
         ReadyOK, Running
<1>7. CountOK'
  BY <1>2, UpdaterNumbers
     DEF CountOK, Pending, One, Actions, Asks, Works, WorkerOK,
         ScheduleOK, Running
<1> QED
  BY <1>3, <1>4, <1>5, <1>6, <1>7

\* The supervisor installs what was prepared, or launches again without.
LEMMA finish_explicit_installStep == ASSUME UpdaterInv, finish_explicit_install PROVE UpdaterInv'
<1> USE DEF UpdaterInv
<1>1. host \in Hosts /\ cache \in Caches
  BY DEF UpdaterTypes
<1>2. /\ host' \in Hosts /\ cache' \in Caches /\ consent' \in Consents
      /\ host.life = "stopping" /\ host'.life \in {"load", "clear"}
      /\ host'.phase = "idle" /\ host'.queue = "none" /\ host'.doing = "none"
      /\ host'.prepared = NoVersion /\ ~host'.scheduled
      /\ cache'.ready = cache.ready /\ cache'.schedule = cache.schedule
      /\ consent'.versions = consent.versions /\ consent'.blind = consent.blind
      /\ consent'.times = consent.times
      /\ \/ cache'.installed = cache.installed /\ consent'.tried = consent.tried
         \/ /\ host.prepared # NoVersion /\ consent'.tried = consent.tried + 1
            /\ cache'.installed \in {cache.installed, host.prepared}
      /\ wire' = <<>> /\ section' = NoSection /\ offered' = offered
  <2>1. NewHost("load") \in Hosts /\ NewHost("clear") \in Hosts
    BY DEF NewHost, Hosts, Lives, Phases, Doings, VersionOrNone
  <2>2. /\ host' \in {NewHost("load"), NewHost("clear")} /\ host.life = "stopping"
        /\ wire' = <<>> /\ section' = NoSection /\ offered' = offered
    BY DEF finish_explicit_install, Restart
  <2>3. /\ host' \in Hosts /\ host'.life \in {"load", "clear"}
        /\ host'.phase = "idle" /\ host'.queue = "none" /\ host'.doing = "none"
        /\ host'.prepared = NoVersion /\ ~host'.scheduled
    <3>1. CASE host' = NewHost("load")
      BY <2>1, <3>1 DEF NewHost
    <3>2. CASE host' = NewHost("clear")
      BY <2>1, <3>2 DEF NewHost
    <3> QED
      BY <2>2, <3>1, <3>2
  <2>4. consent \in Consents
    BY DEF UpdaterTypes
  <2>5. CASE cache' = cache /\ consent' = consent
    BY <1>1, <2>2, <2>3, <2>4, <2>5
  <2>6. CASE /\ host.prepared # NoVersion
             /\ consent' = [consent EXCEPT !.tried = @ + 1]
             /\ cache' \in {cache, [cache EXCEPT !.installed = host.prepared]}
    <3>1. host.prepared \in Versions
      BY <1>1, <2>6 DEF Hosts, VersionOrNone
    <3>2. /\ cache' \in Caches /\ cache'.ready = cache.ready
          /\ cache'.schedule = cache.schedule
          /\ cache'.installed \in {cache.installed, host.prepared}
      BY <1>1, <2>6, <3>1 DEF Caches
    <3>3. /\ consent' \in Consents /\ consent'.tried = consent.tried + 1
          /\ consent'.versions = consent.versions
          /\ consent'.blind = consent.blind /\ consent'.times = consent.times
      BY <2>4, <2>6 DEF Consents
    <3> QED
      BY <2>2, <2>3, <2>6, <3>2, <3>3
  <2> QED
    BY <2>5, <2>6 DEF finish_explicit_install, Try
<1>3. UpdaterTypes'
  BY <1>1, <1>2, TypesKept DEF UpdaterTypes
<1>4. WorkerOK' /\ QueueOK'
  BY <1>2, UpdaterNumbers DEF WorkerOK, QueueOK, Running, Actions, Asks
<1>5. ReadyOK' /\ ScheduleOK'
  BY <1>2, UpdaterNumbers
     DEF WorkerOK, ReadyOK, ScheduleOK, Running, Actions, Broken, NoVersion
<1>6. AskedOK'
  BY <1>2, UpdaterNumbers
     DEF AskedOK, Actions, Asks, Works, WasAsked, WorkerOK, QueueOK,
         ReadyOK, Running
<1>7. CountOK'
  BY <1>2, UpdaterNumbers
     DEF CountOK, Pending, One, Actions, Asks, Works, WorkerOK,
         ScheduleOK, Running
<1> QED
  BY <1>3, <1>4, <1>5, <1>6, <1>7

\* After an installation the cache is cleared, unless that fails.
LEMMA clearStep == ASSUME UpdaterInv, clear PROVE UpdaterInv'
<1> USE DEF UpdaterInv
<1>1. host \in Hosts /\ cache \in Caches
  BY DEF UpdaterTypes
<1>2. /\ host' \in Hosts /\ cache' \in Caches
      /\ host.life = "clear" /\ host'.life = "load"
      /\ host'.phase = "idle" /\ host'.queue = "none" /\ host'.doing = "none"
      /\ host'.prepared = NoVersion /\ ~host'.scheduled
      /\ cache'.installed = cache.installed
      /\ cache' = cache \/ cache'.schedule = NoVersion
      /\ wire' = <<>> /\ section' = NoSection
      /\ offered' = offered /\ consent' = consent
  <2>1. NewHost("load") \in Hosts
    BY DEF NewHost, Hosts, Lives, Phases, Doings, VersionOrNone
  <2>2. /\ host' = NewHost("load") /\ cache' \in {cache, clear_files(cache)}
        /\ host.life = "clear" /\ wire' = <<>> /\ section' = NoSection
        /\ offered' = offered /\ consent' = consent
    BY DEF clear, Restart
  <2> QED
    BY <1>1, <2>1, <2>2, Cleared DEF NewHost
<1>3. UpdaterTypes'
  BY <1>1, <1>2, TypesKept DEF UpdaterTypes
<1>4. WorkerOK' /\ QueueOK'
  BY <1>2, UpdaterNumbers DEF WorkerOK, QueueOK, Running, Actions, Asks
<1>5. ReadyOK' /\ ScheduleOK'
  BY <1>2, UpdaterNumbers
     DEF WorkerOK, ReadyOK, ScheduleOK, Running, Actions, Broken, NoVersion
<1>6. AskedOK'
  BY <1>2, UpdaterNumbers
     DEF AskedOK, Actions, Asks, Works, WasAsked, WorkerOK, QueueOK,
         ReadyOK, Running
<1>7. CountOK'
  BY <1>2, UpdaterNumbers
     DEF CountOK, Pending, One, Actions, Asks, Works, WorkerOK,
         ScheduleOK, Running
<1> QED
  BY <1>3, <1>4, <1>5, <1>6, <1>7

\* A launch: a scheduled package is looked at first.
LEMMA begin_sessionStep == ASSUME UpdaterInv, begin_session PROVE UpdaterInv'
<1> USE DEF UpdaterInv
<1>1. host \in Hosts /\ cache \in Caches
  BY DEF UpdaterTypes
<1>2. /\ host' \in Hosts /\ cache' \in Caches
      /\ host.life = "load"
      /\ host'.phase = host.phase /\ host'.version = host.version
      /\ host'.scheduled = host.scheduled /\ host'.queue = host.queue
      /\ host'.doing = host.doing /\ host'.prepared = host.prepared
      /\ cache'.installed = cache.installed
      /\ cache'.schedule \in {cache.schedule, NoVersion}
      /\ cache'.ready = NoVersion => cache'.schedule = NoVersion
      /\ \/ host'.life = "restore"
         \/ /\ host'.life = "ask" /\ cache'.schedule # NoVersion
            /\ host'.held = cache'.schedule
      /\ wire' = wire /\ section' = section
      /\ offered' = offered /\ consent' = consent
  <2>1. load(cache).ready = NoVersion => load(cache).schedule = NoVersion
    BY <1>1, Loaded DEF ScheduleOK
  <2>2. load(cache).schedule \in VersionOrNone
    BY <1>1, Loaded DEF Caches
  <2>3. /\ [host EXCEPT !.life = "restore"] \in Hosts
        /\ \A v \in VersionOrNone :
              [host EXCEPT !.life = "ask", !.held = v] \in Hosts
    BY <1>1 DEF Hosts, Lives, VersionOrNone
  <2>4. CASE host' = [host EXCEPT !.life = "restore"] /\ cache' = load(cache)
    BY <1>1, <2>1, <2>3, <2>4, Loaded DEF begin_session, Hosts
  <2>5. CASE /\ load(cache).ready # NoVersion
             /\ load(cache).schedule = load(cache).ready
             /\ host' = [host EXCEPT !.life = "ask",
                                     !.held = load(cache).schedule]
             /\ cache' = load(cache)
    BY <1>1, <2>1, <2>2, <2>3, <2>5, Loaded DEF begin_session, Hosts
  <2> QED
    BY <2>4, <2>5 DEF begin_session, Due, is_scheduled, Live
<1>3. UpdaterTypes'
  BY <1>1, <1>2, TypesKept DEF UpdaterTypes
<1>4. WorkerOK' /\ QueueOK'
  BY <1>2, UpdaterNumbers DEF WorkerOK, QueueOK, Running, Actions, Asks
<1>5. ReadyOK' /\ ScheduleOK'
  BY <1>2, UpdaterNumbers
     DEF WorkerOK, ReadyOK, ScheduleOK, Running, Actions, Broken, NoVersion
<1>6. AskedOK'
  BY <1>2, UpdaterNumbers
     DEF AskedOK, Actions, Asks, Works, WasAsked, WorkerOK, QueueOK,
         ReadyOK, Running
<1>7. CountOK'
  BY <1>2, UpdaterNumbers
     DEF CountOK, Pending, One, Actions, Asks, Works, WorkerOK,
         ScheduleOK, Running
<1> QED
  BY <1>3, <1>4, <1>5, <1>6, <1>7

\* The opt-in is consumed before the application is touched.
LEMMA try_scheduled_installStep == ASSUME UpdaterInv, try_scheduled_install PROVE UpdaterInv'
<1> USE DEF UpdaterInv
<1>1. host \in Hosts /\ cache \in Caches
  BY DEF UpdaterTypes
<1>2. /\ host' \in Hosts /\ cache' \in Caches
      /\ host.life = "ask"
      /\ host'.phase = host.phase /\ host'.version = host.version
      /\ host'.scheduled = host.scheduled /\ host'.queue = host.queue
      /\ host'.doing = host.doing /\ host'.prepared = host.prepared
      /\ cache'.installed = cache.installed
      /\ \/ /\ host'.life = "restore"
            /\ cache' = cache \/ cache'.schedule = NoVersion
         \/ /\ host'.life = "install" /\ host'.held = host.held
            /\ cache'.schedule = NoVersion
      /\ wire' = wire /\ section' = section
      /\ offered' = offered /\ consent' = consent
  <2>1. /\ [host EXCEPT !.life = "restore", !.held = NoVersion] \in Hosts
        /\ [host EXCEPT !.life = "install"] \in Hosts
    BY <1>1 DEF Hosts, Lives, VersionOrNone
  <2>2. CASE /\ host' = [host EXCEPT !.life = "restore", !.held = NoVersion]
             /\ cache' \in {cache, clear_files(cache)}
    BY <1>1, <2>1, <2>2, Cleared DEF try_scheduled_install, Hosts
  <2>3. CASE /\ host' = [host EXCEPT !.life = "install"]
             /\ cache' = unscheduled(cache)
    BY <1>1, <2>1, <2>3, Cleared DEF try_scheduled_install, Hosts
  <2> QED
    BY <2>2, <2>3 DEF try_scheduled_install, Live, Consumed
<1>3. UpdaterTypes'
  BY <1>1, <1>2, TypesKept DEF UpdaterTypes
<1>4. WorkerOK' /\ QueueOK'
  BY <1>2, UpdaterNumbers DEF WorkerOK, QueueOK, Running, Actions, Asks
<1>5. ReadyOK' /\ ScheduleOK'
  BY <1>2, UpdaterNumbers
     DEF WorkerOK, ReadyOK, ScheduleOK, Running, Actions, Broken, NoVersion
<1>6. AskedOK'
  BY <1>2, UpdaterNumbers
     DEF AskedOK, Actions, Asks, Works, WasAsked, WorkerOK, QueueOK,
         ReadyOK, Running
<1>7. CountOK'
  BY <1>2, UpdaterNumbers
     DEF CountOK, Pending, One, Actions, Asks, Works, WorkerOK,
         ScheduleOK, Running
<1> QED
  BY <1>3, <1>4, <1>5, <1>6, <1>7

\* The one attempt of a scheduled installation.
LEMMA InstallAtLaunchStep == ASSUME UpdaterInv, InstallAtLaunch PROVE UpdaterInv'
<1> USE DEF UpdaterInv
<1>1. host \in Hosts /\ cache \in Caches
  BY DEF UpdaterTypes
<1>2. /\ host' \in Hosts /\ cache' \in Caches /\ consent' \in Consents
      /\ host.life = "install" /\ host'.life \in {"restore", "clear"}
      /\ host'.phase = host.phase /\ host'.version = host.version
      /\ host'.scheduled = host.scheduled /\ host'.queue = host.queue
      /\ host'.doing = host.doing /\ host'.prepared = host.prepared
      /\ cache'.ready = cache.ready /\ cache'.schedule = cache.schedule
      /\ consent'.versions = consent.versions /\ consent'.blind = consent.blind
      /\ consent'.times = consent.times
      /\ \/ cache'.installed = cache.installed /\ consent'.tried = consent.tried
         \/ /\ consent'.tried = consent.tried + 1
            /\ cache'.installed \in {cache.installed, host.held}
      /\ wire' = wire /\ section' = section /\ offered' = offered
  <2>1. /\ [host EXCEPT !.life = "restore", !.held = NoVersion] \in Hosts
        /\ [host EXCEPT !.life = "clear"] \in Hosts
    BY <1>1 DEF Hosts, Lives, VersionOrNone
  <2>2. /\ host.life = "install"
        /\ host' \in {[host EXCEPT !.life = "restore", !.held = NoVersion],
                      [host EXCEPT !.life = "clear"]}
        /\ wire' = wire /\ section' = section /\ offered' = offered
    BY DEF InstallAtLaunch, Live
  <2>3. /\ host' \in Hosts /\ host'.life \in {"restore", "clear"}
        /\ host'.phase = host.phase /\ host'.version = host.version
        /\ host'.scheduled = host.scheduled /\ host'.queue = host.queue
        /\ host'.doing = host.doing /\ host'.prepared = host.prepared
    BY <1>1, <2>1, <2>2 DEF Hosts
  <2>4. consent \in Consents
    BY DEF UpdaterTypes
  <2>5. CASE cache' = cache /\ consent' = consent
    BY <1>1, <2>2, <2>3, <2>4, <2>5
  <2>6. CASE /\ consent' = [consent EXCEPT !.tried = @ + 1]
             /\ cache' \in {cache, [cache EXCEPT !.installed = host.held]}
    <3>1. host.held \in Versions
      BY <1>1, <2>2 DEF Hosts, VersionOrNone, AskedOK
    <3>2. /\ cache' \in Caches /\ cache'.ready = cache.ready
          /\ cache'.schedule = cache.schedule
          /\ cache'.installed \in {cache.installed, host.held}
      BY <1>1, <2>6, <3>1 DEF Caches
    <3>3. /\ consent' \in Consents /\ consent'.tried = consent.tried + 1
          /\ consent'.versions = consent.versions
          /\ consent'.blind = consent.blind /\ consent'.times = consent.times
      BY <2>4, <2>6 DEF Consents
    <3> QED
      BY <2>2, <2>3, <3>2, <3>3
  <2> QED
    BY <2>5, <2>6 DEF InstallAtLaunch, Try
<1>3. UpdaterTypes'
  BY <1>1, <1>2, TypesKept DEF UpdaterTypes
<1>4. WorkerOK' /\ QueueOK'
  BY <1>2, UpdaterNumbers DEF WorkerOK, QueueOK, Running, Actions, Asks
<1>5. ReadyOK' /\ ScheduleOK'
  BY <1>2, UpdaterNumbers
     DEF WorkerOK, ReadyOK, ScheduleOK, Running, Actions, Broken, NoVersion
<1>6. AskedOK'
  BY <1>2, UpdaterNumbers
     DEF AskedOK, Actions, Asks, Works, WasAsked, WorkerOK, QueueOK,
         ReadyOK, Running
<1>7. CountOK'
  BY <1>2, UpdaterNumbers
     DEF CountOK, Pending, One, Actions, Asks, Works, WorkerOK,
         ScheduleOK, Running
<1> QED
  BY <1>3, <1>4, <1>5, <1>6, <1>7

\* The worker begins a session with what the cache holds.
LEMMA restoreStep == ASSUME UpdaterInv, restore PROVE UpdaterInv'
<1> USE DEF UpdaterInv
<1>1. host \in Hosts /\ cache \in Caches
  BY DEF UpdaterTypes
<1>2. /\ host' \in Hosts /\ cache' \in Caches
      /\ host.life = "restore" /\ host'.life = "up"
      /\ host'.queue = host.queue /\ host'.doing = host.doing
      /\ host'.prepared = host.prepared
      /\ cache'.installed = cache.installed
      /\ cache'.schedule \in {cache.schedule, NoVersion}
      /\ cache'.ready = NoVersion => cache'.schedule = NoVersion
      /\ \/ /\ host'.phase \in {"idle", "error"} /\ cache'.schedule = NoVersion
            /\ host'.version = host.version
         \/ /\ host'.phase = "ready" /\ host'.version = cache'.ready
            /\ cache'.ready > cache.installed
            /\ ~host'.scheduled => cache'.schedule = NoVersion
      /\ wire' = wire /\ section' = section
      /\ offered' = offered /\ consent' = consent
  <2>1. /\ [host EXCEPT !.life = "up", !.phase = "error"] \in Hosts
        /\ [host EXCEPT !.life = "up"] \in Hosts
        /\ \A v \in VersionOrNone : \A b \in BOOLEAN :
              [host EXCEPT !.life = "up", !.phase = "ready", !.version = v,
                           !.scheduled = b] \in Hosts
    BY <1>1 DEF Hosts, Lives, Phases, VersionOrNone
  <2>2. load(cache).ready = NoVersion => load(cache).schedule = NoVersion
    BY <1>1, Loaded DEF ScheduleOK
  <2>3. host.life = "restore" /\ host.phase = "idle" /\ cache' = load(cache)
        /\ wire' = wire /\ section' = section
        /\ offered' = offered /\ consent' = consent
    BY DEF restore, WorkerOK, Running
  <2>4. CASE cache.ready = Broken
    <3>1. host' = [host EXCEPT !.life = "up", !.phase = "error"]
      BY <2>4 DEF restore
    <3>2. load(cache).ready = NoVersion
      BY <1>1, <2>4, Loaded
    <3> QED
      BY <1>1, <2>1, <2>2, <2>3, <3>1, <3>2, Loaded DEF Hosts
  <2>5. CASE cache.ready # Broken /\ load(cache).ready # NoVersion
    <3>1. PICK b \in BOOLEAN : b = is_scheduled(load(cache))
      BY DEF is_scheduled
    <3>2. host' = [host EXCEPT !.life = "up", !.phase = "ready",
                               !.version = load(cache).ready, !.scheduled = b]
      BY <2>5, <3>1 DEF restore
    <3>3. load(cache).ready \in VersionOrNone
      BY <1>1, <2>5, Loaded DEF Caches
    <3>4. ~b => load(cache).schedule = NoVersion
      BY <1>1, <2>5, <3>1, Loaded DEF is_scheduled
    <3> QED
      BY <1>1, <2>1, <2>2, <2>3, <2>5, <3>2, <3>3, <3>4, Loaded DEF Hosts
  <2>6. CASE cache.ready # Broken /\ load(cache).ready = NoVersion
    <3>1. host' = [host EXCEPT !.life = "up"]
      BY <2>6 DEF restore
    <3> QED
      BY <1>1, <2>1, <2>2, <2>3, <2>6, <3>1, Loaded DEF Hosts
  <2> QED
    BY <2>4, <2>5, <2>6
<1>3. UpdaterTypes'
  BY <1>1, <1>2, TypesKept DEF UpdaterTypes
<1>4. WorkerOK' /\ QueueOK'
  BY <1>2, UpdaterNumbers DEF WorkerOK, QueueOK, Running, Actions, Asks
<1>5. ReadyOK' /\ ScheduleOK'
  BY <1>2, UpdaterNumbers
     DEF WorkerOK, ReadyOK, ScheduleOK, Running, Actions, Broken, NoVersion
<1>6. AskedOK'
  BY <1>2, UpdaterNumbers
     DEF AskedOK, Actions, Asks, Works, WasAsked, WorkerOK, QueueOK,
         ReadyOK, Running
<1>7. CountOK'
  BY <1>2, UpdaterNumbers
     DEF CountOK, Pending, One, Actions, Asks, Works, WorkerOK,
         ScheduleOK, Running
<1> QED
  BY <1>3, <1>4, <1>5, <1>6, <1>7

\* The window is closed; the worker goes on until the sidecar has stopped.
LEMMA StopAndExitStep == ASSUME UpdaterInv, StopAndExit PROVE UpdaterInv'
<1> USE DEF UpdaterInv
<1>1. host \in Hosts /\ cache \in Caches
  BY DEF UpdaterTypes
<1>2. /\ host' \in Hosts
      /\ host.life = "up" /\ host'.life = "stopping"
      /\ host'.phase = host.phase /\ host'.version = host.version
      /\ host'.scheduled = host.scheduled /\ host'.queue = host.queue
      /\ host'.doing = host.doing /\ host'.held = host.held
      /\ host'.prepared = host.prepared
      /\ wire' = <<>> /\ section' = NoSection
      /\ cache' = cache /\ offered' = offered /\ consent' = consent
  BY <1>1 DEF StopAndExit, Live, Hosts, Lives
<1>3. UpdaterTypes'
  BY <1>1, <1>2, TypesKept DEF UpdaterTypes
<1>4. WorkerOK' /\ QueueOK'
  BY <1>2, UpdaterNumbers DEF WorkerOK, QueueOK, Running, Actions, Asks
<1>5. ReadyOK' /\ ScheduleOK'
  BY <1>2, UpdaterNumbers
     DEF WorkerOK, ReadyOK, ScheduleOK, Running, Actions, Broken, NoVersion
<1>6. AskedOK'
  BY <1>2, UpdaterNumbers
     DEF AskedOK, Actions, Asks, Works, WasAsked, WorkerOK, QueueOK,
         ReadyOK, Running
<1>7. CountOK'
  BY <1>2, UpdaterNumbers
     DEF CountOK, Pending, One, Actions, Asks, Works, WorkerOK,
         ScheduleOK, Running
<1> QED
  BY <1>3, <1>4, <1>5, <1>6, <1>7

\* The process is killed; the next launch begins with the files.
LEMMA KillStep == ASSUME UpdaterInv, Kill PROVE UpdaterInv'
<1> USE DEF UpdaterInv
<1>1. host \in Hosts /\ cache \in Caches
  BY DEF UpdaterTypes
<1>2. /\ host' \in Hosts /\ host'.life = "load"
      /\ host'.phase = "idle" /\ host'.queue = "none" /\ host'.doing = "none"
      /\ host'.prepared = NoVersion /\ ~host'.scheduled
      /\ wire' = <<>> /\ section' = NoSection
      /\ cache' = cache /\ offered' = offered /\ consent' = consent
  <2>1. NewHost("load") \in Hosts
    BY DEF NewHost, Hosts, Lives, Phases, Doings, VersionOrNone
  <2> QED
    BY <2>1 DEF Kill, Restart, NewHost
<1>3. UpdaterTypes'
  BY <1>1, <1>2, TypesKept DEF UpdaterTypes
<1>4. WorkerOK' /\ QueueOK'
  BY <1>2, UpdaterNumbers DEF WorkerOK, QueueOK, Running, Actions, Asks
<1>5. ReadyOK' /\ ScheduleOK'
  BY <1>2, UpdaterNumbers
     DEF WorkerOK, ReadyOK, ScheduleOK, Running, Actions, Broken, NoVersion
<1>6. AskedOK'
  BY <1>2, UpdaterNumbers
     DEF AskedOK, Actions, Asks, Works, WasAsked, WorkerOK, QueueOK,
         ReadyOK, Running
<1>7. CountOK'
  BY <1>2, UpdaterNumbers
     DEF CountOK, Pending, One, Actions, Asks, Works, WorkerOK,
         ScheduleOK, Running
<1> QED
  BY <1>3, <1>4, <1>5, <1>6, <1>7

\* The package is damaged on disk.
LEMMA DamageStep == ASSUME UpdaterInv, Damage PROVE UpdaterInv'
<1> USE DEF UpdaterInv
<1>1. host \in Hosts /\ cache \in Caches
  BY DEF UpdaterTypes
<1>2. /\ cache' \in Caches /\ cache'.ready = Broken
      /\ cache'.installed = cache.installed /\ cache'.schedule = cache.schedule
      /\ host' = host /\ wire' = wire /\ section' = section
      /\ offered' = offered /\ consent' = consent
  BY <1>1 DEF Damage, Caches
<1>3. UpdaterTypes'
  BY <1>1, <1>2, TypesKept DEF UpdaterTypes
<1>4. WorkerOK' /\ QueueOK'
  BY <1>2, UpdaterNumbers DEF WorkerOK, QueueOK, Running, Actions, Asks
<1>5. ReadyOK' /\ ScheduleOK'
  BY <1>2, UpdaterNumbers
     DEF WorkerOK, ReadyOK, ScheduleOK, Running, Actions, Broken, NoVersion
<1>6. AskedOK'
  BY <1>2, UpdaterNumbers
     DEF AskedOK, Actions, Asks, Works, WasAsked, WorkerOK, QueueOK,
         ReadyOK, Running
<1>7. CountOK'
  BY <1>2, UpdaterNumbers
     DEF CountOK, Pending, One, Actions, Asks, Works, WorkerOK,
         ScheduleOK, Running
<1> QED
  BY <1>3, <1>4, <1>5, <1>6, <1>7

\* A release is published.
LEMMA PublishStep == ASSUME UpdaterInv, Publish PROVE UpdaterInv'
<1> USE DEF UpdaterInv
<1>1. host \in Hosts /\ cache \in Caches
  BY DEF UpdaterTypes
<1>2. /\ offered' \in Versions
      /\ host' = host /\ cache' = cache /\ wire' = wire /\ section' = section
      /\ consent' = consent
  BY <1>1, UpdaterBounds DEF Publish, UpdaterTypes, Versions
<1>3. UpdaterTypes'
  BY <1>1, <1>2, TypesKept DEF UpdaterTypes
<1>4. WorkerOK' /\ QueueOK'
  BY <1>2, UpdaterNumbers DEF WorkerOK, QueueOK, Running, Actions, Asks
<1>5. ReadyOK' /\ ScheduleOK'
  BY <1>2, UpdaterNumbers
     DEF WorkerOK, ReadyOK, ScheduleOK, Running, Actions, Broken, NoVersion
<1>6. AskedOK'
  BY <1>2, UpdaterNumbers
     DEF AskedOK, Actions, Asks, Works, WasAsked, WorkerOK, QueueOK,
         ReadyOK, Running
<1>7. CountOK'
  BY <1>2, UpdaterNumbers
     DEF CountOK, Pending, One, Actions, Asks, Works, WorkerOK,
         ScheduleOK, Running
<1> QED
  BY <1>3, <1>4, <1>5, <1>6, <1>7

\* What the shell makes of a request: it takes it only by the state it is in.
LEMMA Queued ==
    ASSUME UpdaterInv, NEW action \in Actions,
           handle_navigation(action)
    PROVE  /\ host' \in Hosts /\ host'.life = "up" /\ host.life = "up"
           /\ host'.phase = host.phase /\ host'.version = host.version
           /\ host'.scheduled = host.scheduled
           /\ host'.doing = host.doing /\ host'.held = host.held
           /\ host'.prepared = host.prepared
           /\ \/ host'.queue = host.queue
              \/ /\ host.queue = "none" /\ host'.queue = action
                 /\ action \in Asks => host.phase = "ready"
           /\ cache' = cache /\ wire' = wire /\ offered' = offered
<1>1. host \in Hosts
  BY DEF UpdaterInv, UpdaterTypes
<1>2. host.life = "up" /\ cache' = cache /\ wire' = wire /\ offered' = offered
  BY DEF handle_navigation
<1>3. CASE host' = host
  BY <1>1, <1>2, <1>3
<1>4. CASE /\ host' = [host EXCEPT !.queue = action] /\ host.queue = "none"
           /\ Accepts(action)
  <2>1. action \in Asks => host.phase = "ready"
    BY <1>4 DEF Accepts, Asks
  <2> QED
    BY <1>1, <1>2, <1>4, <2>1 DEF Hosts
<1> QED
  BY <1>3, <1>4 DEF handle_navigation

\* A request to install, now or later, names the version on the screen.
LEMMA Consented ==
    ASSUME UpdaterInv, Consent, section.status # <<>>
    PROVE  /\ consent' \in Consents
           /\ consent.versions \subseteq consent'.versions
           /\ consent.blind => consent'.blind
           /\ host.version \in consent'.versions \/ consent'.blind
           /\ consent'.tried = consent.tried
           /\ consent'.times = consent.times + 1
<1>1. consent \in Consents /\ host \in Hosts /\ section.status \in Seq(Snapshots)
  BY DEF UpdaterInv, UpdaterTypes
<1>2. Status \in Snapshots
  BY <1>1 DEF Status
<1>3. Status.version \in VersionOrNone
  BY <1>2 DEF Snapshots
<1>4. PICK b \in BOOLEAN : b = (consent.blind \/ Status # Snapshot(host))
  OBVIOUS
<1>5. consent' = [consent EXCEPT !.versions = @ \cup {Status.version},
                                 !.times = @ + 1, !.blind = b]
  BY <1>4 DEF Consent
<1>6. b \/ Status.version = host.version
  <2>1. b \/ Status = Snapshot(host)
    BY <1>4, Zenon
  <2>2. Snapshot(host).version = host.version
    BY DEF Snapshot
  <2> QED
    BY <2>1, <2>2
<1>7. consent.blind => b
  BY <1>4, Zenon
<1>8. /\ consent'.versions = consent.versions \cup {Status.version}
      /\ consent'.times = consent.times + 1 /\ consent'.blind = b
      /\ consent'.tried = consent.tried
  BY <1>1, <1>5 DEF Consents
<1>9. consent' \in Consents
  <2> DEFINE V == consent.versions \cup {Status.version}
             N == consent.times + 1
  <2>1. V \in SUBSET VersionOrNone
    BY <1>1, <1>3 DEF Consents
  <2>2. N \in Nat
    BY <1>1 DEF Consents
  <2>3. consent' = [consent EXCEPT !.versions = V, !.times = N, !.blind = b]
    BY <1>5
  <2> HIDE DEF V, N
  <2> QED
    BY <1>1, <2>1, <2>2, <2>3 DEF Consents
<1> QED
  BY <1>6, <1>7, <1>8, <1>9

\* An installation now, or at the next launch, is asked for.
LEMMA AskStep ==
    ASSUME UpdaterInv, NEW action \in Asks, handle_navigation(action), Consent,
           section.status # <<>>, section' = section
    PROVE  UpdaterInv'
<1> USE DEF UpdaterInv
<1>1. /\ host' \in Hosts /\ host'.life = "up" /\ host.life = "up"
      /\ host'.phase = host.phase /\ host'.version = host.version
      /\ host'.scheduled = host.scheduled
      /\ host'.doing = host.doing /\ host'.held = host.held
      /\ host'.prepared = host.prepared
      /\ \/ host'.queue = host.queue
         \/ /\ host.queue = "none" /\ host'.queue = action
            /\ host.phase = "ready"
      /\ cache' = cache /\ wire' = wire /\ offered' = offered
  <2>1. action \in Actions
    BY DEF Actions, Asks
  <2> QED
    BY <2>1, Queued
<1>2. /\ consent' \in Consents
      /\ consent.versions \subseteq consent'.versions
      /\ consent.blind => consent'.blind
      /\ host.version \in consent'.versions \/ consent'.blind
      /\ consent'.tried = consent.tried
      /\ consent'.times = consent.times + 1
  BY Consented
<1>3. UpdaterTypes'
  BY <1>1, <1>2 DEF UpdaterTypes
<1>4. WorkerOK' /\ QueueOK'
  BY <1>1 DEF WorkerOK, QueueOK, Running, Actions, Asks
<1>5. ReadyOK' /\ ScheduleOK'
  BY <1>1 DEF ReadyOK, ScheduleOK, Running
<1>6. AskedOK'
  BY <1>1, <1>2 DEF AskedOK, WasAsked
<1>7. CountOK'
  BY <1>1, <1>2, UpdaterNumbers DEF CountOK, Pending, One, Asks, Works
<1> QED
  BY <1>3, <1>4, <1>5, <1>6, <1>7

\* A check or a withdrawal changes nothing but the queue.
LEMMA QueueStep ==
    ASSUME UpdaterInv, NEW action \in {"check", "cancel"},
           handle_navigation(action), section' = section, consent' = consent
    PROVE  UpdaterInv'
<1> USE DEF UpdaterInv
<1>1. /\ host' \in Hosts /\ host'.life = "up" /\ host.life = "up"
      /\ host'.phase = host.phase /\ host'.version = host.version
      /\ host'.scheduled = host.scheduled
      /\ host'.doing = host.doing /\ host'.held = host.held
      /\ host'.prepared = host.prepared
      /\ \/ host'.queue = host.queue
         \/ host.queue = "none" /\ host'.queue = action
      /\ cache' = cache /\ wire' = wire /\ offered' = offered
  <2>1. action \in Actions
    BY DEF Actions
  <2> QED
    BY <2>1, Queued
<1>2. UpdaterTypes'
  BY <1>1 DEF UpdaterTypes
<1>3. WorkerOK' /\ QueueOK'
  BY <1>1 DEF WorkerOK, QueueOK, Running, Actions, Asks
<1>4. ReadyOK' /\ ScheduleOK'
  BY <1>1 DEF ReadyOK, ScheduleOK, Running
<1>5. AskedOK'
  BY <1>1 DEF AskedOK, WasAsked, Asks
<1>6. CountOK'
  BY <1>1, UpdaterNumbers DEF CountOK, Pending, One, Asks, Works
<1> QED
  BY <1>2, <1>3, <1>4, <1>5, <1>6

\* The page: opening, closing, events and the confirmation.
LEMMA PageSteps ==
    ASSUME UpdaterInv, \/ OpenSettings \/ CloseSettings \/ onStatus
                       \/ InstallAndRestart \/ cancelInstall
    PROVE  UpdaterInv'
<1> DEFINE Sections_ == [open : BOOLEAN, status : Seq(Snapshots),
                         confirming : VersionOrNone]
<1>1. /\ host \in Hosts /\ section \in Sections_ /\ wire \in Seq(Snapshots)
      /\ section.status \in Seq(Snapshots)
  BY DEF UpdaterInv, UpdaterTypes
<1>2. NoVersion \in VersionOrNone /\ <<>> \in Seq(Snapshots)
  BY DEF VersionOrNone
<1>3. NoSection \in Sections_ /\ [NoSection EXCEPT !.open = TRUE] \in Sections_
  BY <1>2 DEF NoSection
<1>4. Snapshot(host) \in Snapshots
  BY <1>1 DEF Snapshot, Snapshots, Hosts
<1>5. CASE OpenSettings
  <2>1. wire' \in Seq(Snapshots)
    BY <1>1, <1>4, <1>5 DEF OpenSettings, useDesktopUpdates
  <2> QED
    BY <1>3, <1>5, <2>1, PageStep DEF OpenSettings
<1>6. CASE CloseSettings
  BY <1>1, <1>3, <1>6, PageStep DEF CloseSettings
<1>7. CASE onStatus
  <2>1. Head(wire) \in Snapshots /\ Tail(wire) \in Seq(Snapshots)
        /\ wire' = Tail(wire)
    BY <1>1, <1>7 DEF onStatus
  <2>2. << Head(wire) >> \in Seq(Snapshots)
    BY <2>1
  <2>3. \A v \in VersionOrNone :
           [section EXCEPT !.status = << Head(wire) >>, !.confirming = v]
               \in Sections_
    BY <1>1, <2>2
  <2>4. section' \in {section,
                     [section EXCEPT !.status = << Head(wire) >>,
                                     !.confirming = section.confirming],
                     [section EXCEPT !.status = << Head(wire) >>,
                                     !.confirming = NoVersion]}
    BY <1>1, <1>7 DEF onStatus
  <2>5. section' \in Sections_
    BY <1>1, <1>2, <2>3, <2>4
  <2> QED
    BY <1>7, <2>1, <2>5, PageStep DEF onStatus
<1>8. CASE InstallAndRestart
  <2>1. Status.version \in VersionOrNone
    <3>1. section.status # <<>>
      BY <1>8 DEF InstallAndRestart, ready, StatusKnown
    <3>2. Status \in Snapshots
      BY <1>1, <3>1 DEF Status
    <3> QED
      BY <3>2 DEF Snapshots
  <2>2. section' \in Sections_
    BY <1>1, <1>8, <2>1 DEF InstallAndRestart
  <2> QED
    BY <1>1, <1>8, <2>2, PageStep DEF InstallAndRestart
<1>9. CASE cancelInstall
  <2>1. section' \in Sections_
    BY <1>1, <1>2, <1>9 DEF cancelInstall
  <2> QED
    BY <1>1, <1>9, <2>1, PageStep DEF cancelInstall
<1> QED
  BY <1>5, <1>6, <1>7, <1>8, <1>9

\* A request of the user.
LEMMA RequestSteps ==
    ASSUME UpdaterInv, CheckForUpdates \/ ConfirmInstall \/ InstallNextLaunch
    PROVE  UpdaterInv'
<1>1. CASE CheckForUpdates
  BY <1>1, QueueStep DEF CheckForUpdates
<1>2. CASE ConfirmInstall
  <2>1. "install" \in Asks /\ section.status # <<>>
    BY <1>2 DEF ConfirmInstall, confirmationValid, ready, StatusKnown, Asks
  <2> QED
    BY <1>2, <2>1, AskStep DEF ConfirmInstall
<1>3. CASE InstallNextLaunch
  <2>1. "schedule" \in Asks /\ section.status # <<>> /\ section' = section
    BY <1>3 DEF InstallNextLaunch, ready, StatusKnown, Asks
  <2>2. CASE Status.scheduled
    BY <1>3, <2>1, <2>2, QueueStep DEF InstallNextLaunch
  <2>3. CASE ~Status.scheduled
    BY <1>3, <2>1, <2>3, AskStep DEF InstallNextLaunch
  <2> QED
    BY <2>2, <2>3
<1> QED
  BY <1>1, <1>2, <1>3

\* At first nothing is cached and nothing was asked for.
LEMMA UpdaterInit == UpdateInit => UpdaterInv
<1> SUFFICES ASSUME UpdateInit PROVE UpdaterInv
  OBVIOUS
<1>1. NoVersion \in VersionOrNone /\ 1 \in Versions
  BY UpdaterBounds DEF VersionOrNone, Versions
<1>2. /\ host = NewHost("load") /\ host \in Hosts
      /\ cache = [installed |-> 1, ready |-> NoVersion, schedule |-> NoVersion]
      /\ cache \in Caches
  BY <1>1 DEF UpdateInit, NewHost, Hosts, Lives, Phases, Doings, Caches
<1>3. consent = [versions |-> {}, times |-> 0, tried |-> 0, blind |-> FALSE]
      /\ consent \in Consents
  BY DEF UpdateInit, Consents
<1>4. section \in [open : BOOLEAN, status : Seq(Snapshots),
                   confirming : VersionOrNone]
      /\ wire \in Seq(Snapshots)
  <2>1. <<>> \in Seq(Snapshots)
    OBVIOUS
  <2> QED
    BY <1>1, <2>1 DEF UpdateInit, NoSection
<1>5. UpdaterTypes
  BY <1>1, <1>2, <1>3, <1>4 DEF UpdateInit, UpdaterTypes
<1>6. /\ host.life = "load" /\ host.phase = "idle" /\ host.queue = "none"
      /\ host.doing = "none" /\ host.prepared = NoVersion /\ ~host.scheduled
      /\ cache.installed = 1 /\ cache.schedule = NoVersion
      /\ consent.times = 0 /\ consent.tried = 0
  BY <1>2, <1>3 DEF NewHost
<1>7. WorkerOK /\ QueueOK /\ ReadyOK /\ ScheduleOK /\ AskedOK
  BY <1>6 DEF WorkerOK, QueueOK, ReadyOK, ScheduleOK, AskedOK, Running, Asks,
              Works
<1>8. CountOK
  BY <1>6 DEF CountOK, Pending, One, Asks, Works
<1> QED
  BY <1>5, <1>7, <1>8 DEF UpdaterInv

LEMMA UpdaterStep ==
    ASSUME UpdaterInv, UpdateNext \/ UNCHANGED updateVars
    PROVE  UpdaterInv'
<1>1. CASE Worker
  BY <1>1, recvStep, begin_checkStep, checkStep, downloadStep,
     atomic_writeStep, OptInStep, WithdrawStep, installStep,
     prepare_installStep, VerifiedStep DEF Worker
<1>2. CASE Launch
  BY <1>2, finish_explicit_installStep, clearStep, begin_sessionStep,
     try_scheduled_installStep, InstallAtLaunchStep, restoreStep DEF Launch
<1>3. CASE onStatus \/ UpdateUser
  BY <1>3, PageSteps, RequestSteps DEF UpdateUser
<1>4. CASE Timeout \/ StopAndExit \/ Kill \/ Damage \/ Publish
  BY <1>4, TimeoutStep, StopAndExitStep, KillStep, DamageStep, PublishStep
<1>5. CASE UNCHANGED updateVars
  <2>1. UNCHANGED <<host, cache, offered, consent>> /\ section' = section
        /\ wire' = wire
    BY <1>5 DEF updateVars
  <2> QED
    BY <2>1, PageStep DEF UpdaterInv, UpdaterTypes
<1> QED
  BY <1>1, <1>2, <1>3, <1>4, <1>5 DEF UpdateNext, UpdateProgress

\* The invariant says what is promised.
LEMMA UpdaterInvIsSafe == UpdaterInv => UpdateSafe
<1> SUFFICES ASSUME UpdaterInv PROVE UpdateSafe
  OBVIOUS
<1>1. host \in Hosts /\ cache \in Caches
  BY DEF UpdaterInv, UpdaterTypes
<1>2. UpdateTypeOK
  <2>1. host.version \in VersionOrNone /\ host.held \in VersionOrNone
        /\ host.prepared \in VersionOrNone
    BY <1>1 DEF Hosts
  <2>2. {host.version, host.held, host.prepared} \subseteq {NoVersion} \cup Versions
    BY <2>1, Zenon DEF VersionOrNone
  <2>3. /\ host.life \in Lives /\ host.phase \in Phases
        /\ host.queue \in {"none"} \cup Actions /\ host.doing \in Doings
        /\ cache.installed \in Versions
        /\ cache.ready \in {Broken} \cup VersionOrNone
        /\ cache.schedule \in VersionOrNone
        /\ host.phase = "ready" => host.version > cache.installed
    BY <1>1 DEF Hosts, Caches, UpdaterInv, ReadyOK
  <2> QED
    BY <2>2, <2>3 DEF UpdateTypeOK, Lives, Actions, Doings, VersionOrNone
<1>3. OnlyAsked
  BY DEF UpdaterInv, AskedOK, WasAsked, OnlyAsked
<1>4. AskedOnce
  <2>1. Pending(host, cache) \in Nat
    BY DEF Pending, One
  <2> QED
    BY <2>1, UpdaterNumbers DEF UpdaterInv, CountOK, AskedOnce
<1>5. UnscheduledStays
  BY DEF UpdaterInv, ScheduleOK, UnscheduledStays, is_scheduled, Running
<1> QED
  BY <1>2, <1>3, <1>4, <1>5 DEF UpdateSafe

\* Whatever is published, downloaded, damaged or killed, and in whatever order
\* the worker, the launch and the page take their steps, only what was asked
\* for is installed, once, and what is shown as withdrawn is withdrawn
\* (worker.rs, runtime.rs, cache.rs, desktopUpdates.ts).
THEOREM UpdatesAreSafe == Spec => []UpdateSafe
<1>1. Init => UpdaterInv
  BY UpdaterInit DEF Init
<1>2. UpdaterInv /\ [Next]_workbenchVars => UpdaterInv'
  <2>1. [Next]_workbenchVars => UpdateNext \/ UNCHANGED updateVars
    BY DEF Next, workbenchVars, OnKsql, OnTopic, OnFilters, OnProduce,
           OnUpdates, OnShell, updateVars
  <2> QED
    BY <2>1, UpdaterStep
<1> QED
  BY <1>1, <1>2, UpdaterInvIsSafe, PTL DEF Spec

----------------------------------------------------------------------------
(* The frame: its inductive invariant *)

ReminderPhases ==
    {"idle", "awaiting-sidebar-close", "pending", "visible", "shown"}
ClusterLists == [is : {"loading", "success", "failed"}, data : Lists]
Renders ==
    [mounted : BOOLEAN, route : BOOLEAN, large : BOOLEAN, sidebar : BOOLEAN,
     phase : ReminderPhases, clusters : ClusterLists, dynamic : BOOLEAN,
     reminder : BOOLEAN]
PlaceTypes == at \in Places /\ asked \in Places /\ moved \in BOOLEAN
ReminderTypes ==
    /\ isLarge \in BOOLEAN /\ isSidebarVisible \in BOOLEAN
    /\ phase \in ReminderPhases
    /\ wasCluster \in BOOLEAN /\ reminded \in BOOLEAN
    /\ seen \in Nat /\ committed \in Renders
ListTypes ==
    /\ clusters \in ClusterLists /\ dynamic \in BOOLEAN /\ invited \in BOOLEAN
    /\ clusters.is # "success" => DOMAIN clusters.data = {}
MenuTypes ==
    /\ folds \in [ClusterNames -> {"unset", "open", "folded"}]
    /\ isOpen \in [DOMAIN clusters.data -> BOOLEAN]
    /\ events \subseteq ClusterNames
ShellTypes == PlaceTypes /\ ReminderTypes /\ ListTypes /\ MenuTypes

\* Before the first commit nothing has happened.
Unmounted ==
    ~committed.mounted =>
        /\ moved /\ isSidebarVisible = isLarge
        /\ wasCluster = getIsClusterRoute /\ phase = getEntryPhase
        /\ ~reminded /\ clusters.is = "loading"

\* What has changed since the last commit: an answer comes to a frame at rest,
\* and only a move leads on or off the pages of a cluster.
OneAtATime ==
    committed.mounted =>
        /\ clusters # committed.clusters \/ dynamic # committed.dynamic =>
              /\ ~moved
              /\ getIsClusterRoute = committed.route
              /\ isLarge = committed.large
              /\ isSidebarVisible = committed.sidebar
              /\ phase = committed.phase
        /\ getIsClusterRoute # committed.route => moved
        /\ wasCluster = committed.route

\* The phases of the reminder: which of them the last render can have led to,
\* and that the first two of a visit come before the reminder.
PhasesOK ==
    /\ phase = "idle" <=> ~wasCluster
    /\ phase \in {"awaiting-sidebar-close", "pending"} => ~reminded
    /\ phase = "shown" => reminded
    /\ committed.mounted =>
        /\ phase = "visible" => committed.route /\ committed.sidebar
        /\ phase = "pending" => ~committed.sidebar
        /\ phase = "awaiting-sidebar-close" =>
              committed.sidebar /\ ~isSidebarVisible
        /\ phase = "pending" /\ isSidebarVisible /\ ~isLarge =>
              ~moved /\ committed.large = isLarge

\* The reminder is on the screen in the render that notes it, and in no other
\* for the first time.
ReminderOK ==
    /\ seen <= 1 /\ (reminded <=> seen = 1)
    /\ committed.mounted /\ committed.reminder => committed.phase = "visible"
    /\ phase = "visible" =>
        IF committed.mounted /\ committed.phase = "visible"
        THEN committed.reminder /\ reminded
        ELSE getIsClusterRoute /\ isSidebarVisible /\ ~reminded

\* A list the last render has seen, without clusters, has opened the form.
InvitedOK ==
    committed.mounted /\ dynamic /\ Empty =>
        \/ clusters # committed.clusters \/ dynamic # committed.dynamic
        \/ invited

ShellInv ==
    /\ ShellTypes /\ Unmounted /\ OneAtATime /\ PhasesOK /\ ReminderOK
    /\ AddressKept /\ InvitedOK /\ MenusFollow

\* At rest the effects have seen everything.
LEMMA AtRest ==
    ASSUME ShellInv, Rested
    PROVE  /\ committed.mounted /\ committed.route = getIsClusterRoute
           /\ committed.large = isLarge /\ committed.sidebar = isSidebarVisible
           /\ committed.phase = phase /\ committed.clusters = clusters
           /\ committed.dynamic = dynamic
           /\ committed.reminder = isAllClustersReminderVisible
           /\ ~moved
<1>1. committed = Rendered /\ ~moved
  BY DEF Rested
<1> QED
  BY <1>1 DEF Rendered

\* The present list, and the address, are of their types.
LEMMA PlaceShape ==
    ASSUME NEW p \in Places, p.page = "cluster"
    PROVE  /\ p.name \in ClusterNames /\ p.section \in Sections
           /\ p = InCluster(p.name, p.section)
<1>1. PICK c \in ClusterNames, s \in Sections : p = InCluster(c, s)
  BY DEF Places, Home, NewConfig
<1> QED
  BY <1>1 DEF InCluster
LEMMA PlacesExist ==
    /\ Home \in Places /\ NewConfig \in Places
    /\ \A c \in ClusterNames, s \in Sections : InCluster(c, s) \in Places
    /\ "brokers" \in Sections
    /\ NewConfig.page # "cluster" /\ Home.page # "cluster"
    /\ \A c \in ClusterNames, s \in Sections :
          /\ InCluster(c, s).page = "cluster" /\ InCluster(c, s).name = c
          /\ InCluster(c, s).section = s
<1>1. "brokers" \in Sections /\ NewConfig.page # "cluster"
      /\ Home.page # "cluster"
  BY DEF Sections, NewConfig, Home
<1>2. Home \in Places /\ NewConfig \in Places
      /\ \A c \in ClusterNames, s \in Sections : InCluster(c, s) \in Places
  <2>1. \A c \in ClusterNames, s \in Sections : InCluster(c, s) \in Places
    BY DEF Places
  <2> QED
    BY <2>1 DEF Places
<1>3. \A c \in ClusterNames, s \in Sections :
          /\ InCluster(c, s).page = "cluster" /\ InCluster(c, s).name = c
          /\ InCluster(c, s).section = s
  BY DEF InCluster
<1> QED
  BY <1>1, <1>2, <1>3
LEMMA NoListIsAList == <<>> \in Lists /\ <<>> \in [{} -> BOOLEAN]
<1>1. <<>> = [x \in {} |-> {}]
  OBVIOUS
<1>2. <<>> \in [{} -> SUBSET Optional] /\ {} \in SUBSET ClusterNames
  BY <1>1
<1>3. <<>> \in Lists
  BY <1>2 DEF Lists
<1> QED
  BY <1>1, <1>3

LEMMA ShellStarts ==
    ASSUME ShellInit PROVE ShellInv
<1>1. PlaceTypes /\ ListTypes
  BY NoListIsAList
     DEF ShellInit, PlaceTypes, ListTypes, ClusterLists, ClusterList
<1>2. ~committed.mounted /\ committed.phase = phase
  BY DEF ShellInit, Rendered
<1>3. ReminderTypes
  <2>1. getEntryPhase \in ReminderPhases
    BY DEF getEntryPhase, ReminderPhases
  <2>2. Rendered \in Renders
    BY <1>1, <2>1
       DEF Rendered, Renders, ListTypes, ShellInit, getIsClusterRoute,
           isAllClustersReminderVisible
  <2>3. committed \in Renders
    BY <2>2, <1>2 DEF ShellInit, Renders
  <2> QED
    BY <2>1, <2>3 DEF ReminderTypes, ShellInit, getIsClusterRoute
<1>4. MenuTypes /\ MenusFollow
  <2>1. DOMAIN clusters.data = {} /\ isOpen = <<>> /\ events = {}
    BY DEF ShellInit, ClusterList
  <2> QED
    BY <2>1, NoListIsAList DEF MenuTypes, MenusFollow, ShellInit
<1>5. Unmounted /\ OneAtATime /\ InvitedOK
  BY <1>2
     DEF Unmounted, OneAtATime, InvitedOK, ShellInit, ClusterList
<1>6. PhasesOK
  BY <1>2 DEF PhasesOK, ShellInit, getEntryPhase
<1>7. ReminderOK
  BY <1>2 DEF ReminderOK, ShellInit, getEntryPhase
<1>8. AddressKept
  BY DEF AddressKept, ShellInit
<1> QED
  BY <1>1, <1>3, <1>4, <1>5, <1>6, <1>7, <1>8 DEF ShellInv, ShellTypes

\* What a step leaves of the menus.
LEMMA MenusStay ==
    ASSUME MenuTypes, MenusFollow, UNCHANGED <<folds, isOpen, events>>,
           DOMAIN clusters'.data = DOMAIN clusters.data
    PROVE  MenuTypes' /\ MenusFollow'
  BY DEF MenuTypes, MenusFollow

\* One commit: what the effects depend on, and what they set.
LEMMA CommitStep ==
    ASSUME ShellInv, Commit PROVE ShellInv'
<1> USE DEF ShellInv, ShellTypes
<1>1. /\ committed' = Rendered /\ committed'.mounted
      /\ committed'.route = getIsClusterRoute
      /\ committed'.large = isLarge /\ committed'.sidebar = isSidebarVisible
      /\ committed'.phase = phase /\ committed'.clusters = clusters
      /\ committed'.dynamic = dynamic
      /\ committed'.reminder = isAllClustersReminderVisible
  BY DEF Commit, Rendered
<1>2. /\ isLarge' = isLarge /\ clusters' = clusters /\ dynamic' = dynamic
      /\ asked' = asked /\ UNCHANGED <<folds, isOpen, events>>
      /\ DOMAIN clusters'.data = DOMAIN clusters.data
  BY DEF Commit, menuVars
<1>3. Changed({"route", "sidebar", "large"}) <=>
        \/ ~committed.mounted \/ getIsClusterRoute # committed.route
        \/ isSidebarVisible # committed.sidebar \/ isLarge # committed.large
  BY DEF Changed, Rendered
<1>4. Changed({"phase"}) <=> ~committed.mounted \/ phase # committed.phase
  BY DEF Changed, Rendered
<1>5. Changed({"large"}) <=> ~committed.mounted \/ isLarge # committed.large
  BY DEF Changed, Rendered
<1>6. Changed({"reminder"}) <=>
        \/ ~committed.mounted
        \/ isAllClustersReminderVisible # committed.reminder
  BY DEF Changed, Rendered
<1>7. Changed({"clusters", "dynamic"}) <=>
        \/ ~committed.mounted \/ clusters # committed.clusters
        \/ dynamic # committed.dynamic
  BY DEF Changed, Rendered
\* The form is asked for only in an answer's wake.
<1>8. AsksForCluster =>
        /\ committed.mounted /\ ~moved /\ isFetched
        /\ getIsClusterRoute = committed.route
        /\ isLarge = committed.large /\ isSidebarVisible = committed.sidebar
        /\ phase = committed.phase
  BY <1>7 DEF AsksForCluster, Empty, Unmounted, OneAtATime, isFetched
<1>9. NavigatesToBrokers =>
        /\ isFetched /\ getIsClusterRoute
        /\ at.name \in ClusterNames
        /\ at = InCluster(at.name, at.section)
  BY PlaceShape DEF NavigatesToBrokers, getIsClusterRoute, PlaceTypes
<1>10. /\ AsksForCluster => at' = NewConfig
       /\ ~AsksForCluster /\ NavigatesToBrokers =>
             at' = InCluster(at.name, "brokers")
       /\ ~AsksForCluster /\ ~NavigatesToBrokers => at' = at
       /\ moved' \in BOOLEAN
       /\ moved' <=> AsksForCluster \/ NavigatesToBrokers
  BY DEF Commit, AsksForCluster, NavigatesToBrokers
<1>11. /\ at' \in Places
       /\ AsksForCluster => ~getIsClusterRoute'
       /\ ~AsksForCluster => getIsClusterRoute' = getIsClusterRoute
  BY <1>9, <1>10, PlacesExist DEF getIsClusterRoute, PlaceTypes
\* The side bar.
<1>12. /\ isSidebarVisible' \in BOOLEAN
       /\ isSidebarVisible' <=> SidebarAfter
  BY DEF Commit, SidebarAfter
<1>13. isSidebarVisible' <=>
         /\ moved => isLarge
         /\ IF ~committed.mounted \/ isLarge # committed.large
            THEN isLarge ELSE isSidebarVisible
  BY <1>5, <1>12 DEF SidebarAfter, ReminderTypes
\* The effects of the reminder.
<1>14. IF Changed({"route", "sidebar", "large"})
       THEN phase' = Followed(Entered) /\ wasCluster' = getIsClusterRoute
       ELSE UNCHANGED <<phase, wasCluster>>
  BY DEF Commit
<1>15. /\ reminded' \in BOOLEAN
       /\ reminded' <=> reminded \/ (Changed({"phase"}) /\ phase = "visible")
  BY DEF Commit
<1>16. seen' = IF isAllClustersReminderVisible /\ Changed({"reminder"})
               THEN seen + 1 ELSE seen
  BY DEF Commit
<1>17. phase' = Followed(Entered) /\ wasCluster' = getIsClusterRoute
  <2>1. CASE Changed({"route", "sidebar", "large"})
    BY <2>1, <1>14
  <2>2. CASE ~Changed({"route", "sidebar", "large"})
    <3>1. /\ committed.mounted /\ getIsClusterRoute = committed.route
          /\ isSidebarVisible = committed.sidebar
          /\ isLarge = committed.large
      BY <2>2, <1>3
    <3>2. /\ phase' = phase /\ wasCluster' = wasCluster
          /\ wasCluster = getIsClusterRoute
      BY <2>2, <3>1, <1>14 DEF OneAtATime
    <3>3. Entered = phase
      BY <3>2 DEF Entered, PhasesOK, getEntryPhase
    <3>4. Followed(phase) = phase
      BY <3>1, <3>2 DEF Followed, PhasesOK
    <3> QED
      BY <3>2, <3>3, <3>4
  <2> QED
    BY <2>1, <2>2
<1>18. phase' =
         IF ~getIsClusterRoute THEN "idle"
         ELSE IF ~wasCluster
              THEN IF reminded THEN "shown"
                   ELSE IF ~isSidebarVisible THEN "pending"
                   ELSE IF isLarge THEN "visible"
                   ELSE "awaiting-sidebar-close"
         ELSE IF phase = "visible" /\ ~isSidebarVisible THEN "shown"
         ELSE IF phase = "awaiting-sidebar-close" THEN "pending"
         ELSE IF phase = "pending" /\ isSidebarVisible THEN "visible"
         ELSE phase
  <2>1. Entered = IF ~getIsClusterRoute THEN "idle"
                  ELSE IF wasCluster THEN phase ELSE getEntryPhase
    BY DEF Entered, getEntryPhase
  <2>2. phase = "awaiting-sidebar-close" => ~isSidebarVisible
    BY DEF PhasesOK, Unmounted, getEntryPhase, ReminderTypes
  <2> QED
    BY <1>17, <2>1, <2>2 DEF Followed, getEntryPhase
<1>19. phase' \in ReminderPhases
  BY <1>18 DEF ReminderPhases, ReminderTypes
\* What a reminder about to appear finds.
<1>20. phase' = "visible" =>
         /\ getIsClusterRoute /\ isSidebarVisible
         /\ phase = "visible" \/ ~reminded
  BY <1>18 DEF PhasesOK
<1>21. phase' = "visible" /\ phase # "visible" =>
         getIsClusterRoute' /\ isSidebarVisible'
  <2> SUFFICES ASSUME phase' = "visible", phase # "visible"
               PROVE  getIsClusterRoute' /\ isSidebarVisible'
    OBVIOUS
  <2>1. ~AsksForCluster
    BY <1>3, <1>8, <1>14
  <2>2. getIsClusterRoute'
    BY <2>1, <1>11, <1>20
  <2>3. \/ isLarge
        \/ ~moved /\ committed.mounted /\ committed.large = isLarge
    BY <1>18 DEF PhasesOK, Unmounted, getEntryPhase
  <2>4. isSidebarVisible'
    BY <1>13, <1>20, <2>3
  <2> QED
    BY <2>2, <2>4
\* The first render with the reminder is the one that notes it.
<1>22. /\ phase = "visible" /\ (~committed.mounted \/ committed.phase # "visible") =>
             /\ phase' = "visible"
             /\ reminded' /\ ~reminded /\ seen' = seen + 1
       /\ ~(phase = "visible" /\ (~committed.mounted \/ committed.phase # "visible")) =>
             (reminded' <=> reminded) /\ seen' = seen
  <2>1. isAllClustersReminderVisible <=>
          getIsClusterRoute /\ isSidebarVisible /\ phase = "visible"
    BY DEF isAllClustersReminderVisible
  <2>2. CASE phase = "visible" /\ (~committed.mounted \/ committed.phase # "visible")
    <3>1. getIsClusterRoute /\ isSidebarVisible /\ ~reminded
      BY <2>2 DEF ReminderOK
    <3>2. ~committed.mounted \/ ~committed.reminder
      BY <2>2 DEF ReminderOK
    <3>3. Changed({"phase"}) /\ Changed({"reminder"})
      BY <2>1, <2>2, <3>1, <3>2, <1>4, <1>6
    <3>4. phase' = "visible"
      BY <2>2, <3>1, <1>18 DEF PhasesOK
    <3> QED
      BY <2>1, <2>2, <3>1, <3>3, <3>4, <1>15, <1>16
  <2>3. CASE ~(phase = "visible" /\ (~committed.mounted \/ committed.phase # "visible"))
    <3>1. ~(phase = "visible" /\ Changed({"phase"}))
      BY <2>3, <1>4
    <3>2. ~(isAllClustersReminderVisible /\ Changed({"reminder"}))
      BY <2>1, <2>3, <1>6 DEF ReminderOK, ReminderTypes, Renders
    <3>3. reminded' <=> reminded
      BY <3>1, <1>15
    <3>4. seen' = seen
      BY <3>2, <1>16
    <3> QED
      BY <2>3, <3>3, <3>4
  <2> QED
    BY <2>2, <2>3
<1>23. ShellTypes' /\ Unmounted' /\ MenusFollow'
  <2>1. Rendered \in Renders
    BY DEF Rendered, Renders, getIsClusterRoute,
           isAllClustersReminderVisible, ReminderTypes, ListTypes
  <2>2. seen' \in Nat
    BY <1>16 DEF ReminderTypes
  <2>3. invited' \in BOOLEAN
    BY DEF Commit, ListTypes, AsksForCluster
  <2>4. wasCluster' \in BOOLEAN
    BY <1>17 DEF getIsClusterRoute
  <2>5. PlaceTypes' /\ ListTypes'
    BY <1>2, <1>10, <1>11, <2>3 DEF PlaceTypes, ListTypes
  <2>6. ReminderTypes'
    BY <1>1, <1>2, <1>12, <1>15, <1>19, <2>1, <2>2, <2>4
       DEF ReminderTypes
  <2>7. MenuTypes' /\ MenusFollow'
    BY <1>2, MenusStay
  <2> QED
    BY <1>1, <2>5, <2>6, <2>7 DEF Unmounted
<1>24. OneAtATime'
  BY <1>1, <1>2, <1>10, <1>11, <1>17 DEF OneAtATime
<1>25. PhasesOK'
  <2>1. phase' = "idle" <=> ~wasCluster'
    BY <1>17, <1>18 DEF PhasesOK
  <2>2. phase' = "pending" => ~isSidebarVisible
    BY <1>18 DEF PhasesOK, Unmounted, getEntryPhase
  <2>3. phase' \in {"awaiting-sidebar-close", "pending"} => ~reminded'
    BY <1>18, <1>22 DEF PhasesOK, ReminderOK
  <2>4. phase' = "shown" => reminded'
    BY <1>18, <1>22 DEF PhasesOK, ReminderOK
  <2>5. phase' = "awaiting-sidebar-close" =>
          isSidebarVisible /\ ~isSidebarVisible'
    <3>1. phase' = "awaiting-sidebar-close" =>
            /\ isSidebarVisible /\ ~isLarge /\ getIsClusterRoute /\ ~wasCluster
      BY <1>18
    <3>2. getIsClusterRoute /\ ~wasCluster => moved
      BY DEF OneAtATime, Unmounted
    <3> QED
      BY <3>1, <3>2, <1>13
  <2>6. phase' = "pending" /\ isSidebarVisible' /\ ~isLarge' => FALSE
    BY <2>2, <1>2, <1>13
  <2> QED
    BY <2>1, <2>2, <2>3, <2>4, <2>5, <2>6, <1>1, <1>20 DEF PhasesOK
<1>26. ReminderOK'
  <2>1. seen' <= 1 /\ (reminded' <=> seen' = 1)
    BY <1>22 DEF ReminderOK, ReminderTypes
  <2>2. isAllClustersReminderVisible => phase = "visible"
    BY DEF isAllClustersReminderVisible
  <2>3. phase' = "visible" /\ phase = "visible" =>
          isAllClustersReminderVisible /\ reminded'
    BY <1>20, <1>22 DEF isAllClustersReminderVisible, ReminderOK
  <2>4. phase' = "visible" /\ phase # "visible" =>
          getIsClusterRoute' /\ isSidebarVisible' /\ ~reminded'
    BY <1>20, <1>21, <1>22
  <2> QED
    BY <2>1, <2>2, <2>3, <2>4, <1>1 DEF ReminderOK
\* The address.
<1>27. AddressKept'
  <2>1. isFetched => isFetched'
    BY <1>2 DEF isFetched
  <2>2. CASE AsksForCluster
    BY <2>1, <2>2, <1>2, <1>8, <1>10 DEF AddressKept
  <2>3. CASE ~AsksForCluster /\ NavigatesToBrokers
    <3>1. at # asked => asked.page = "cluster" /\ at.name = asked.name
      <4>1. at # NewConfig
        BY <2>3, <1>9, PlacesExist DEF getIsClusterRoute
      <4> QED
        BY <4>1, PlacesExist, PlaceShape DEF AddressKept, PlaceTypes
    <3>2. asked.page = "cluster"
      BY <2>3, <1>9, <3>1 DEF getIsClusterRoute
    <3>3. at.name = asked.name
      BY <3>1
    <3> QED
      BY <2>1, <2>3, <3>2, <3>3, <1>2, <1>9, <1>10 DEF AddressKept
  <2>4. CASE ~AsksForCluster /\ ~NavigatesToBrokers
    BY <2>1, <2>4, <1>2, <1>10 DEF AddressKept
  <2> QED
    BY <2>2, <2>3, <2>4
<1>28. InvitedOK'
  <2>1. dynamic /\ Empty => invited'
    BY <1>7 DEF InvitedOK, Commit, AsksForCluster, ListTypes
  <2>2. Empty' <=> Empty
    BY <1>2 DEF Empty
  <2> QED
    BY <2>1, <2>2, <1>2 DEF InvitedOK
<1> QED
  BY <1>23, <1>24, <1>25, <1>26, <1>27, <1>28

\* An event reaches a frame at rest and touches one thing: the window or the
\* side bar, the address, the list, or a reminder that ends.
LEMMA RestStep ==
    ASSUME ShellInv, Rested, committed' = committed,
           UNCHANGED <<wasCluster, reminded, seen>>,
           phase' = phase \/ (phase = "visible" /\ phase' = "shown"),
           isLarge' \in BOOLEAN, isSidebarVisible' \in BOOLEAN,
           isLarge' = isLarge \/ isSidebarVisible' = isSidebarVisible,
           moved' => isLarge' = isLarge /\ isSidebarVisible' = isSidebarVisible,
           ~moved' => getIsClusterRoute' = getIsClusterRoute,
           \/ clusters' = clusters /\ dynamic' = dynamic
           \/ /\ ~moved' /\ phase' = phase /\ isLarge' = isLarge
              /\ isSidebarVisible' = isSidebarVisible
    PROVE  ReminderTypes' /\ Unmounted' /\ OneAtATime' /\ PhasesOK'
           /\ ReminderOK'
<1> USE DEF ShellInv, ShellTypes
<1>1. /\ committed.mounted /\ committed.route = getIsClusterRoute
      /\ committed.large = isLarge /\ committed.sidebar = isSidebarVisible
      /\ committed.phase = phase /\ committed.clusters = clusters
      /\ committed.dynamic = dynamic /\ ~moved
  BY AtRest
<1>2. /\ wasCluster' = wasCluster /\ reminded' = reminded /\ seen' = seen
      /\ phase # "awaiting-sidebar-close"
      /\ phase = "pending" => ~isSidebarVisible
      /\ phase = "visible" => committed.reminder /\ reminded
  BY <1>1 DEF PhasesOK, ReminderOK
<1>3. ReminderTypes'
  BY <1>2 DEF ReminderTypes, ReminderPhases
<1>4. Unmounted' /\ OneAtATime'
  BY <1>1, <1>2 DEF Unmounted, OneAtATime
<1>5. PhasesOK'
  <2>1. /\ phase' = "idle" <=> ~wasCluster
        /\ phase' \notin {"awaiting-sidebar-close"}
        /\ phase' = "pending" => ~reminded /\ ~committed.sidebar
        /\ phase' = "shown" => reminded
        /\ phase' = "visible" => committed.route /\ committed.sidebar
    BY <1>1, <1>2 DEF PhasesOK
  <2>2. phase' = "pending" /\ isSidebarVisible' => ~moved' /\ isLarge' = isLarge
    BY <1>1, <1>2
  <2> QED
    BY <1>1, <1>2, <2>1, <2>2 DEF PhasesOK
<1>6. ReminderOK'
  BY <1>1, <1>2 DEF ReminderOK
<1> QED
  BY <1>3, <1>4, <1>5, <1>6

\* The window, the side bar and the reminder's timers.
LEMMA ScreenStep ==
    ASSUME ShellInv,
           onBurgerClick \/ checkScreenSize \/ dismissAllClustersReminder
    PROVE  ShellInv'
<1> USE DEF ShellInv, ShellTypes
<1>1. /\ Rested /\ committed' = committed
      /\ at' = at /\ asked' = asked /\ moved' = moved
      /\ clusters' = clusters /\ dynamic' = dynamic /\ invited' = invited
      /\ UNCHANGED <<wasCluster, reminded, seen>>
      /\ UNCHANGED <<folds, isOpen, events>>
      /\ phase' = phase \/ (phase = "visible" /\ phase' = "shown")
  BY DEF onBurgerClick, checkScreenSize, dismissAllClustersReminder,
         isAllClustersReminderVisible, placeVars, reminderVars, listVars,
         menuVars
<1>2. /\ isLarge' \in BOOLEAN /\ isSidebarVisible' \in BOOLEAN
      /\ isLarge' = isLarge \/ isSidebarVisible' = isSidebarVisible
  BY DEF onBurgerClick, checkScreenSize, dismissAllClustersReminder,
         screenVars, ReminderTypes
<1>3. ~moved
  BY <1>1, AtRest
<1>4. ReminderTypes' /\ Unmounted' /\ OneAtATime' /\ PhasesOK' /\ ReminderOK'
  BY <1>1, <1>2, <1>3, RestStep DEF getIsClusterRoute
<1>5. MenuTypes' /\ MenusFollow'
  BY <1>1, MenusStay
<1>6. PlaceTypes' /\ ListTypes' /\ AddressKept' /\ InvitedOK'
  BY <1>1 DEF PlaceTypes, ListTypes, AddressKept, InvitedOK, isFetched, Empty
<1> QED
  BY <1>4, <1>5, <1>6

\* Later answers: the server's features, and no list.
LEMMA AnswerStep ==
    ASSUME ShellInv, GlobalSettingsProvider \/ ClustersFail
    PROVE  ShellInv'
<1> USE DEF ShellInv, ShellTypes
<1>1. /\ Rested /\ committed' = committed
      /\ at' = at /\ asked' = asked /\ moved' = moved
      /\ invited' = invited /\ phase' = phase
      /\ isLarge' = isLarge /\ isSidebarVisible' = isSidebarVisible
      /\ UNCHANGED <<wasCluster, reminded, seen>>
      /\ UNCHANGED <<folds, isOpen, events>>
  BY DEF GlobalSettingsProvider, ClustersFail, placeVars, reminderVars,
         screenVars, menuVars
<1>2. \/ dynamic' = TRUE /\ ~dynamic /\ clusters' = clusters
      \/ /\ dynamic' = dynamic /\ clusters.is = "loading"
         /\ clusters' = ClusterList("failed", <<>>)
  BY DEF GlobalSettingsProvider, ClustersFail, listVars
<1>3. ~moved /\ committed.clusters = clusters /\ committed.dynamic = dynamic
  BY <1>1, AtRest
<1>4. ReminderTypes' /\ Unmounted' /\ OneAtATime' /\ PhasesOK' /\ ReminderOK'
  BY <1>1, <1>3, RestStep DEF getIsClusterRoute, ReminderTypes
<1>5. clusters' \in ClusterLists /\ dynamic' \in BOOLEAN
  <2>1. ClusterList("failed", <<>>) \in ClusterLists
    BY NoListIsAList DEF ClusterLists, ClusterList
  <2> QED
    BY <1>2, <2>1 DEF ListTypes
<1>6. PlaceTypes' /\ ListTypes'
  BY <1>1, <1>2, <1>5, NoListIsAList DEF PlaceTypes, ListTypes, ClusterList
<1>7. AddressKept' /\ InvitedOK'
  BY <1>1, <1>2, <1>3
     DEF AddressKept, InvitedOK, isFetched, Empty, ClusterList
<1>8. MenuTypes' /\ MenusFollow'
  <2>1. clusters'.data = clusters.data \/ DOMAIN clusters'.data = {}
    BY <1>2, NoListIsAList DEF ClusterList
  <2>2. DOMAIN clusters'.data = DOMAIN clusters.data
    BY <1>2, <2>1 DEF ListTypes
  <2> QED
    BY <1>1, <2>2, MenusStay
<1> QED
  BY <1>4, <1>6, <1>7, <1>8

\* The listed clusters are clusters.
LEMMA ListedNames ==
    ASSUME NEW list \in Lists PROVE DOMAIN list \subseteq ClusterNames
  BY DEF Lists

\* What is written to the storage is what the subscribed menus show.
LEMMA WriteStep ==
    ASSUME ListTypes, MenuTypes, MenusFollow, NEW C, NEW open \in BOOLEAN,
           Write(C, open), events' = events, clusters' = clusters
    PROVE  MenuTypes' /\ MenusFollow'
<1>1. /\ folds' \in [ClusterNames -> {"unset", "open", "folded"}]
      /\ \A c \in ClusterNames :
            folds'[c] = IF c \in C THEN IF open THEN "open" ELSE "folded"
                        ELSE folds[c]
  BY DEF Write, MenuTypes
<1>2. /\ isOpen' \in [DOMAIN clusters.data -> BOOLEAN]
      /\ DOMAIN isOpen = DOMAIN clusters.data
      /\ \A c \in DOMAIN isOpen :
            isOpen'[c] <=> IF c \in C THEN open ELSE isOpen[c]
  BY DEF Write, MenuTypes
<1>3. MenuTypes'
  BY <1>1, <1>2 DEF MenuTypes
<1>4. DOMAIN isOpen' = DOMAIN clusters.data
      /\ DOMAIN clusters.data \subseteq ClusterNames
  BY <1>2, ListedNames DEF ListTypes, ClusterLists
<1>5. ASSUME NEW c \in DOMAIN isOpen' \ events', folds'[c] # "unset"
      PROVE  isOpen'[c] <=> folds'[c] = "open"
  <2>1. c \in DOMAIN isOpen \ events /\ c \in ClusterNames
    BY <1>2, <1>4
  <2>2. CASE c \in C
    BY <1>1, <1>2, <2>1, <2>2
  <2>3. CASE c \notin C
    <3>1. isOpen'[c] <=> isOpen[c]
      BY <1>2, <2>1, <2>3
    <3>2. folds'[c] = folds[c]
      BY <1>1, <2>1, <2>3
    <3> QED
      BY <3>1, <3>2, <1>5, <2>1 DEF MenusFollow
  <2> QED
    BY <2>2, <2>3
<1>6. MenusFollow'
  BY <1>5 DEF MenusFollow
<1> QED
  BY <1>3, <1>6

\* A move by the user leaves the frame as it was, but for the menus.
LEMMA MoveStep ==
    ASSUME ShellInv, NEW p \in Places, NavigateTo(p),
           MenuTypes', MenusFollow'
    PROVE  ShellInv'
<1> USE DEF ShellInv, ShellTypes
<1>1. /\ Rested /\ committed' = committed
      /\ at' = p /\ asked' = p /\ moved' = TRUE
      /\ clusters' = clusters /\ dynamic' = dynamic /\ invited' = invited
      /\ phase' = phase
      /\ isLarge' = isLarge /\ isSidebarVisible' = isSidebarVisible
      /\ UNCHANGED <<wasCluster, reminded, seen>>
  BY DEF NavigateTo, screenVars, reminderVars, listVars
<1>2. ReminderTypes' /\ Unmounted' /\ OneAtATime' /\ PhasesOK' /\ ReminderOK'
  BY <1>1, RestStep DEF ReminderTypes
<1>3. PlaceTypes' /\ ListTypes' /\ AddressKept' /\ InvitedOK'
  BY <1>1 DEF PlaceTypes, ListTypes, AddressKept, InvitedOK, Empty
<1> QED
  BY <1>2, <1>3

\* Links, and steps through the history.
LEMMA LinkStep ==
    ASSUME ShellInv, NEW p \in Places, Link(p) PROVE ShellInv'
<1>1. NavigateTo(p) /\ UNCHANGED <<folds, isOpen, events>>
      /\ clusters' = clusters
  BY DEF Link, NavigateTo, listVars
<1>2. MenuTypes' /\ MenusFollow'
  BY <1>1, MenusStay DEF ShellInv, ShellTypes
<1> QED
  BY <1>1, <1>2, MoveStep

\* The "All clusters" link folds every menu, the name of a cluster opens its
\* own.
LEMMA MenuMoveStep ==
    ASSUME ShellInv,
           AllClusters \/ \E c \in ClusterNames : handleClusterNameClick(c)
    PROVE  ShellInv'
<1>1. ListTypes /\ MenuTypes /\ MenusFollow
  BY DEF ShellInv, ShellTypes
<1>2. CASE AllClusters
  <2>1. /\ Write(DOMAIN isOpen, FALSE) /\ NavigateTo(Home)
        /\ events' = events /\ clusters' = clusters
    BY <1>2 DEF AllClusters, collapseAllClusterMenus, NavigateTo, listVars
  <2>2. MenuTypes' /\ MenusFollow'
    BY <1>1, <2>1, WriteStep
  <2> QED
    BY <2>1, <2>2, MoveStep, PlacesExist
<1>3. ASSUME NEW c \in ClusterNames, handleClusterNameClick(c)
      PROVE  ShellInv'
  <2>1. /\ NavigateTo(InCluster(c, "brokers"))
        /\ events' = events /\ clusters' = clusters
        /\ UNCHANGED <<folds, isOpen>> \/ Write({c}, TRUE)
    BY <1>3 DEF handleClusterNameClick, NavigateTo, listVars
  <2>2. MenuTypes' /\ MenusFollow'
    BY <1>1, <2>1, WriteStep, MenusStay
  <2> QED
    BY <2>1, <2>2, MoveStep, PlacesExist
<1> QED
  BY <1>2, <1>3

\* A menu is folded or unfolded, here or in another tab, or told of it.
LEMMA FoldStep ==
    ASSUME ShellInv, NEW c \in ClusterNames,
           \/ handleToggleMenu(c) \/ handleStorageEvent(c)
           \/ \E fold \in {"open", "folded"} : OtherTab(c, fold)
    PROVE  ShellInv'
<1> USE DEF ShellInv, ShellTypes
<1>1. /\ Rested /\ committed' = committed
      /\ at' = at /\ asked' = asked /\ moved' = moved
      /\ clusters' = clusters /\ dynamic' = dynamic /\ invited' = invited
      /\ phase' = phase
      /\ isLarge' = isLarge /\ isSidebarVisible' = isSidebarVisible
      /\ UNCHANGED <<wasCluster, reminded, seen>>
  BY DEF handleToggleMenu, handleStorageEvent, OtherTab, placeVars,
         screenVars, reminderVars, listVars
<1>2. ~moved
  BY <1>1, AtRest
<1>3. ReminderTypes' /\ Unmounted' /\ OneAtATime' /\ PhasesOK' /\ ReminderOK'
  BY <1>1, <1>2, RestStep DEF ReminderTypes, getIsClusterRoute
<1>4. PlaceTypes' /\ ListTypes' /\ AddressKept' /\ InvitedOK'
  BY <1>1 DEF PlaceTypes, ListTypes, AddressKept, InvitedOK, Empty, isFetched
<1>5. CASE handleToggleMenu(c)
  <2>1. Write({c}, ~isOpen[c]) /\ events' = events
    BY <1>5 DEF handleToggleMenu
  <2>2. MenuTypes' /\ MenusFollow'
    BY <2>1, <1>1, WriteStep DEF MenuTypes
  <2> QED
    BY <1>3, <1>4, <2>2
<1>6. CASE handleStorageEvent(c)
  <2>1. /\ events' = events \ {c} /\ folds' = folds
        /\ isOpen' = [d \in DOMAIN isOpen |->
                        IF d = c THEN folds[c] = "open" ELSE isOpen[d]]
    BY <1>6 DEF handleStorageEvent
  <2>2. MenuTypes'
    BY <1>1, <2>1 DEF MenuTypes
  <2>3. MenusFollow'
    BY <2>1 DEF MenusFollow, MenuTypes
  <2> QED
    BY <1>3, <1>4, <2>2, <2>3
<1>7. ASSUME NEW fold \in {"open", "folded"}, OtherTab(c, fold)
      PROVE  ShellInv'
  <2>1. /\ events' = events \cup {c} /\ isOpen' = isOpen
        /\ folds' = [folds EXCEPT ![c] = fold]
    BY <1>7 DEF OtherTab
  <2>2. MenuTypes'
    BY <1>1, <2>1 DEF MenuTypes
  <2>3. MenusFollow'
    BY <2>1 DEF MenusFollow, MenuTypes
  <2> QED
    BY <1>3, <1>4, <2>2, <2>3
<1> QED
  BY <1>5, <1>6, <1>7

\* A list of clusters comes, and mounts and unmounts menus.
LEMMA ListStep ==
    ASSUME ShellInv, NEW list \in Lists, useClusters(list) PROVE ShellInv'
<1> USE DEF ShellInv, ShellTypes
<1>1. /\ Rested /\ committed' = committed
      /\ at' = at /\ asked' = asked /\ moved' = moved
      /\ dynamic' = dynamic /\ phase' = phase
      /\ isLarge' = isLarge /\ isSidebarVisible' = isSidebarVisible
      /\ UNCHANGED <<wasCluster, reminded, seen>>
      /\ folds' = folds /\ events' = events
      /\ clusters' = ClusterList("success", list) /\ clusters' # clusters
      /\ invited' = FALSE
      /\ isOpen' = [c \in DOMAIN list |->
                      IF c \in DOMAIN isOpen THEN isOpen[c]
                      ELSE initiallyOpen(c, DOMAIN list)]
  BY DEF useClusters, placeVars, screenVars, reminderVars
<1>2. /\ clusters'.is = "success" /\ clusters'.data = list
      /\ clusters' \in ClusterLists
      /\ ~moved /\ committed.clusters = clusters
  BY <1>1, AtRest DEF ClusterList, ClusterLists
<1>3. ReminderTypes' /\ Unmounted' /\ OneAtATime' /\ PhasesOK' /\ ReminderOK'
  BY <1>1, <1>2, RestStep DEF ReminderTypes, getIsClusterRoute
<1>4. PlaceTypes' /\ ListTypes' /\ AddressKept' /\ InvitedOK'
  BY <1>1, <1>2 DEF PlaceTypes, ListTypes, AddressKept, InvitedOK, isFetched
<1>5. \A c \in DOMAIN list : initiallyOpen(c, DOMAIN list) \in BOOLEAN
  BY DEF initiallyOpen, getIsClusterRoute
<1>6. MenuTypes'
  BY <1>1, <1>2, <1>5 DEF MenuTypes
<1>7. MenusFollow'
  <2> SUFFICES ASSUME NEW c \in DOMAIN list \ events, folds[c] # "unset"
               PROVE  isOpen'[c] <=> folds[c] = "open"
    BY <1>1 DEF MenusFollow
  <2>1. CASE c \in DOMAIN isOpen
    BY <1>1, <2>1 DEF MenusFollow
  <2>2. CASE c \notin DOMAIN isOpen
    <3>1. isOpen'[c] <=> initiallyOpen(c, DOMAIN list)
      BY <1>1, <2>2
    <3> QED
      BY <3>1 DEF initiallyOpen
  <2> QED
    BY <2>1, <2>2
<1> QED
  BY <1>3, <1>4, <1>6, <1>7

LEMMA ShellStep ==
    ASSUME ShellInv, ShellNext \/ UNCHANGED shellVars PROVE ShellInv'
<1>1. CASE Commit
  BY <1>1, CommitStep
<1>2. CASE onBurgerClick \/ checkScreenSize \/ dismissAllClustersReminder
  BY <1>2, ScreenStep
<1>3. CASE GlobalSettingsProvider \/ ClustersFail
  BY <1>3, AnswerStep
<1>4. CASE \E list \in Lists : useClusters(list)
  BY <1>4, ListStep
<1>5. CASE AllClusters \/ \E c \in ClusterNames : handleClusterNameClick(c)
  BY <1>5, MenuMoveStep
<1>6. CASE \E c \in ClusterNames :
             \/ handleToggleMenu(c) \/ handleStorageEvent(c)
             \/ \E fold \in {"open", "folded"} : OtherTab(c, fold)
  BY <1>6, FoldStep
<1>7. CASE \E p \in Places : Link(p)
  BY <1>7, LinkStep
<1>8. BrandLink \/ ConfigureNewCluster
      \/ (\E p \in Places : History(p))
      \/ (\E c \in ClusterNames :
             onRowClick(c) \/ \E s \in Sections : MenuItem(c, s))
      => \E p \in Places : Link(p)
  BY PlacesExist
     DEF BrandLink, ConfigureNewCluster, History, onRowClick, MenuItem
<1>9. CASE UNCHANGED shellVars
  <2>1. /\ UNCHANGED <<at, moved, asked, isLarge, isSidebarVisible, phase>>
        /\ UNCHANGED <<wasCluster, reminded, seen, clusters, dynamic>>
        /\ UNCHANGED <<invited, folds, isOpen, events, committed>>
    BY <1>9 DEF shellVars, placeVars, screenVars, reminderVars, listVars,
                menuVars
  <2>2. ShellTypes'
    BY <2>1 DEF ShellInv, ShellTypes, PlaceTypes, ReminderTypes, ListTypes,
                MenuTypes
  <2>3. getIsClusterRoute' = getIsClusterRoute /\ getEntryPhase' = getEntryPhase
    BY <2>1 DEF getIsClusterRoute, getEntryPhase
  <2>4. Unmounted' /\ OneAtATime' /\ PhasesOK' /\ ReminderOK'
    BY <2>1, <2>3 DEF ShellInv, Unmounted, OneAtATime, PhasesOK, ReminderOK
  <2>5. AddressKept' /\ InvitedOK' /\ MenusFollow'
    BY <2>1 DEF ShellInv, AddressKept, InvitedOK, MenusFollow, isFetched,
                Empty
  <2> QED
    BY <2>2, <2>4, <2>5 DEF ShellInv
<1> QED
  BY <1>1, <1>2, <1>3, <1>4, <1>5, <1>6, <1>7, <1>8, <1>9 DEF ShellNext

LEMMA ShellInvIsSafe == ShellInv => ShellSafe
<1> SUFFICES ASSUME ShellInv PROVE ShellSafe
  OBVIOUS
<1>1. ShellTypeOK
  BY DEF ShellInv, ShellTypes, PlaceTypes, ReminderTypes, ListTypes,
         MenuTypes, ShellTypeOK, ReminderPhases, ClusterLists
<1>2. Rested =>
        /\ committed.mounted /\ committed.route = getIsClusterRoute
        /\ committed.sidebar = isSidebarVisible /\ committed.phase = phase
        /\ committed.clusters = clusters /\ committed.dynamic = dynamic
  BY AtRest
<1>3. RemindedOnce
  <2>1. Rested /\ getIsClusterRoute /\ isSidebarVisible => reminded
    BY <1>2
       DEF ShellInv, ShellTypes, ReminderTypes, ReminderPhases, OneAtATime,
           PhasesOK, ReminderOK
  <2> QED
    BY <2>1 DEF ShellInv, ReminderOK, RemindedOnce
<1>4. FormOffered
  BY <1>2 DEF ShellInv, InvitedOK, FormOffered
<1> QED
  BY <1>1, <1>3, <1>4 DEF ShellInv, ShellSafe

\* Whatever the order of the moves, the window's width, the side bar, the
\* lists and the answers of the server, the reminder appears once, the address
\* asked for is kept, an empty list leads to the form and menus show what is
\* remembered (useAllClustersReminder.ts, ClusterPage.tsx, PageContainer.tsx,
\* useLocalStorage.ts).
THEOREM TheFrameIsSound == Spec => []ShellSafe
<1>1. Init => ShellInv
  BY ShellStarts DEF Init
<1>2. ShellInv /\ [Next]_workbenchVars => ShellInv'
  <2>1. [Next]_workbenchVars => ShellNext \/ UNCHANGED shellVars
    BY DEF Next, workbenchVars, OnKsql, OnTopic, OnFilters, OnProduce,
           OnUpdates, OnShell, shellVars
  <2> QED
    BY <2>1, ShellStep
<1> QED
  BY <1>1, <1>2, ShellInvIsSafe, PTL DEF Spec

----------------------------------------------------------------------------
(* Saved filters: their inductive invariant *)

Pairs == [active : Labels \cup {"none"}, code : Codes \cup {"none"}]
BothOrNone(p) == p.active = "none" <=> p.code = "none"
Applied == [active |-> place.active, code |-> place.code]
StoreTypes ==
    DOMAIN saved \subseteq Labels /\ \A l \in DOMAIN saved : saved[l] \in Codes
FieldsTypes ==
    fields \in [Topics -> Pairs] /\ \A t \in Topics : BothOrNone(fields[t])
AddressTypes ==
    place.topic \in Topics /\ Applied \in Pairs /\ BothOrNone(place)

\* A registration carries a name that was free when it was sent, or the
\* filter's own.
RegistersOK ==
    \A r \in registers :
        /\ r.topic \in Topics /\ r.label \in Labels /\ r.code \in Codes
        /\ r.own \in Labels \cup {"none"}
        /\ r.own = r.label \/ r.free

FilterInv ==
    /\ StoreTypes /\ FieldsTypes /\ AddressTypes
    /\ sideBar.for \in Labels \cup {Closed, ADD_FILTER_ID}
    /\ left \subseteq Topics /\ cleared \in BOOLEAN
    /\ RegistersOK /\ RememberedIsCurrent /\ AppliedIsRemembered

\* What is restored or applied is a pair, and goes to the address.
LEMMA Restored ==
    ASSUME NEW t \in Topics, NEW pair \in Pairs, BothOrNone(pair),
           place' = At(t, pair)
    PROVE  place'.topic = t /\ Applied' = pair /\ AddressTypes'
<1>1. place'.topic = t /\ place'.active = pair.active /\ place'.code = pair.code
  BY DEF At
<1>2. Applied' = pair
  BY <1>1 DEF Applied, Pairs
<1> QED
  BY <1>1, <1>2 DEF AddressTypes, BothOrNone
LEMMA NoneIsAPair == None \in Pairs /\ BothOrNone(None) /\ None.active = "none"
  BY DEF None, Pairs, BothOrNone
LEMMA FilterSet ==
    ASSUME FieldsTypes, NEW t \in Topics, NEW pair \in Pairs, BothOrNone(pair),
           SetFilter(t, pair)
    PROVE  /\ FieldsTypes' /\ AddressTypes' /\ cleared' = FALSE
           /\ place'.topic = t /\ Applied' = pair /\ fields'[t] = pair
           /\ \A u \in Topics \ {t} : fields'[u] = fields[u]
<1>1. fields' = [fields EXCEPT ![t] = pair] /\ cleared' = FALSE
      /\ place' = At(t, pair)
  BY DEF SetFilter, setStoredValue
<1>2. FieldsTypes' /\ fields'[t] = pair
      /\ \A u \in Topics \ {t} : fields'[u] = fields[u]
  BY <1>1 DEF FieldsTypes
<1> QED
  BY <1>1, <1>2, Restored

LEMMA FiltersStart ==
    ASSUME FiltersInit PROVE FilterInv
<1>1. PICK t \in Topics : place = At(t, None)
  BY DEF FiltersInit
<1>2. /\ saved = <<>> /\ fields = [u \in Topics |-> None]
      /\ sideBar.for = Closed
      /\ registers = {} /\ left = {} /\ cleared = FALSE
  BY DEF FiltersInit
<1>3. place.topic = t /\ Applied = None /\ AddressTypes
  BY <1>1, NoneIsAPair DEF At, Applied, None, AddressTypes, BothOrNone
<1>4. FieldsTypes /\ RememberedIsCurrent
  BY <1>2, NoneIsAPair DEF FieldsTypes, RememberedIsCurrent
<1>5. StoreTypes
  <2>1. DOMAIN saved = {}
    BY <1>2
  <2> QED
    BY <2>1 DEF StoreTypes
<1>6. AppliedIsRemembered
  BY <1>2, <1>3 DEF AppliedIsRemembered, Applied
<1> QED
  BY <1>2, <1>3, <1>4, <1>5, <1>6 DEF FilterInv, RegistersOK

\* Coming to a topic, and loading its address.
LEMMA VisitStep ==
    ASSUME FilterInv, NEW t \in Topics, Visit(t) PROVE FilterInv'
<1> USE DEF FilterInv
<1>1. /\ place' = At(t, fields[t]) /\ cleared' = FALSE
      /\ sideBar' = [sideBar EXCEPT !.for = Closed]
      /\ UNCHANGED <<saved, fields, registers, left>>
  BY DEF Visit, getStorageValue
<1>2. fields[t] \in Pairs /\ BothOrNone(fields[t])
  BY DEF FieldsTypes
<1>3. place'.topic = t /\ Applied' = fields[t] /\ AddressTypes'
  BY <1>1, <1>2, Restored
<1>4. sideBar'.for \in Labels \cup {Closed, ADD_FILTER_ID}
  BY <1>1
<1>5. StoreTypes' /\ FieldsTypes' /\ RegistersOK' /\ RememberedIsCurrent'
      /\ left' \subseteq Topics
  BY <1>1 DEF StoreTypes, FieldsTypes, RegistersOK, RememberedIsCurrent
<1>6. AppliedIsRemembered'
  BY <1>1, <1>3 DEF AppliedIsRemembered, Applied
<1> QED
  BY <1>1, <1>3, <1>4, <1>5, <1>6
LEMMA ReloadStep ==
    ASSUME FilterInv, Reload PROVE FilterInv'
<1> USE DEF FilterInv
<1>1. /\ fields' = [fields EXCEPT ![place.topic] = Applied]
      /\ left' = IF cleared THEN left \cup {place.topic} ELSE left
      /\ registers' = {} /\ cleared' = FALSE /\ saved' = saved
      /\ place' = place /\ sideBar' = [sideBar EXCEPT !.for = Closed]
  BY DEF Reload, setStoredValue, Applied
<1>2. place.topic \in Topics /\ Applied \in Pairs /\ BothOrNone(Applied)
  BY DEF AddressTypes, BothOrNone, Applied
<1>3. FieldsTypes' /\ fields'[place.topic] = Applied
      /\ \A u \in Topics \ {place.topic} : fields'[u] = fields[u]
  BY <1>1, <1>2 DEF FieldsTypes
<1>4. StoreTypes' /\ AddressTypes' /\ RegistersOK' /\ left' \subseteq Topics
      /\ cleared' \in BOOLEAN
      /\ sideBar'.for \in Labels \cup {Closed, ADD_FILTER_ID}
  <2>1. AddressTypes'
    BY <1>1 DEF AddressTypes, Applied, BothOrNone
  <2>2. sideBar'.for \in Labels \cup {Closed, ADD_FILTER_ID}
    BY <1>1
  <2>3. StoreTypes' /\ RegistersOK' /\ left' \subseteq Topics
    BY <1>1, <1>2 DEF StoreTypes, RegistersOK
  <2> QED
    BY <1>1, <2>1, <2>2, <2>3
<1>5. ~cleared => fields' = fields
  BY <1>1 DEF AppliedIsRemembered, FieldsTypes, Applied
<1>6. RememberedIsCurrent'
  BY <1>1, <1>3, <1>5 DEF RememberedIsCurrent
<1>7. AppliedIsRemembered'
  BY <1>1, <1>3 DEF AppliedIsRemembered, Applied
<1> QED
  BY <1>3, <1>4, <1>6, <1>7

\* The side bar opens and closes, and a registration fails.
LEMMA SideBarStep ==
    ASSUME FilterInv,
           \/ closeSideBar
           \/ \E l \in Labels \cup {ADD_FILTER_ID} : setFilterName(l)
           \/ \E r \in registers : RegisterFails(r)
    PROVE  FilterInv'
<1> USE DEF FilterInv
<1>1. /\ UNCHANGED <<saved, fields, place, left, cleared>>
      /\ registers' \subseteq registers
      /\ sideBar'.for \in Labels \cup {Closed, ADD_FILTER_ID}
  <2>1. CASE closeSideBar
    BY <2>1 DEF closeSideBar
  <2>2. CASE \E l \in Labels \cup {ADD_FILTER_ID} : setFilterName(l)
    BY <2>2 DEF setFilterName
  <2>3. CASE \E r \in registers : RegisterFails(r)
    BY <2>3 DEF RegisterFails
  <2> QED
    BY <2>1, <2>2, <2>3
<1>2. StoreTypes' /\ FieldsTypes' /\ AddressTypes' /\ RegistersOK'
  BY <1>1
     DEF StoreTypes, FieldsTypes, AddressTypes, Applied, BothOrNone, RegistersOK
<1>3. RememberedIsCurrent' /\ AppliedIsRemembered'
  BY <1>1 DEF RememberedIsCurrent, AppliedIsRemembered
<1> QED
  BY <1>1, <1>2, <1>3

\* A filter is applied, or none.
LEMMA ActivateStep ==
    ASSUME FilterInv,
           Deactivate \/ \E l \in Labels : activateFilter(l)
    PROVE  FilterInv'
<1> USE DEF FilterInv
<1>1. PICK pair \in Pairs :
        /\ BothOrNone(pair) /\ SetFilter(place.topic, pair)
        /\ \/ pair.active = "none"
           \/ pair.active \in DOMAIN saved /\ pair.code = saved[pair.active]
        /\ left' = left \ {place.topic}
        /\ UNCHANGED <<saved, registers>>
        /\ sideBar'.for \in Labels \cup {Closed, ADD_FILTER_ID}
  <2>1. CASE Deactivate
    BY <2>1, NoneIsAPair DEF Deactivate, Unset
  <2>2. ASSUME NEW l \in Labels, activateFilter(l)
        PROVE  \E pair \in Pairs :
                 /\ BothOrNone(pair) /\ SetFilter(place.topic, pair)
                 /\ \/ pair.active = "none"
                    \/ /\ pair.active \in DOMAIN saved
                       /\ pair.code = saved[pair.active]
                 /\ left' = left \ {place.topic}
                 /\ UNCHANGED <<saved, registers>>
                 /\ sideBar'.for \in Labels \cup {Closed, ADD_FILTER_ID}
    <3> DEFINE pair == [active |-> l, code |-> saved[l]]
    <3>1. l \in DOMAIN saved /\ saved[l] \in Codes
          /\ SetFilter(place.topic, pair)
          /\ left' = left \ {place.topic} /\ UNCHANGED <<saved, registers>>
          /\ sideBar' = [sideBar EXCEPT !.for = Closed]
      BY <2>2 DEF activateFilter, StoreTypes
    <3>2. pair \in Pairs /\ BothOrNone(pair)
      BY <3>1, SavedFiltersBounds DEF Pairs, BothOrNone
    <3> QED
      BY <3>1, <3>2
  <2> QED
    BY <2>1, <2>2
<1>2. /\ FieldsTypes' /\ AddressTypes' /\ cleared' = FALSE
      /\ place'.topic = place.topic /\ Applied' = pair
      /\ fields'[place.topic] = pair
      /\ \A u \in Topics \ {place.topic} : fields'[u] = fields[u]
  BY <1>1, FilterSet DEF AddressTypes
<1>3. RememberedIsCurrent'
  BY <1>1, <1>2 DEF RememberedIsCurrent
<1>4. AppliedIsRemembered'
  BY <1>2 DEF AppliedIsRemembered, Applied
<1> QED
  BY <1>1, <1>2, <1>3, <1>4 DEF StoreTypes, RegistersOK

\* A filter, or every filter, is deleted.
LEMMA DeleteStep ==
    ASSUME FilterInv, NEW l \in Labels, deleteFilterHandler(l)
    PROVE  FilterInv'
<1> USE DEF FilterInv
<1>1. /\ l \in DOMAIN saved /\ saved' = drop(saved, l)
      /\ place' = At(place.topic, None) /\ cleared' = FALSE
      /\ left' = left \ (PointingAt(l) \cup {place.topic})
      /\ fields' = [t \in Topics |->
                      IF t \in PointingAt(l) \cup {place.topic} THEN None
                      ELSE fields[t]]
      /\ UNCHANGED <<sideBar, registers>>
  BY DEF deleteFilterHandler, removeFilterIfActive, setStoredValue, Unset
<1>2. place'.topic = place.topic /\ Applied' = None /\ AddressTypes'
  BY <1>1, NoneIsAPair, Restored DEF AddressTypes
<1>3. FieldsTypes'
  BY <1>1, NoneIsAPair DEF FieldsTypes
<1>4. /\ DOMAIN saved' = DOMAIN saved \ {l}
      /\ \A n \in DOMAIN saved' : saved'[n] = saved[n]
  BY <1>1 DEF drop
<1>5. StoreTypes'
  BY <1>4 DEF StoreTypes
<1>6. RememberedIsCurrent'
  <2> SUFFICES ASSUME NEW t \in Topics \ left', fields'[t].active # "none"
               PROVE  /\ fields'[t].active \in DOMAIN saved'
                      /\ fields'[t].code = saved'[fields'[t].active]
    BY DEF RememberedIsCurrent
  <2>1. t \notin PointingAt(l) \cup {place.topic} /\ fields'[t] = fields[t]
    BY <1>1, NoneIsAPair
  <2>2. fields[t].active # l /\ t \notin left
    BY <2>1, <1>1 DEF PointingAt
  <2> QED
    BY <2>1, <2>2, <1>4 DEF RememberedIsCurrent
<1>7. AppliedIsRemembered'
  BY <1>1, <1>2 DEF AppliedIsRemembered, Applied, AddressTypes
<1> QED
  BY <1>1, <1>2, <1>3, <1>5, <1>6, <1>7 DEF RegistersOK
LEMMA ClearStep ==
    ASSUME FilterInv, clearAll PROVE FilterInv'
<1> USE DEF FilterInv
<1>1. /\ saved' = <<>> /\ fields' = [t \in Topics |-> None]
      /\ left' = {} /\ cleared' = (place.active # "none")
      /\ UNCHANGED <<place, sideBar, registers>>
  BY DEF clearAll, setStoredValue
<1>2. StoreTypes' /\ FieldsTypes' /\ RememberedIsCurrent'
  <2>1. DOMAIN saved' = {}
    BY <1>1
  <2> QED
    BY <1>1, <2>1, NoneIsAPair
       DEF StoreTypes, FieldsTypes, RememberedIsCurrent
<1>3. AppliedIsRemembered'
  <2>1. place.active = "none" => Applied = None
    BY DEF AddressTypes, BothOrNone, Applied, None
  <2> QED
    BY <1>1, <2>1 DEF AppliedIsRemembered, Applied, AddressTypes
<1>4. AddressTypes'
  BY <1>1 DEF AddressTypes, Applied, BothOrNone
<1>5. cleared' \in BOOLEAN
  BY <1>1
<1> QED
  BY <1>1, <1>2, <1>3, <1>4, <1>5 DEF RegistersOK

\* A form is sent: its name is the filter's own, or free.
LEMMA SubmitStep ==
    ASSUME FilterInv, NEW l \in Labels, NEW c \in Codes, NEW given \in BOOLEAN,
           onSubmitFilter(l, c, given)
    PROVE  FilterInv'
<1> USE DEF FilterInv
<1> DEFINE own == IF sideBar.for \in DOMAIN saved THEN sideBar.for ELSE "none"
<1>1. /\ submitValidation(l, given, own)
      /\ registers' = registers \cup {registerFilter(l, c, own)}
      /\ UNCHANGED <<saved, fields, place, sideBar, left, cleared>>
  BY DEF onSubmitFilter
<1>2. own \in Labels \cup {"none"}
  BY DEF StoreTypes
<1>3. own = l \/ l \notin DOMAIN saved
  BY <1>1 DEF submitValidation
<1> HIDE DEF own
<1>4. RegistersOK'
  <2> DEFINE sent == registerFilter(l, c, own)
  <2>1. /\ sent.topic = place.topic /\ sent.label = l /\ sent.code = c
        /\ sent.own = own /\ sent.free = (l \notin DOMAIN saved)
    BY DEF registerFilter
  <2> HIDE DEF sent
  <2> QED
    BY <1>1, <1>2, <1>3, <2>1 DEF RegistersOK, AddressTypes, sent
<1>5. StoreTypes' /\ FieldsTypes' /\ AddressTypes'
  BY <1>1 DEF StoreTypes, FieldsTypes, AddressTypes, Applied, BothOrNone
<1>6. RememberedIsCurrent' /\ AppliedIsRemembered'
  BY <1>1 DEF RememberedIsCurrent, AppliedIsRemembered
<1> QED
  BY <1>1, <1>4, <1>5, <1>6

\* What a filter saved under its name, or a new one, leaves of the others.
LEMMA StoreReplaced ==
    ASSUME StoreTypes, NEW r \in registers, RegistersOK,
           saved' = replace(saved, r.own, r.label, r.code)
    PROVE  /\ StoreTypes' /\ r.label \in DOMAIN saved'
           /\ saved'[r.label] = r.code
           /\ \A l \in DOMAIN saved \ {r.own, r.label} :
                 l \in DOMAIN saved' /\ saved'[l] = saved[l]
           /\ \A l \in DOMAIN saved \ {r.label} :
                 l \in DOMAIN saved' => saved'[l] = saved[l]
<1>1. r.label \in Labels /\ r.code \in Codes
  BY DEF RegistersOK
<1>2. /\ DOMAIN saved' = (DOMAIN saved \ {r.own}) \cup {r.label}
      /\ \A l \in DOMAIN saved' :
            saved'[l] = IF l = r.label THEN r.code ELSE saved[l]
  BY DEF replace, put, drop
<1> QED
  BY <1>1, <1>2 DEF StoreTypes
LEMMA RegisteredStep ==
    ASSUME FilterInv, NEW r \in registers, Registered(r) PROVE FilterInv'
<1> USE DEF FilterInv
<1> DEFINE pair == [active |-> r.label, code |-> r.code]
           others == PointingAt(r.label)
                     \cup IF r.own = "none" THEN {} ELSE PointingAt(r.own)
           activates == r.own = "none" \/ r.active
<1>1. /\ registers' = registers \ {r}
      /\ saved' = replace(saved, r.own, r.label, r.code)
      /\ left' = (left \cup others) \ IF activates THEN {r.topic} ELSE {}
      /\ sideBar' = [sideBar EXCEPT !.for = Closed]
      /\ activates => SetFilter(r.topic, pair)
      /\ ~activates => UNCHANGED <<fields, place, cleared>>
  BY DEF Registered
<1>2. /\ r.topic \in Topics /\ r.label \in Labels /\ r.code \in Codes
      /\ r.own \in Labels \cup {"none"}
  BY DEF RegistersOK
<1>3. pair \in Pairs /\ BothOrNone(pair) /\ pair.active = r.label
      /\ pair.code = r.code
  BY <1>2, SavedFiltersBounds DEF Pairs, BothOrNone
<1>4. others \subseteq Topics
      /\ \A t \in Topics \ others :
            /\ fields[t].active # r.label
            /\ fields[t].active # "none" => fields[t].active # r.own
  BY DEF PointingAt
<1> HIDE DEF pair, others, activates
<1>5. /\ StoreTypes' /\ r.label \in DOMAIN saved' /\ saved'[r.label] = r.code
      /\ \A l \in DOMAIN saved \ {r.own, r.label} :
            l \in DOMAIN saved' /\ saved'[l] = saved[l]
  BY <1>1, StoreReplaced
<1>6. activates =>
        /\ FieldsTypes' /\ AddressTypes' /\ cleared' = FALSE
        /\ place'.topic = r.topic /\ Applied' = pair
        /\ fields'[r.topic] = pair
        /\ \A u \in Topics \ {r.topic} : fields'[u] = fields[u]
  BY <1>1, <1>2, <1>3, FilterSet
<1>7. FieldsTypes' /\ AddressTypes' /\ cleared' \in BOOLEAN
  <2>1. CASE activates
    BY <1>6, <2>1
  <2>2. CASE ~activates
    BY <1>1, <2>2 DEF FieldsTypes, AddressTypes, Applied, BothOrNone
  <2> QED
    BY <2>1, <2>2
<1>8. AppliedIsRemembered'
  <2>1. CASE activates
    BY <1>6, <2>1 DEF AppliedIsRemembered, Applied
  <2>2. CASE ~activates
    BY <1>1, <2>2 DEF AppliedIsRemembered
  <2> QED
    BY <2>1, <2>2
<1>9. RememberedIsCurrent'
  <2> SUFFICES ASSUME NEW t \in Topics \ left', fields'[t].active # "none"
               PROVE  /\ fields'[t].active \in DOMAIN saved'
                      /\ fields'[t].code = saved'[fields'[t].active]
    BY DEF RememberedIsCurrent
  <2>1. CASE activates /\ t = r.topic
    BY <1>3, <1>5, <1>6, <2>1
  <2>2. CASE ~(activates /\ t = r.topic)
    <3>1. fields'[t] = fields[t] /\ t \notin left /\ t \notin others
      BY <1>1, <1>6, <2>2
    <3>2. fields[t].active \in DOMAIN saved \ {r.own, r.label}
          /\ fields[t].code = saved[fields[t].active]
      BY <3>1, <1>4 DEF RememberedIsCurrent
    <3> QED
      BY <3>1, <3>2, <1>5
  <2> QED
    BY <2>1, <2>2
<1>10. left' \subseteq Topics
       /\ sideBar'.for \in Labels \cup {Closed, ADD_FILTER_ID}
  BY <1>1, <1>2, <1>4
<1>11. RegistersOK'
  BY <1>1 DEF RegistersOK
<1> QED
  BY <1>5, <1>7, <1>8, <1>9, <1>10, <1>11

LEMMA FilterStep ==
    ASSUME FilterInv, FiltersNext \/ UNCHANGED filterVars PROVE FilterInv'
<1>1. CASE UNCHANGED filterVars
  <2>1. UNCHANGED <<saved, fields, place, sideBar, registers, left, cleared>>
    BY <1>1 DEF filterVars
  <2> QED
    BY <2>1
       DEF FilterInv, StoreTypes, FieldsTypes, AddressTypes, Applied,
           BothOrNone, RegistersOK, RememberedIsCurrent, AppliedIsRemembered
<1> QED
  BY <1>1, VisitStep, ReloadStep, SideBarStep, ActivateStep, DeleteStep,
     ClearStep, SubmitStep, RegisteredStep
     DEF FiltersNext

\* Only a registration changes a saved filter, its own or a new one.
LEMMA OverwritesNothing ==
    ASSUME FilterInv, FiltersNext \/ UNCHANGED filterVars, NEW l \in DOMAIN saved,
           l \in DOMAIN saved', saved'[l] # saved[l]
    PROVE  \E r \in registers : r.label = l /\ (r.own = l \/ r.free)
<1>1. \E r \in registers : Registered(r)
  <2>1. CASE UNCHANGED filterVars
    BY <2>1 DEF filterVars
  <2>2. CASE \E t \in Topics : Visit(t)
    BY <2>2 DEF Visit
  <2>3. CASE Reload \/ closeSideBar \/ Deactivate
    BY <2>3 DEF Reload, closeSideBar, Deactivate
  <2>4. CASE clearAll
    <3>1. DOMAIN saved' = {}
      BY <2>4 DEF clearAll
    <3> QED
      BY <3>1
  <2>5. CASE \E n \in Labels \cup {ADD_FILTER_ID} : setFilterName(n)
    BY <2>5 DEF setFilterName
  <2>6. CASE \E n \in Labels : activateFilter(n)
    BY <2>6 DEF activateFilter
  <2>7. CASE \E n \in Labels : deleteFilterHandler(n)
    BY <2>7 DEF deleteFilterHandler, drop
  <2>8. CASE \E n \in Labels, c \in Codes, given \in BOOLEAN :
               onSubmitFilter(n, c, given)
    BY <2>8 DEF onSubmitFilter
  <2>9. CASE \E r \in registers : RegisterFails(r)
    BY <2>9 DEF RegisterFails
  <2> QED
    BY <2>1, <2>2, <2>3, <2>4, <2>5, <2>6, <2>7, <2>8, <2>9 DEF FiltersNext
<1>2. PICK r \in registers : Registered(r)
  BY <1>1
<1>3. saved' = replace(saved, r.own, r.label, r.code)
  BY <1>2 DEF Registered
<1>4. l = r.label
  BY <1>3, StoreReplaced DEF FilterInv
<1> QED
  BY <1>4 DEF FilterInv, RegistersOK

LEMMA FilterInvIsSafe ==
    FilterInv => FiltersTypeOK /\ RememberedIsCurrent /\ AppliedIsRemembered
<1> SUFFICES ASSUME FilterInv
             PROVE  FiltersTypeOK /\ RememberedIsCurrent /\ AppliedIsRemembered
  OBVIOUS
<1>1. \A t \in Topics :
        /\ fields[t].active \in Labels \cup {"none"}
        /\ fields[t].code \in Codes \cup {"none"}
        /\ fields[t].active = "none" <=> fields[t].code = "none"
  BY DEF FilterInv, FieldsTypes, Pairs, BothOrNone
<1>2. /\ place.active \in Labels \cup {"none"}
      /\ place.code \in Codes \cup {"none"}
      /\ place.active = "none" <=> place.code = "none"
  BY DEF FilterInv, AddressTypes, Pairs, BothOrNone, Applied
<1>3. DOMAIN fields = Topics /\ place.topic \in Topics
  BY DEF FilterInv, FieldsTypes, AddressTypes
<1> QED
  BY <1>1, <1>2, <1>3 DEF FilterInv, StoreTypes, FiltersTypeOK

\* Topics, the store and the address agree about filters, and no save
\* overwrites one unasked, whatever the user does while the server registers
\* a code (AddEditFilter, useMessageFiltersStore).
THEOREM FiltersAgree == Spec => FiltersSafe
<1>1. Init => FilterInv
  BY FiltersStart DEF Init
<1>2. [Next]_workbenchVars => FiltersNext \/ UNCHANGED filterVars
  BY DEF Next, workbenchVars, OnKsql, OnTopic, OnFilters, OnProduce,
         OnUpdates, OnShell, filterVars
<1>3. FilterInv /\ [Next]_workbenchVars => FilterInv'
  BY <1>2, FilterStep
<1>4. FilterInv /\ [Next]_workbenchVars =>
        [\A l \in DOMAIN saved :
            l \in DOMAIN saved' /\ saved'[l] # saved[l] =>
                \E r \in registers : r.label = l /\ (r.own = l \/ r.free)
        ]_filterVars
  BY <1>2, OverwritesNothing
<1> QED
  BY <1>1, <1>3, <1>4, FilterInvIsSafe, PTL
     DEF Spec, FiltersSafe, NothingOverwritten

----------------------------------------------------------------------------
(* Producing messages: the inductive invariant *)

Texts == TextsTyped \cup {"none", Generated}
FormFields ==
    [text : [Sides -> Texts], serde : [Sides -> Serdes],
     params : [Sides -> Subjects \cup {"none"}],
     headers : {"none", "h", "wrong"}, partition : Nat]
Origins == Messages \cup {NoMessage}
Drafts ==
    [id : Nat, fields : FormFields, keep : BOOLEAN, for : [Sides -> Serdes],
     from : Origins]
Requests ==
    [form : Nat, fields : FormFields, keep : BOOLEAN, for : [Sides -> Serdes],
     from : Origins, nr : Nat]
Arrivals == [fields : FormFields, for : [Sides -> Serdes], from : Origins]

\* A form, a request or a message on the topic holds every parameter with the
\* serde it was chosen for, and what it reproduces unchanged.
Sound(x) ==
    /\ \A s \in Sides : x.fields.params[s] # "none" => x.for[s] = x.fields.serde[s]
    /\ x.from # NoMessage => x.fields = messageData(x.from)

\* A request of the present form has the form's texts, and is the only one.
RequestsOK ==
    \A r \in sending :
        /\ r.form <= draft.id
        /\ r.form = draft.id => r.fields.text = draft.fields.text
        /\ \A q \in sending : q.form = r.form => q = r

ProduceTypes ==
    /\ bar \in [open : BOOLEAN, data : Origins] /\ draft \in Drafts
    /\ sending \subseteq Requests /\ produced \in Seq(Arrivals)
    /\ produceSpent \in [edits : Nat, presses : Nat, faults : Nat, bars : Nat]
ProduceInv ==
    /\ ProduceTypes /\ RequestsOK
    /\ Sound(draft) /\ \A r \in sending : Sound(r)
    /\ \A i \in 1..Len(produced) : Sound(produced[i])

LEMMA SerdesOfSides ==
    /\ Preferred \in Serdes /\ DefaultSerde \in Serdes
    /\ "none" \notin Serdes
  BY ProduceBounds DEF DefaultSerde
LEMMA DefaultsInForm ==
    /\ getDefaultValues \in [Sides -> Texts]
    /\ NoData \in FormFields
    /\ \A s \in Sides : NoData.params[s] = "none"
<1>1. generateValueFromSchema \in Texts
  BY DEF generateValueFromSchema, Texts
<1>2. getDefaultValues \in [Sides -> Texts]
  BY <1>1 DEF getDefaultValues
<1> HIDE DEF NoData
<1> QED
  BY <1>2, SerdesOfSides DEF NoData, FormFields
LEMMA MessageInForm ==
    ASSUME NEW m \in Messages
    PROVE  messageData(m) \in FormFields /\ m # NoMessage
<1>1. /\ m.text \in [Sides -> TextsTyped \cup {"none"}]
      /\ m.serde \in [Sides -> Serdes]
      /\ m.params \in [Sides -> Subjects \cup {"none"}]
      /\ m.headers \in {"none", "h"} /\ m.partition \in Nat
  BY MessageShape
<1>2. [s \in Sides |-> IF s = "key" /\ m.text[s] = "none"
                       THEN getDefaultValues[s] ELSE m.text[s]]
        \in [Sides -> Texts]
  BY <1>1, DefaultsInForm DEF Texts
<1>3. messageData(m) \in FormFields
  BY <1>1, <1>2 DEF messageData, FormFields
<1>4. m # NoMessage
  <2>1. "text" \in DOMAIN m /\ "text" \notin DOMAIN NoMessage
    BY MessageShape DEF NoMessage
  <2> QED
    BY <2>1
<1> QED
  BY <1>3, <1>4

\* A mounted form is sound.
LEMMA Mounts ==
    ASSUME NEW m \in Origins, NEW id \in Nat
    PROVE  /\ Mount(m, id) \in Drafts /\ Sound(Mount(m, id))
           /\ Mount(m, id).id = id
<1> DEFINE f == formDefaults(m)
<1>1. f \in FormFields
  BY DefaultsInForm, MessageInForm DEF formDefaults, Origins
<1>2. m # NoMessage => f = messageData(m)
  BY DEF formDefaults
<1>3. Mount(m, id) = [id |-> id, fields |-> f, keep |-> FALSE,
                      for |-> f.serde, from |-> m]
  BY DEF Mount
<1> HIDE DEF f
<1>4. f.serde \in [Sides -> Serdes]
  BY <1>1 DEF FormFields
<1> QED
  BY <1>1, <1>2, <1>3, <1>4 DEF Drafts, Sound

LEMMA ProduceStarts ==
    ASSUME ProduceInit PROVE ProduceInv
<1>1. NoMessage \in Origins
  BY DEF Origins
<1>2. /\ bar = [open |-> FALSE, data |-> NoMessage]
      /\ draft = Mount(NoMessage, 1) /\ sending = {} /\ produced = <<>>
      /\ produceSpent = [edits |-> 0, presses |-> 0, faults |-> 0, bars |-> 0]
  BY DEF ProduceInit
<1>3. draft \in Drafts /\ Sound(draft)
  BY <1>1, <1>2, Mounts
<1> QED
  BY <1>1, <1>2, <1>3 DEF ProduceInv, ProduceTypes, RequestsOK

\* The side bar opens and closes: the form stays, or is mounted anew.
LEMMA Remounts ==
    ASSUME ProduceInv, NEW m \in Origins, draft' = Remounted(m),
           UNCHANGED <<sending, produced>>
    PROVE  draft' \in Drafts /\ Sound(draft') /\ RequestsOK'
<1> USE DEF ProduceInv, ProduceTypes
<1>1. draft.id \in Nat
  BY DEF Drafts
<1>2. \A r \in sending : r.form \in Nat
  BY DEF Requests
<1>3. CASE (m = NoMessage) # (bar.data = NoMessage)
  <2>1. draft' = Mount(m, draft.id + 1)
    BY <1>3 DEF Remounted
  <2>2. draft' \in Drafts /\ Sound(draft') /\ draft'.id = draft.id + 1
    BY <1>1, <2>1, Mounts
  <2> QED
    BY <1>1, <1>2, <2>2 DEF RequestsOK
<1>4. CASE ~((m = NoMessage) # (bar.data = NoMessage))
  <2>1. draft' = [draft EXCEPT !.from = NoMessage]
    BY <1>4 DEF Remounted
  <2>2. /\ draft' \in Drafts /\ draft'.id = draft.id
        /\ draft'.fields = draft.fields /\ draft'.for = draft.for
        /\ draft'.from = NoMessage
    BY <2>1 DEF Drafts, Origins
  <2> QED
    BY <2>2 DEF RequestsOK, Sound
<1> QED
  BY <1>3, <1>4
LEMMA BarStep ==
    ASSUME ProduceInv,
           \/ openSidebar \/ handleCloseSidebar
           \/ \E m \in Messages : openSidebarWithMessage(m)
    PROVE  ProduceInv'
<1> USE DEF ProduceInv
<1>1. NoMessage \in Origins /\ Messages \subseteq Origins
  BY DEF Origins
<1>2. CASE openSidebar
  <2>1. /\ bar' = [bar EXCEPT !.open = TRUE]
        /\ UNCHANGED <<draft, sending, produced>>
        /\ produceSpent' = [produceSpent EXCEPT !.bars = @ + 1]
    BY <1>2 DEF openSidebar, Budget
  <2>2. bar' \in [open : BOOLEAN, data : Origins]
    BY <2>1 DEF ProduceTypes
  <2>3. produceSpent'
          \in [edits : Nat, presses : Nat, faults : Nat, bars : Nat]
    BY <2>1 DEF ProduceTypes
  <2> QED
    BY <2>1, <2>2, <2>3 DEF ProduceTypes, RequestsOK
<1>3. CASE handleCloseSidebar
  <2>1. /\ bar' = [open |-> FALSE, data |-> NoMessage]
        /\ draft' = Remounted(NoMessage)
        /\ UNCHANGED <<sending, produced, produceSpent>>
    BY <1>3 DEF handleCloseSidebar
  <2>2. draft' \in Drafts /\ Sound(draft') /\ RequestsOK'
    BY <1>1, <2>1, Remounts
  <2> QED
    BY <1>1, <2>1, <2>2 DEF ProduceTypes
<1>4. ASSUME NEW m \in Messages, openSidebarWithMessage(m)
      PROVE  ProduceInv'
  <2>1. /\ bar' = [open |-> TRUE, data |-> m] /\ draft' = Remounted(m)
        /\ UNCHANGED <<sending, produced>>
        /\ produceSpent' = [produceSpent EXCEPT !.bars = @ + 1]
    BY <1>4 DEF openSidebarWithMessage, Budget
  <2>2. draft' \in Drafts /\ Sound(draft') /\ RequestsOK'
    BY <1>1, <2>1, Remounts
  <2> QED
    BY <1>1, <2>1, <2>2 DEF ProduceTypes
<1> QED
  BY <1>2, <1>3, <1>4

\* A field is filled: sound if its parameters are, and with the texts of
\* before while a request is under way.
LEMMA Filled ==
    ASSUME ProduceInv, NEW filled \in FormFields, NEW for \in [Sides -> Serdes],
           Edit(filled, for),
           isSubmittingForm => filled.text = draft.fields.text,
           \A s \in Sides : filled.params[s] # "none" => for[s] = filled.serde[s]
    PROVE  ProduceInv'
<1> USE DEF ProduceInv
<1>1. /\ draft' = [draft EXCEPT !.fields = filled, !.for = for,
                                !.from = NoMessage]
      /\ UNCHANGED <<bar, sending, produced>>
      /\ produceSpent' = [produceSpent EXCEPT !.edits = @ + 1]
  BY DEF Edit, Budget
<1>2. /\ draft' \in Drafts /\ draft'.id = draft.id /\ draft'.fields = filled
      /\ draft'.for = for /\ draft'.from = NoMessage
  BY <1>1 DEF ProduceTypes, Drafts, Origins
<1>3. Sound(draft')
  BY <1>2 DEF Sound
<1>4. RequestsOK'
  BY <1>1, <1>2 DEF RequestsOK, isSubmittingForm
<1>5. ProduceTypes'
  BY <1>1, <1>2 DEF ProduceTypes
<1> QED
  BY <1>1, <1>3, <1>4, <1>5
LEMMA EditStep ==
    ASSUME ProduceInv, NEW s \in Sides,
           \/ \E t \in TextsTyped \cup {"none"} : TypeText(s, t)
           \/ \E x \in Serdes : ChooseSerde(s, x)
           \/ \E p \in Subjects : renderParameters(s, p)
           \/ \E h \in {"none", "h", "wrong"} : TypeHeaders(h)
           \/ \E p \in {0, 1} : ChoosePartition(p)
    PROVE  ProduceInv'
<1> DEFINE f == draft.fields
<1>1. f \in FormFields /\ draft.for \in [Sides -> Serdes]
      /\ \A u \in Sides : f.params[u] # "none" => draft.for[u] = f.serde[u]
  BY DEF ProduceInv, ProduceTypes, Drafts, Sound
<1>2. ASSUME NEW t \in TextsTyped \cup {"none"}, TypeText(s, t)
      PROVE  ProduceInv'
  <2> DEFINE filled == [f EXCEPT !.text[s] = t]
  <2>1. Edit(filled, draft.for) /\ ~isSubmittingForm
    BY <1>2 DEF TypeText, readOnly
  <2>2. /\ filled \in FormFields /\ filled.params = f.params
        /\ filled.serde = f.serde
    BY <1>1 DEF FormFields, Texts
  <2> HIDE DEF f, filled
  <2> QED
    BY <1>1, <2>1, <2>2, Filled
<1>3. ASSUME NEW x \in Serdes, ChooseSerde(s, x)
      PROVE  ProduceInv'
  <2> DEFINE filled == [f EXCEPT !.serde[s] = x,
                                 !.params = prevSerde(f.params, s)]
  <2>1. Edit(filled, draft.for)
    BY <1>3, <1>1 DEF ChooseSerde, FormFields
  <2>2. /\ prevSerde(f.params, s) \in [Sides -> Subjects \cup {"none"}]
        /\ prevSerde(f.params, s)[s] = "none"
        /\ \A u \in Sides \ {s} : prevSerde(f.params, s)[u] = f.params[u]
    BY <1>1 DEF prevSerde, FormFields
  <2>3. /\ filled \in FormFields /\ filled.params = prevSerde(f.params, s)
        /\ filled.text = f.text
        /\ \A u \in Sides \ {s} : filled.serde[u] = f.serde[u]
    BY <1>1, <2>2 DEF FormFields
  <2>4. \A u \in Sides : filled.params[u] # "none" =>
            draft.for[u] = filled.serde[u]
    BY <1>1, <2>2, <2>3
  <2>5. filled.text = draft.fields.text
    BY <2>3
  <2> HIDE DEF f, filled
  <2> QED
    BY <1>1, <2>1, <2>3, <2>4, <2>5, Filled
<1>4. ASSUME NEW p \in Subjects, renderParameters(s, p)
      PROVE  ProduceInv'
  <2> DEFINE filled == [f EXCEPT !.params[s] = p]
             for == [draft.for EXCEPT ![s] = f.serde[s]]
  <2>1. Edit(filled, for)
    BY <1>4 DEF renderParameters
  <2>2. /\ filled \in FormFields /\ filled.serde = f.serde
        /\ filled.text = f.text
        /\ \A u \in Sides \ {s} : filled.params[u] = f.params[u]
    BY <1>1 DEF FormFields
  <2>3. /\ for \in [Sides -> Serdes] /\ for[s] = f.serde[s]
        /\ \A u \in Sides \ {s} : for[u] = draft.for[u]
    BY <1>1 DEF FormFields
  <2>4. \A u \in Sides : filled.params[u] # "none" => for[u] = filled.serde[u]
    BY <1>1, <2>2, <2>3
  <2>5. filled.text = draft.fields.text
    BY <2>2
  <2> HIDE DEF f, filled, for
  <2> QED
    BY <1>1, <2>1, <2>2, <2>3, <2>4, <2>5, Filled
<1>5. ASSUME NEW h \in {"none", "h", "wrong"}, TypeHeaders(h)
      PROVE  ProduceInv'
  <2> DEFINE filled == [f EXCEPT !.headers = h]
  <2>1. Edit(filled, draft.for)
    BY <1>5 DEF TypeHeaders
  <2>2. /\ filled \in FormFields /\ filled.params = f.params
        /\ filled.serde = f.serde /\ filled.text = draft.fields.text
    BY <1>1 DEF FormFields
  <2> HIDE DEF f, filled
  <2> QED
    BY <1>1, <2>1, <2>2, Filled
<1>6. ASSUME NEW p \in {0, 1}, ChoosePartition(p)
      PROVE  ProduceInv'
  <2> DEFINE filled == [f EXCEPT !.partition = p]
  <2>1. Edit(filled, draft.for)
    BY <1>6 DEF ChoosePartition
  <2>2. /\ filled \in FormFields /\ filled.params = f.params
        /\ filled.serde = f.serde /\ filled.text = draft.fields.text
    BY <1>1 DEF FormFields
  <2> HIDE DEF f, filled
  <2> QED
    BY <1>1, <2>1, <2>2, Filled
<1> QED
  BY <1>2, <1>3, <1>4, <1>5, <1>6
LEMMA KeepStep ==
    ASSUME ProduceInv, KeepContents PROVE ProduceInv'
<1> USE DEF ProduceInv
<1>1. /\ draft' = [draft EXCEPT !.keep = ~@]
      /\ UNCHANGED <<bar, sending, produced>>
      /\ produceSpent' = [produceSpent EXCEPT !.edits = @ + 1]
  BY DEF KeepContents, Budget
<1>2. /\ draft' \in Drafts /\ draft'.id = draft.id
      /\ draft'.fields = draft.fields /\ draft'.for = draft.for
      /\ draft'.from = draft.from
  BY <1>1 DEF ProduceTypes, Drafts
<1> QED
  BY <1>1, <1>2 DEF ProduceTypes, RequestsOK, Sound

\* A request is the form as it stands.
LEMMA SendStep ==
    ASSUME ProduceInv, submit PROVE ProduceInv'
<1> USE DEF ProduceInv
<1> DEFINE r == [form |-> draft.id, fields |-> draft.fields,
                 keep |-> draft.keep, for |-> draft.for, from |-> draft.from,
                 nr |-> produceSpent.presses]
<1>1. /\ ~isSubmittingForm /\ sending' = sending \cup {r}
      /\ UNCHANGED <<bar, draft, produced>>
      /\ produceSpent' = [produceSpent EXCEPT !.presses = @ + 1]
  BY DEF submit, Budget
<1>2. /\ r \in Requests /\ r.form = draft.id /\ r.fields = draft.fields
      /\ r.for = draft.for /\ r.from = draft.from
  BY DEF ProduceTypes, Drafts, Requests
<1> HIDE DEF r
<1>3. Sound(r)
  BY <1>2 DEF Sound
<1>4. RequestsOK'
  BY <1>1, <1>2 DEF RequestsOK, isSubmittingForm, ProduceTypes, Drafts
<1> QED
  BY <1>1, <1>2, <1>3, <1>4 DEF ProduceTypes

\* An answer comes.
LEMMA AnsweredStep ==
    ASSUME ProduceInv, NEW r \in sending, Sent(r) PROVE ProduceInv'
<1> USE DEF ProduceInv
<1> DEFINE p == [fields |-> r.fields, for |-> r.for, from |-> r.from]
<1>1. /\ sending' = sending \ {r} /\ produced' = Append(produced, p)
      /\ \/ UNCHANGED <<bar, draft>>
         \/ bar' = [bar EXCEPT !.open = FALSE] /\ draft' = Wiped(r)
      /\ produceSpent' = produceSpent
  BY DEF Sent
<1>2. /\ p \in Arrivals /\ p.fields = r.fields /\ p.for = r.for
      /\ p.from = r.from
  BY DEF ProduceTypes, Requests, Arrivals
<1> HIDE DEF p
<1>3. Sound(p)
  BY <1>2 DEF Sound
<1>4. /\ produced' \in Seq(Arrivals) /\ Len(produced') = Len(produced) + 1
      /\ \A i \in 1..Len(produced') :
            produced'[i] = IF i <= Len(produced) THEN produced[i] ELSE p
  BY <1>1, <1>2 DEF ProduceTypes
<1>5. \A i \in 1..Len(produced') : Sound(produced'[i])
  BY <1>3, <1>4 DEF ProduceTypes
<1>6. /\ draft' \in Drafts /\ Sound(draft') /\ draft'.id = draft.id
      /\ r.form # draft.id => draft'.fields = draft.fields
      /\ bar' \in [open : BOOLEAN, data : Origins]
      /\ draft'.fields.text = draft.fields.text \/ r.form = draft.id
  <2>1. CASE UNCHANGED <<bar, draft>>
    BY <2>1 DEF ProduceTypes
  <2>2. CASE /\ bar' = [bar EXCEPT !.open = FALSE] /\ draft' = Wiped(r)
             /\ r.form # draft.id
    BY <2>2 DEF ProduceTypes, Wiped
  <2>3. CASE /\ bar' = [bar EXCEPT !.open = FALSE] /\ draft' = Wiped(r)
             /\ r.form = draft.id
    <3> DEFINE filled == [draft.fields EXCEPT !.text = getDefaultValues]
    <3>1. draft' = [draft EXCEPT !.fields = filled, !.from = NoMessage]
      BY <2>3 DEF Wiped, ProduceTypes, Drafts
    <3>2. /\ filled \in FormFields /\ filled.params = draft.fields.params
          /\ filled.serde = draft.fields.serde
      BY DefaultsInForm DEF ProduceTypes, Drafts, FormFields
    <3> HIDE DEF filled
    <3>3. /\ draft' \in Drafts /\ draft'.fields = filled
          /\ draft'.for = draft.for /\ draft'.from = NoMessage
          /\ draft'.id = draft.id
      BY <3>1, <3>2 DEF ProduceTypes, Drafts, Origins
    <3> QED
      BY <2>3, <3>2, <3>3 DEF Sound, ProduceTypes
  <2> QED
    BY <1>1, <2>1, <2>2, <2>3
<1>7. RequestsOK'
  BY <1>1, <1>6 DEF RequestsOK
<1> QED
  BY <1>1, <1>4, <1>5, <1>6, <1>7 DEF ProduceTypes
LEMMA SendFailsStep ==
    ASSUME ProduceInv, NEW r \in sending, SendFails(r) PROVE ProduceInv'
<1>1. /\ sending' = sending \ {r} /\ UNCHANGED <<bar, draft, produced>>
      /\ produceSpent' = [produceSpent EXCEPT !.faults = @ + 1]
  BY DEF SendFails, Budget
<1> QED
  BY <1>1 DEF ProduceInv, ProduceTypes, RequestsOK

LEMMA ProduceStep ==
    ASSUME ProduceInv, ProduceNext \/ UNCHANGED produceVars PROVE ProduceInv'
<1>1. CASE UNCHANGED produceVars
  BY <1>1 DEF produceVars, ProduceInv, ProduceTypes, RequestsOK
<1>2. "key" \in Sides
  BY DEF Sides
<1> QED
  BY <1>1, <1>2, BarStep, EditStep, KeepStep, SendStep, AnsweredStep,
     SendFailsStep DEF ProduceNext

\* An answer changes no text but those it produced.
LEMMA WipesNothing ==
    ASSUME ProduceInv, ProduceNext \/ UNCHANGED produceVars, NEW s \in Sides,
           sending' # sending, draft'.id = draft.id,
           draft'.fields.text[s] # draft.fields.text[s]
    PROVE  /\ Len(produced') > Len(produced)
           /\ produced'[Len(produced')].fields.text[s] = draft.fields.text[s]
<1> USE DEF ProduceInv
<1>1. PICK r \in sending : Sent(r)
  <2>1. CASE UNCHANGED produceVars
    BY <2>1 DEF produceVars
  <2>2. CASE \/ openSidebar \/ handleCloseSidebar \/ KeepContents
             \/ \E m \in Messages : openSidebarWithMessage(m)
    BY <2>2 DEF openSidebar, handleCloseSidebar, KeepContents,
                openSidebarWithMessage
  <2>3. CASE submit
    BY <2>3 DEF submit
  <2>4. ASSUME NEW u \in Sides, NEW t \in TextsTyped \cup {"none"}, TypeText(u, t)
        PROVE  FALSE
    BY <2>4 DEF TypeText, Edit
  <2>5. ASSUME NEW u \in Sides, NEW x \in Serdes, ChooseSerde(u, x)
        PROVE  FALSE
    BY <2>5 DEF ChooseSerde, Edit
  <2>6. ASSUME NEW u \in Sides, NEW p \in Subjects, renderParameters(u, p)
        PROVE  FALSE
    BY <2>6 DEF renderParameters, Edit
  <2>7. ASSUME NEW h \in {"none", "h", "wrong"}, TypeHeaders(h)
        PROVE  FALSE
    BY <2>7 DEF TypeHeaders, Edit
  <2>8. ASSUME NEW p \in {0, 1}, ChoosePartition(p)
        PROVE  FALSE
    BY <2>8 DEF ChoosePartition, Edit
  <2>9. CASE \E r \in sending : SendFails(r)
    BY <2>9 DEF SendFails
  <2> QED
    BY <2>1, <2>2, <2>3, <2>4, <2>5, <2>6, <2>7, <2>8, <2>9 DEF ProduceNext
<1> DEFINE p == [fields |-> r.fields, for |-> r.for, from |-> r.from]
<1>2. produced' = Append(produced, p) /\ (draft' = draft \/ draft' = Wiped(r))
  BY <1>1 DEF Sent
<1>3. r.form = draft.id
  BY <1>2 DEF Wiped
<1>4. p.fields.text = draft.fields.text
  BY <1>3 DEF RequestsOK
<1>5. p \in Arrivals
  BY DEF ProduceTypes, Requests, Arrivals
<1> HIDE DEF p
<1> QED
  BY <1>2, <1>4, <1>5 DEF ProduceTypes

LEMMA ProduceInvIsSafe ==
    ProduceInv => ProduceTypeOK /\ ParamsOfSerde /\ Reproduced
<1> SUFFICES ASSUME ProduceInv
             PROVE  ProduceTypeOK /\ ParamsOfSerde /\ Reproduced
  OBVIOUS
<1> USE DEF ProduceInv
<1>1. ProduceTypeOK
  BY DEF ProduceTypeOK, ProduceTypes, Drafts, FormFields, Texts, Origins,
         RequestsOK
<1>2. ParamsOfSerde
  BY DEF ParamsOfSerde, Sound
<1>3. Reproduced
  <2> SUFFICES ASSUME NEW i \in 1..Len(produced),
                      produced[i].from # NoMessage
               PROVE  LET p == produced[i].fields  m == produced[i].from
                      IN /\ p.text["value"] = m.text["value"]
                         /\ m.text["key"] \in {"none", p.text["key"]}
                         /\ <<p.serde, p.params, p.headers, p.partition>> =
                            <<m.serde, m.params, m.headers, m.partition>>
    BY DEF Reproduced
  <2> DEFINE p == produced[i].fields
             m == produced[i].from
  <2>1. p = messageData(m)
    BY DEF Sound
  <2> HIDE DEF p, m
  <2>2. /\ p.text["value"] = m.text["value"]
        /\ m.text["key"] = "none" \/ p.text["key"] = m.text["key"]
        /\ p.serde = m.serde /\ p.params = m.params
        /\ p.headers = m.headers /\ p.partition = m.partition
    BY <2>1 DEF messageData, Sides
  <2> QED
    BY <2>2 DEF p, m
<1> QED
  BY <1>1, <1>2, <1>3

\* What goes out is what the form or the reproduced message holds, with every
\* parameter in its serde, and an answer takes no text but the produced one,
\* whatever is edited, opened and sent meanwhile (SendMessage.tsx,
\* useProduceMessage.ts).
THEOREM ProducesAsShown == Spec => ProduceSafe
<1>1. Init => ProduceInv
  BY ProduceStarts DEF Init
<1>2. [Next]_workbenchVars => ProduceNext \/ UNCHANGED produceVars
  BY DEF Next, workbenchVars, OnKsql, OnTopic, OnFilters, OnProduce,
         OnUpdates, OnShell, produceVars
<1>3. ProduceInv /\ [Next]_workbenchVars => ProduceInv'
  BY <1>2, ProduceStep
<1>4. ProduceInv /\ [Next]_workbenchVars =>
        [\A s \in Sides :
            /\ sending' # sending /\ draft'.id = draft.id
            /\ draft'.fields.text[s] # draft.fields.text[s]
            => /\ Len(produced') > Len(produced)
               /\ produced'[Len(produced')].fields.text[s] = draft.fields.text[s]
        ]_produceVars
  BY <1>2, WipesNothing
<1> QED
  BY <1>1, <1>3, <1>4, ProduceInvIsSafe, PTL
     DEF Spec, ProduceSafe, NothingWiped

----------------------------------------------------------------------------
(* Statements and their results: the inductive invariant *)

Pages ==
    [route : BOOLEAN, tables : BOOLEAN, streams : BOOLEAN,
     mount : 1..MaxMounts, pipeId : Ids \cup {NoPipe},
     opened : Ids \cup {NoPipe}, data : Seq(Ids \X (1..MaxFrames))]
PostRecords ==
    [id : Ids, mount : 1..MaxMounts, kind : Kinds \cup {"invalid"},
     phase : {"sent", "registered", "refused"}]
Streams ==
    [id : Ids, try : Nat, client : {"waiting", "reading", "gone"},
     server : {"requested", "running", "ended", "refused"},
     kind : Kinds \cup {"none"}, frames : Seq(FrameKinds), read : Nat]

\* The page that is not shown holds no pipe.
PageInv == ksql \in Pages /\ (~Mounted => ksql.pipeId = NoPipe)

\* An id is given once: to a statement on its way, then to its pipe, then to
\* its one run.
PipesOK ==
    /\ DOMAIN pipes \subseteq Ids /\ Cardinality(DOMAIN pipes) <= PipeMax
    /\ \A i \in DOMAIN pipes :
          /\ pipes[i].createdAt \in 0..clock /\ pipes[i].kind \in Kinds
          /\ i <= ksqlSpent.submits
PostsOK ==
    /\ posts \subseteq PostRecords
    /\ \A p \in posts :
          /\ p.id <= ksqlSpent.submits
          /\ p.id # ksql.pipeId /\ p.id # ksql.opened
          /\ p.phase = "sent" => p.id \notin DOMAIN pipes /\ runs[p.id] = <<>>
    /\ \A p, q \in posts : p.id = q.id => p = q
RunsOK ==
    /\ runs \in [Ids -> Seq(Nat)]
    /\ \A i \in Ids : runs[i] # <<>> =>
          /\ i \notin DOMAIN pipes /\ i <= ksqlSpent.submits
          /\ Len(runs[i]) = 1 /\ runs[i][1] < PipeTTL
WorldOK ==
    /\ configured \in BOOLEAN /\ clock \in 0..MaxTicks
    /\ ksqlSpent \in [submits : Nat, faults : Nat]
    /\ ksql.pipeId <= ksqlSpent.submits /\ ksql.opened <= ksqlSpent.submits
RegistryInv == PipesOK /\ PostsOK /\ RunsOK /\ WorldOK

\* How far the two ends of an attempt are; an error is the last frame.
StreamOK(s) ==
    /\ s \in Streams
    /\ s.read <= Len(s.frames) /\ Len(s.frames) <= MaxFrames
    /\ s.client = "waiting" => s.read = 0
    /\ s.client = "reading" =>
          s.server # "requested" /\ (s.frames # <<>> \/ ServerEnded(s))
    /\ s.server \in {"requested", "refused"} => s.frames = <<>>
    /\ \A j \in 1..Len(s.frames) - 1 : s.frames[j] # "Execution error"

\* One attempt at most has a page, the one that holds its pipe; what the page
\* shows is what has been read of it.
Shows(s) ==
    /\ ksql.opened = s.id
    /\ {ksql.data[k][2] : k \in DOMAIN ksql.data} = Displayed(s)
    /\ ksql.data # <<>> /\ s.frames[s.read] # "Execution error" =>
          ksql.data[Len(ksql.data)][2] = s.read
InOrder ==
    ksql.pipeId # NoPipe /\ ksql.opened = ksql.pipeId =>
        \A k \in DOMAIN ksql.data :
            ksql.data[k] = <<ksql.pipeId, ksql.data[1][2] + k - 1>>
StreamInv ==
    /\ \A s \in streams : StreamOK(s)
    /\ \A s \in streams : s.client # "gone" => s.id = ksql.pipeId
    /\ \A s, t \in streams : s.client # "gone" /\ t.client # "gone" => s = t
    /\ \A s \in streams :
          s.client = "reading" /\ s.server # "refused" => Shows(s)
    /\ InOrder

KsqlInv == PageInv /\ RegistryInv /\ StreamInv

LEMMA KsqlNumbers ==
    /\ PipeTTL \in Nat /\ PipeMax \in Nat /\ PipeTTL # 0 /\ PipeMax # 0
    /\ MaxMounts \in Nat /\ 1 \in 1..MaxMounts
    /\ MaxFrames \in Nat /\ MaxSubmits \in Nat /\ MaxTicks \in Nat
    /\ KsqlFaults \in Nat
    /\ Ids \subseteq Nat /\ NoPipe \notin Ids /\ NoPipe = 0
    /\ \A i : i \in Ids <=> i \in Nat /\ 1 <= i /\ i <= MaxSubmits
<1>1. /\ PipeTTL \in Nat \ {0} /\ PipeMax \in Nat \ {0}
      /\ MaxMounts \in Nat \ {0}
      /\ MaxFrames \in Nat /\ MaxSubmits \in Nat /\ MaxTicks \in Nat
      /\ KsqlFaults \in Nat
  BY KsqlBounds, Zenon
<1> QED
  BY <1>1 DEF Ids, NoPipe
LEMMA IdsAreFinite ==
    ASSUME NEW S \in SUBSET Ids
    PROVE  IsFiniteSet(S) /\ Cardinality(S) \in Nat
<1>1. IsFiniteSet(Ids)
  <2>1. MaxSubmits \in Int /\ 1 \in Int
    BY KsqlNumbers
  <2> QED
    BY <2>1, FS_Interval DEF Ids
<1>2. IsFiniteSet(S)
  BY <1>1, FS_Subset
<1> QED
  BY <1>2, FS_CardinalityType

LEMMA KsqlStarts ==
    ASSUME KsqlInit PROVE KsqlInv
<1>1. /\ ksql.route /\ ksql.tables /\ ksql.streams /\ ksql.mount = 1
      /\ ksql.pipeId = NoPipe /\ ksql.opened = NoPipe /\ ksql.data = <<>>
      /\ ksql \in Pages
  BY KsqlNumbers DEF KsqlInit, Fresh, Pages
<1>2. /\ posts = {} /\ DOMAIN pipes = {} /\ streams = {}
      /\ configured = TRUE /\ clock = 0 /\ runs = [i \in Ids |-> <<>>]
      /\ ksqlSpent = [submits |-> 0, faults |-> 0]
  BY DEF KsqlInit
<1>3. PageInv
  BY <1>1 DEF PageInv, Mounted, isSuccess
<1>4. PipesOK
  BY <1>2, KsqlNumbers, FS_EmptySet DEF PipesOK
<1>5. PostsOK /\ RunsOK /\ WorldOK
  BY <1>1, <1>2, KsqlNumbers DEF PostsOK, RunsOK, WorldOK
<1>6. StreamInv
  BY <1>1, <1>2 DEF StreamInv, InOrder
<1> QED
  BY <1>3, <1>4, <1>5, <1>6 DEF KsqlInv, RegistryInv

\* Nothing of the registry moves but for posts that leave, and the page turns
\* to no other pipe.
LEMMA RegistryKeeps ==
    ASSUME KsqlInv, posts' \subseteq posts, UNCHANGED <<pipes, runs, clock>>,
           configured' \in BOOLEAN, ksqlSpent'.submits = ksqlSpent.submits,
           ksqlSpent' \in [submits : Nat, faults : Nat],
           ksql'.pipeId \in {ksql.pipeId, NoPipe},
           ksql'.opened \in {ksql.opened, ksql.pipeId, NoPipe}
    PROVE  RegistryInv'
<1> USE DEF KsqlInv, RegistryInv
<1>1. PipesOK' /\ RunsOK'
  BY DEF PipesOK, RunsOK
<1>2. PostsOK'
  BY KsqlNumbers DEF PostsOK, PostRecords
<1>3. WorldOK'
  BY KsqlNumbers DEF WorldOK
<1> QED
  BY <1>1, <1>2, <1>3
LEMMA FaultSpent ==
    ASSUME KsqlInv, Spend("faults", KsqlFaults) \/ UNCHANGED ksqlSpent
    PROVE  /\ ksqlSpent' \in [submits : Nat, faults : Nat]
           /\ ksqlSpent'.submits = ksqlSpent.submits
  BY DEF Spend, KsqlInv, RegistryInv, WorldOK

----------------------------------------------------------------------------
\* A step of one attempt, at either end, that leaves the page alone: it loses
\* its reader, or keeps it with what it has read.
LEMMA AttemptStep ==
    ASSUME KsqlInv, NEW s \in streams, NEW t,
           streams' \subseteq (streams \ {s}) \cup {t},
           ksql' = ksql, StreamOK(t), t.id = s.id,
           t.client # "gone" => s.client # "gone",
           t.client = "reading" /\ t.server # "refused" =>
               /\ s.client = "reading" /\ s.server # "refused"
               /\ t.read = s.read
               /\ \A j \in 1..s.read : t.frames[j] = s.frames[j]
    PROVE  StreamInv' /\ PageInv'
<1> USE DEF KsqlInv
<1>1. /\ \A q \in streams' : StreamOK(q)
      /\ \A q \in streams' : q.client # "gone" => q.id = ksql'.pipeId
      /\ \A q, u \in streams' : q.client # "gone" /\ u.client # "gone" => q = u
  BY DEF StreamInv
<1>2. ASSUME t.client = "reading", t.server # "refused"
      PROVE  Shows(t)'
  <2>1. /\ Shows(s) /\ s.read \in Nat /\ t.read = s.read
        /\ \A j \in 1..s.read : t.frames[j] = s.frames[j]
        /\ ksql'.data = ksql.data /\ ksql'.opened = ksql.opened
    BY <1>2 DEF StreamInv, StreamOK, Streams
  <2>2. Displayed(t) = Displayed(s)
    <3>1. \A j \in 1..s.read : \A k \in j + 1..s.read : k \in 1..s.read
      BY <2>1
    <3>2. \A j \in 1..s.read :
              j \in Displayed(t) <=> j \in Displayed(s)
      BY <2>1, <3>1 DEF Displayed
    <3>3. Displayed(t) \subseteq 1..s.read /\ Displayed(s) \subseteq 1..s.read
      BY <2>1 DEF Displayed
    <3> QED
      BY <3>2, <3>3, Zenon
  <2>3. ksql.data # <<>> => s.read \in 1..s.read
    <3>1. s.read = 0 => Displayed(s) = {}
      BY DEF Displayed
    <3>2. ksql.data # <<>> => 1 \in DOMAIN ksql.data
      BY DEF PageInv, Pages
    <3>3. ksql.data # <<>> => s.read # 0
      BY <2>1, <3>1, <3>2 DEF Shows
    <3> QED
      BY <2>1, <3>3
  <2> QED
    BY <2>1, <2>2, <2>3 DEF Shows
<1>3. \A q \in streams' :
        q.client = "reading" /\ q.server # "refused" => Shows(q)'
  <2>1. \A q \in streams : Shows(q) <=> Shows(q)'
    BY DEF Shows
  <2> QED
    BY <1>2, <2>1 DEF StreamInv
<1>4. InOrder' /\ PageInv'
  BY DEF StreamInv, InOrder, PageInv, Mounted, isSuccess
<1> QED
  BY <1>1, <1>3, <1>4 DEF StreamInv
\* The page aborts every attempt and may start another.
LEMMA EffectStep ==
    ASSUME KsqlInv, NEW new \in Ids \cup {NoPipe}, Effect(ksql.pipeId, new),
           ksql'.pipeId = new, new # NoPipe => ksql'.opened # new
    PROVE  StreamInv'
<1> USE DEF KsqlInv
<1>1. \A q \in streams' :
          \/ q.client = "gone" /\ StreamOK(q)
          \/ q = Attempt(new, 1) /\ new \in Ids
  <2>1. \A q \in Aborted(streams, ksql.pipeId) :
            q.client = "gone" /\ StreamOK(q)
    <3> SUFFICES ASSUME NEW s \in streams
                 PROVE  LET q == IF s.id = ksql.pipeId /\ s.client # "gone"
                                 THEN [s EXCEPT !.client = "gone"] ELSE s
                        IN  q.client = "gone" /\ StreamOK(q)
      BY DEF Aborted
    <3>1. CASE s.client = "gone"
      BY <3>1 DEF StreamInv
    <3>2. CASE s.client # "gone"
      <4> DEFINE q == [s EXCEPT !.client = "gone"]
      <4>1. s.id = ksql.pipeId /\ StreamOK(s)
        BY <3>2 DEF StreamInv
      <4>2. /\ q \in Streams /\ q.client = "gone" /\ q.server = s.server
            /\ q.frames = s.frames /\ q.read = s.read
        BY <4>1 DEF StreamOK, Streams
      <4> HIDE DEF q
      <4>3. StreamOK(q)
        BY <4>1, <4>2 DEF StreamOK
      <4> QED
        BY <3>2, <4>1, <4>2, <4>3 DEF q
    <3> QED
      BY <3>1, <3>2
  <2>2. streams' \subseteq Aborted(streams, ksql.pipeId)
                           \cup IF new = NoPipe THEN {} ELSE {Attempt(new, 1)}
    BY DEF Effect, Held
  <2> QED
    BY <2>1, <2>2
<1>2. new \in Ids =>
        /\ StreamOK(Attempt(new, 1)) /\ Attempt(new, 1).id = new
        /\ Attempt(new, 1).client = "waiting"
  BY KsqlNumbers DEF Attempt, StreamOK, Streams
<1>3. InOrder'
  BY DEF InOrder
<1> QED
  BY <1>1, <1>2, <1>3 DEF StreamInv
LEMMA PageIsTyped == ASSUME KsqlInv PROVE ksql.data \in Seq(Ids \X (1..MaxFrames))
                       /\ ksql.mount \in 1..MaxMounts
  BY DEF KsqlInv, PageInv, Pages
LEMMA Aborts ==
    ASSUME KsqlInv, abortFetchData PROVE KsqlInv'
<1> USE DEF KsqlInv
<1>1. /\ streams' \subseteq Aborted(streams, ksql.pipeId) /\ ksql' = ksql
      /\ UNCHANGED <<posts, pipes, configured, clock, runs, ksqlSpent>>
  BY DEF abortFetchData, Held
<1>2. \A q \in streams' : q.client = "gone" /\ StreamOK(q)
  <2> SUFFICES ASSUME NEW s \in streams
               PROVE  LET q == IF s.id = ksql.pipeId /\ s.client # "gone"
                               THEN [s EXCEPT !.client = "gone"] ELSE s
                      IN  q.client = "gone" /\ StreamOK(q)
    BY <1>1 DEF Aborted
  <2>1. CASE s.client = "gone"
    BY <2>1 DEF StreamInv
  <2>2. CASE s.client # "gone"
    <3> DEFINE q == [s EXCEPT !.client = "gone"]
    <3>1. s.id = ksql.pipeId /\ StreamOK(s)
      BY <2>2 DEF StreamInv
    <3>2. /\ q \in Streams /\ q.client = "gone" /\ q.server = s.server
          /\ q.frames = s.frames /\ q.read = s.read
      BY <3>1 DEF StreamOK, Streams
    <3> HIDE DEF q
    <3>3. StreamOK(q)
      BY <3>1, <3>2 DEF StreamOK
    <3> QED
      BY <2>2, <3>1, <3>2, <3>3 DEF q
  <2> QED
    BY <2>1, <2>2
<1>3. InOrder' /\ PageInv'
  BY <1>1 DEF StreamInv, InOrder, PageInv, Mounted, isSuccess
<1>4. StreamInv'
  BY <1>2, <1>3 DEF StreamInv
<1>5. RegistryInv'
  BY <1>1, RegistryKeeps DEF RegistryInv, WorldOK
<1> QED
  BY <1>3, <1>4, <1>5
----------------------------------------------------------------------------
\* The page is left, shown again, or keeps its place.
LEMMA ShowStep ==
    ASSUME KsqlInv, NEW route \in BOOLEAN, NEW tables \in BOOLEAN,
           NEW lists \in BOOLEAN, Show(route, tables, lists)
    PROVE  /\ PageInv' /\ StreamInv'
           /\ ksql'.pipeId \in {ksql.pipeId, NoPipe}
           /\ ksql'.opened \in {ksql.opened, ksql.pipeId, NoPipe}
<1> USE DEF KsqlInv
<1> DEFINE on == route /\ tables /\ lists
           mount == IF on /\ ~Mounted THEN ksql.mount + 1 ELSE ksql.mount
<1>1. CASE on /\ Mounted
  <2>1. /\ ksql' = [ksql EXCEPT !.route = route, !.tables = tables,
                                !.streams = lists]
        /\ streams' = streams
    BY <1>1 DEF Show
  <2>2. /\ ksql'.route /\ ksql'.tables /\ ksql'.streams
        /\ ksql'.pipeId = ksql.pipeId /\ ksql'.opened = ksql.opened
        /\ ksql'.data = ksql.data /\ ksql' \in Pages
    BY <1>1, <2>1 DEF PageInv, Pages
  <2>3. PageInv'
    BY <2>2 DEF PageInv, Mounted, isSuccess
  <2>4. \A s \in streams : Shows(s) <=> Shows(s)'
    BY <2>2 DEF Shows
  <2>5. StreamInv'
    BY <2>1, <2>2, <2>4 DEF StreamInv, InOrder
  <2> QED
    BY <2>2, <2>3, <2>5
<1>2. CASE ~(on /\ Mounted)
  <2>1. /\ mount <= MaxMounts /\ ksql' = Fresh(route, tables, lists, mount)
        /\ IF Mounted /\ ~on THEN Effect(ksql.pipeId, NoPipe)
           ELSE UNCHANGED streams
    BY <1>2 DEF Show
  <2>2. mount \in 1..MaxMounts
    BY <2>1, PageIsTyped, KsqlNumbers
  <2>3. /\ ksql'.pipeId = NoPipe /\ ksql'.opened = NoPipe
        /\ ksql'.data = <<>> /\ ksql' \in Pages
    BY <2>1, <2>2 DEF Fresh, Pages
  <2>4. PageInv'
    BY <2>3 DEF PageInv
  <2>5. CASE Mounted
    <3>1. Effect(ksql.pipeId, NoPipe)
      BY <1>2, <2>1, <2>5
    <3> QED
      BY <2>3, <2>4, <3>1, EffectStep
  <2>6. CASE ~Mounted
    <3>1. streams' = streams /\ ksql.pipeId = NoPipe
      BY <2>1, <2>6 DEF PageInv
    <3>2. \A s \in streams : s.client = "gone"
      BY <3>1, KsqlNumbers DEF StreamInv, StreamOK, Streams
    <3>3. StreamInv'
      BY <2>3, <3>1, <3>2 DEF StreamInv, InOrder
    <3> QED
      BY <2>3, <2>4, <3>3
  <2> QED
    BY <2>5, <2>6
<1> QED
  BY <1>1, <1>2
LEMMA PageActions ==
    ASSUME KsqlInv, Navigate \/ useKsqlTables \/ useKsqlStreams \/ Refetch
    PROVE  KsqlInv'
<1> USE DEF KsqlInv
<1>1. \E route, tables, lists \in BOOLEAN : Show(route, tables, lists)
  <2>1. /\ ksql.route \in BOOLEAN /\ (~ksql.route) \in BOOLEAN
        /\ ksql.tables \in BOOLEAN /\ ksql.streams \in BOOLEAN
    BY DEF PageInv, Pages
  <2>2. CASE Navigate
    BY <2>1, <2>2 DEF Navigate
  <2>3. CASE useKsqlTables
    BY <2>1, <2>3 DEF useKsqlTables
  <2>4. CASE useKsqlStreams
    BY <2>1, <2>4 DEF useKsqlStreams
  <2>5. CASE Refetch
    BY <2>1, <2>5 DEF Refetch
  <2> QED
    BY <2>2, <2>3, <2>4, <2>5
<1>2. /\ UNCHANGED <<posts, pipes, configured, clock, runs>>
      /\ Spend("faults", KsqlFaults) \/ UNCHANGED ksqlSpent
  BY DEF Navigate, useKsqlTables, useKsqlStreams, Refetch
<1>3. /\ PageInv' /\ StreamInv'
      /\ ksql'.pipeId \in {ksql.pipeId, NoPipe}
      /\ ksql'.opened \in {ksql.opened, ksql.pipeId, NoPipe}
  BY <1>1, ShowStep
<1>4. configured' \in BOOLEAN
  BY <1>2 DEF RegistryInv, WorldOK
<1>5. RegistryInv'
  BY <1>2, <1>3, <1>4, FaultSpent, RegistryKeeps
<1> QED
  BY <1>3, <1>5
LEMMA Clears ==
    ASSUME KsqlInv, handleClear PROVE KsqlInv'
<1> USE DEF KsqlInv
<1>1. /\ ksql' = [ksql EXCEPT !.pipeId = NoPipe]
      /\ Effect(ksql.pipeId, NoPipe)
      /\ UNCHANGED <<posts, pipes, configured, clock, runs, ksqlSpent>>
  BY DEF handleClear
<1>2. /\ ksql'.pipeId = NoPipe /\ ksql'.opened = ksql.opened
      /\ ksql' \in Pages
  BY <1>1 DEF PageInv, Pages
<1>3. PageInv' /\ StreamInv'
  BY <1>1, <1>2, EffectStep DEF PageInv
<1>4. configured' \in BOOLEAN
  BY <1>1 DEF RegistryInv, WorldOK
<1>5. RegistryInv'
  BY <1>1, <1>2, <1>4, FaultSpent, RegistryKeeps
<1> QED
  BY <1>3, <1>5

\* The answer to a POST turns the page to its pipe, if it is still the same
\* page; the id was never shown before.
LEMMA Turns ==
    ASSUME KsqlInv, NEW p, setPipeId(p) PROVE KsqlInv'
<1> USE DEF KsqlInv
<1>1. /\ p \in posts /\ posts' = posts \ {p}
      /\ UNCHANGED <<pipes, configured, clock, runs, ksqlSpent>>
  BY DEF setPipeId
<1>2. CASE UNCHANGED <<ksql, streams>>
  <2>1. PageInv' /\ StreamInv'
    BY <1>2 DEF PageInv, Mounted, isSuccess, StreamInv, InOrder, Shows
  <2>2. configured' \in BOOLEAN
    BY <1>1 DEF RegistryInv, WorldOK
  <2>3. RegistryInv'
    BY <1>1, <1>2, <2>2, FaultSpent, RegistryKeeps
  <2> QED
    BY <2>1, <2>3
<1>3. CASE /\ Mounted /\ ksql' = [ksql EXCEPT !.pipeId = p.id]
           /\ Effect(ksql.pipeId, p.id)
  <2>1. /\ p.id \in Ids /\ p.id <= ksqlSpent.submits /\ p.id # ksql.opened
        /\ \A q \in posts' : q.id # p.id
    BY <1>1 DEF RegistryInv, PostsOK, PostRecords
  <2>2. /\ ksql'.pipeId = p.id /\ ksql'.opened = ksql.opened
        /\ ksql' \in Pages /\ ksql'.route = ksql.route
        /\ ksql'.tables = ksql.tables /\ ksql'.streams = ksql.streams
    BY <1>3, <2>1 DEF PageInv, Pages
  <2>3. PageInv'
    BY <1>3, <2>2 DEF PageInv, Mounted, isSuccess
  <2>4. StreamInv'
    BY <1>3, <2>1, <2>2, EffectStep
  <2>5. PipesOK' /\ RunsOK'
    BY <1>1 DEF RegistryInv, PipesOK, RunsOK
  <2>6. PostsOK' /\ WorldOK'
    BY <1>1, <2>1, <2>2 DEF RegistryInv, PostsOK, PostRecords, WorldOK
  <2> QED
    BY <2>3, <2>4, <2>5, <2>6 DEF RegistryInv
<1> QED
  BY <1>2, <1>3 DEF setPipeId

\* A POST that comes back with an error, and one that leaves under a new id.
LEMMA PostsFail ==
    ASSUME KsqlInv, NEW p, PostFails(p) PROVE KsqlInv'
<1> USE DEF KsqlInv
<1>1. /\ posts' \subseteq posts
      /\ UNCHANGED <<ksql, pipes, streams, configured, clock, runs>>
      /\ Spend("faults", KsqlFaults) \/ UNCHANGED ksqlSpent
  BY DEF PostFails
<1>2. PageInv' /\ StreamInv'
  BY <1>1 DEF PageInv, Mounted, isSuccess, StreamInv, InOrder, Shows
<1>3. configured' \in BOOLEAN
  BY <1>1 DEF RegistryInv, WorldOK
<1>4. RegistryInv'
  BY <1>1, <1>3, FaultSpent, RegistryKeeps
<1> QED
  BY <1>2, <1>4
LEMMA Submits ==
    ASSUME KsqlInv, NEW kind \in Kinds \cup {"invalid"}, submitHandler(kind)
    PROVE  KsqlInv'
<1> USE DEF KsqlInv, RegistryInv
<1> DEFINE n == ksqlSpent.submits + 1
           new == executeKsql(n, kind)
<1>1. /\ ksqlSpent.submits \in Nat /\ ksqlSpent.submits < MaxSubmits
      /\ ksqlSpent' \in [submits : Nat, faults : Nat]
      /\ ksqlSpent'.submits = n
  BY DEF submitHandler, Spend, WorldOK
<1>2. /\ posts' = posts \cup {new}
      /\ UNCHANGED <<ksql, pipes, streams, configured, clock, runs>>
  BY <1>1 DEF submitHandler
<1>3. n \in Ids /\ n \in Nat /\ ksqlSpent.submits < n
  BY <1>1, KsqlNumbers
<1>4. /\ new \in PostRecords /\ new.id = n /\ new.phase = "sent"
  BY <1>3, PageIsTyped DEF executeKsql, PostRecords
<1> HIDE DEF new
<1>5. PageInv' /\ StreamInv'
  BY <1>2 DEF PageInv, Mounted, isSuccess, StreamInv, InOrder, Shows
<1>6. PipesOK' /\ RunsOK' /\ WorldOK'
  <2>1. PipesOK'
    BY <1>1, <1>2, <1>3, KsqlNumbers DEF PipesOK
  <2>2. RunsOK'
    BY <1>1, <1>2, <1>3, KsqlNumbers DEF RunsOK
  <2>3. WorldOK'
    <3>1. ksql.pipeId \in Nat /\ ksql.opened \in Nat
      BY KsqlNumbers DEF PageInv, Pages
    <3> QED
      BY <1>1, <1>2, <1>3, <3>1, KsqlNumbers DEF WorldOK
  <2> QED
    BY <2>1, <2>2, <2>3
<1>7. /\ \A p \in posts : p.id # n
      /\ n # ksql.pipeId /\ n # ksql.opened
      /\ n \notin DOMAIN pipes /\ runs[n] = <<>>
  <2>1. \A p \in posts : p.id # n
    BY <1>1, <1>3, KsqlNumbers DEF PostsOK, PostRecords
  <2>2. n # ksql.pipeId /\ n # ksql.opened
    BY <1>1, <1>3, KsqlNumbers DEF WorldOK, PageInv, Pages
  <2>3. n \notin DOMAIN pipes
    BY <1>1, <1>3, KsqlNumbers DEF PipesOK
  <2>4. runs[n] = <<>>
    BY <1>1, <1>3, KsqlNumbers DEF RunsOK
  <2> QED
    BY <2>1, <2>2, <2>3, <2>4
<1>8. PostsOK'
  BY <1>1, <1>2, <1>3, <1>4, <1>7, KsqlNumbers DEF PostsOK, PostRecords
<1> QED
  BY <1>5, <1>6, <1>8
----------------------------------------------------------------------------
\* The registry is left alone by whatever the two ends of an attempt do.
LEMMA RegistryRests ==
    ASSUME KsqlInv,
           UNCHANGED <<posts, pipes, configured, clock, runs>>,
           Spend("faults", KsqlFaults) \/ UNCHANGED ksqlSpent,
           ksql'.pipeId = ksql.pipeId,
           ksql'.opened \in {ksql.opened, ksql.pipeId}
    PROVE  RegistryInv'
<1>1. configured' \in BOOLEAN
  BY DEF KsqlInv, RegistryInv, WorldOK
<1> QED
  BY <1>1, FaultSpent, RegistryKeeps
LEMMA AttemptOf ==
    ASSUME KsqlInv, NEW s \in streams
    PROVE  /\ StreamOK(s) /\ s \in Streams
           /\ s.client # "gone" =>
                 s.id = ksql.pipeId /\ \A q \in streams : q # s => q.client = "gone"
  BY DEF KsqlInv, StreamInv, StreamOK
LEMMA Opens ==
    ASSUME KsqlInv, NEW s, onopen(s) PROVE KsqlInv'
<1> USE DEF KsqlInv
<1> DEFINE t == [s EXCEPT !.client = "reading"]
<1>1. /\ s \in streams /\ s.client = "waiting"
      /\ s.frames # <<>> \/ ServerEnded(s)
      /\ streams' \subseteq (streams \ {s}) \cup {t}
      /\ ksql' = IF s.server = "refused" THEN ksql
                 ELSE [ksql EXCEPT !.data = <<>>, !.opened = s.id]
      /\ UNCHANGED <<posts, pipes, configured, clock, runs, ksqlSpent>>
  BY DEF onopen, Becomes, Held
<1>2. StreamOK(s) /\ s \in Streams /\ s.id = ksql.pipeId /\ s.read = 0
  BY <1>1, AttemptOf DEF StreamOK
<1>3. /\ t \in Streams /\ t.id = s.id /\ t.client = "reading"
      /\ t.server = s.server /\ t.frames = s.frames /\ t.read = s.read
  BY <1>2 DEF Streams
<1> HIDE DEF t
<1>4. s.server # "requested"
  BY <1>1, <1>2 DEF StreamOK, ServerEnded
<1>5. StreamOK(t)
  BY <1>1, <1>2, <1>3, <1>4 DEF StreamOK, ServerEnded
<1>6. CASE s.server = "refused"
  <2>1. ksql' = ksql
    BY <1>1, <1>6
  <2>2. StreamInv' /\ PageInv'
    BY <1>1, <1>3, <1>5, <1>6, <2>1, AttemptStep
  <2> QED
    BY <1>1, <2>1, <2>2, RegistryRests
<1>7. CASE s.server # "refused"
  <2>1. ksql' = [ksql EXCEPT !.data = <<>>, !.opened = s.id]
    BY <1>1, <1>7
  <2>2. /\ ksql'.data = <<>> /\ ksql'.opened = s.id /\ ksql' \in Pages
        /\ ksql'.pipeId = ksql.pipeId /\ ksql'.route = ksql.route
        /\ ksql'.tables = ksql.tables /\ ksql'.streams = ksql.streams
    <3>1. s.id \in Ids /\ <<>> \in Seq(Ids \X (1..MaxFrames))
      BY <1>2 DEF Streams
    <3>2. ksql' \in Pages
      BY <2>1, <3>1 DEF PageInv, Pages
    <3> QED
      BY <2>1, <3>2 DEF PageInv, Pages
  <2>3. PageInv'
    BY <2>2 DEF PageInv, Mounted, isSuccess
  <2>4. /\ \A q \in streams' : StreamOK(q)
        /\ \A q \in streams' : q # t => q.client = "gone"
    BY <1>1, <1>5, AttemptOf
  <2>5. Displayed(t) = {}
    BY <1>2, <1>3 DEF Displayed
  <2>6. Shows(t)'
    BY <1>3, <2>2, <2>5 DEF Shows
  <2>7. InOrder'
    BY <2>2 DEF InOrder
  <2>8. StreamInv'
    BY <1>2, <1>3, <2>2, <2>4, <2>6, <2>7 DEF StreamInv
  <2>9. RegistryInv'
    BY <1>1, <1>2, <2>2, RegistryRests
  <2> QED
    BY <2>3, <2>8, <2>9
<1> QED
  BY <1>6, <1>7
LEMMA ErrsAgain ==
    ASSUME KsqlInv, NEW s, onerror(s) PROVE KsqlInv'
<1> USE DEF KsqlInv
<1> DEFINE t == [s EXCEPT !.client = "gone"]
           u == Attempt(s.id, s.try + 1)
<1>1. /\ s \in streams /\ s.client # "gone"
      /\ streams' \subseteq (streams \ {s}) \cup {t, u}
      /\ UNCHANGED <<ksql, posts, pipes, configured, clock, runs>>
      /\ Spend("faults", KsqlFaults)
  BY DEF onerror, Held
<1>2. StreamOK(s) /\ s \in Streams /\ s.id = ksql.pipeId
  BY <1>1, AttemptOf
<1>3. /\ t \in Streams /\ t.client = "gone"
      /\ t.server = s.server /\ t.frames = s.frames /\ t.read = s.read
  BY <1>2 DEF Streams
<1>4. /\ u \in Streams /\ u.id = s.id /\ u.client = "waiting"
      /\ u.server = "requested" /\ u.frames = <<>> /\ u.read = 0
  BY <1>2 DEF Streams, Attempt
<1> HIDE DEF t, u
<1>5. StreamOK(t)
  BY <1>2, <1>3 DEF StreamOK
<1>6. StreamOK(u)
  BY <1>4, KsqlNumbers DEF StreamOK
<1>7. /\ \A q \in streams' : StreamOK(q)
      /\ \A q \in streams' : q # u => q.client = "gone"
  BY <1>1, <1>3, <1>5, <1>6, AttemptOf
<1>8. InOrder' /\ PageInv'
  BY <1>1 DEF StreamInv, InOrder, PageInv, Mounted, isSuccess
<1>9. StreamInv'
  BY <1>1, <1>2, <1>4, <1>7, <1>8 DEF StreamInv
<1> QED
  BY <1>1, <1>8, <1>9, RegistryRests

\* What is displayed of the first frames of a result, and how it grows.
ShownOf(frames, n) ==
    {j \in 1..n : /\ frames[j] # "Execution error"
                  /\ \A k \in j + 1..n : ~Replaces(frames[k])}
LEMMA ShownGrows ==
    ASSUME NEW frames, NEW n \in Nat
    PROVE  /\ Replaces(frames[n + 1]) => ShownOf(frames, n + 1) = {n + 1}
           /\ frames[n + 1] = "Row" =>
                 ShownOf(frames, n + 1) = ShownOf(frames, n) \cup {n + 1}
           /\ frames[n + 1] = "Execution error" =>
                 ShownOf(frames, n + 1) = ShownOf(frames, n)
<1>1. \A j : j \in 1..n + 1 <=> j \in 1..n \/ j = n + 1
  OBVIOUS
<1>2. \A j \in 1..n :
          \A k : k \in j + 1..n + 1 <=> k \in j + 1..n \/ k = n + 1
  OBVIOUS
<1>3. \A k : k \notin (n + 1) + 1..n + 1
  OBVIOUS
<1>4. ASSUME ~Replaces(frames[n + 1]), NEW j \in 1..n
      PROVE  j \in ShownOf(frames, n + 1) <=> j \in ShownOf(frames, n)
  BY <1>1, <1>2, <1>4 DEF ShownOf
<1>5. /\ ShownOf(frames, n) \subseteq 1..n
      /\ ShownOf(frames, n + 1) \subseteq 1..n \cup {n + 1}
  BY <1>1 DEF ShownOf
<1>6. ASSUME Replaces(frames[n + 1])
      PROVE  ShownOf(frames, n + 1) = {n + 1}
  <2>1. n + 1 \in ShownOf(frames, n + 1)
    BY <1>1, <1>3, <1>6 DEF ShownOf, Replaces
  <2>2. \A j \in 1..n : n + 1 \in j + 1..n + 1
    OBVIOUS
  <2>3. \A j \in 1..n : j \notin ShownOf(frames, n + 1)
    BY <1>6, <2>2 DEF ShownOf
  <2> QED
    BY <1>5, <2>1, <2>3
<1>7. ASSUME frames[n + 1] = "Row"
      PROVE  ShownOf(frames, n + 1) = ShownOf(frames, n) \cup {n + 1}
  <2>1. n + 1 \in ShownOf(frames, n + 1) /\ ~Replaces(frames[n + 1])
    BY <1>1, <1>3, <1>7 DEF ShownOf, Replaces
  <2> QED
    BY <1>4, <1>5, <2>1
<1>8. ASSUME frames[n + 1] = "Execution error"
      PROVE  ShownOf(frames, n + 1) = ShownOf(frames, n)
  <2>1. n + 1 \notin ShownOf(frames, n + 1) /\ ~Replaces(frames[n + 1])
    BY <1>8 DEF ShownOf, Replaces
  <2> QED
    BY <1>4, <1>5, <2>1
<1> QED
  BY <1>6, <1>7, <1>8
LEMMA RowAdded ==
    ASSUME NEW S, NEW T, NEW data \in Seq(S \X T), NEW x \in S, NEW i \in T,
           NEW more, more = Append(data, <<x, i>>)
    PROVE  /\ more \in Seq(S \X T) /\ Len(data) \in Nat
           /\ DOMAIN more = 1..Len(data) + 1 /\ DOMAIN data = 1..Len(data)
           /\ Len(more) = Len(data) + 1
           /\ \A k \in 1..Len(data) : more[k] = data[k]
           /\ more[Len(data) + 1] = <<x, i>>
           /\ {more[k][2] : k \in DOMAIN more}
                  = {data[k][2] : k \in DOMAIN data} \cup {i}
<1>1. more \in Seq(S \X T) /\ Len(data) \in Nat
  OBVIOUS
<1>2. DOMAIN more = 1..Len(data) + 1 /\ DOMAIN data = 1..Len(data)
  OBVIOUS
<1>3. /\ Len(more) = Len(data) + 1
      /\ \A k \in 1..Len(data) : more[k] = data[k]
      /\ more[Len(data) + 1] = <<x, i>>
  OBVIOUS
<1>4. \A k : k \in DOMAIN more <=> k \in DOMAIN data \/ k = Len(data) + 1
  BY <1>1, <1>2
<1>5. /\ more[Len(data) + 1][2] = i
      /\ \A k \in DOMAIN data : more[k][2] = data[k][2]
  BY <1>2, <1>3
<1>6. \A y : y \in {more[k][2] : k \in DOMAIN more}
             <=> y \in {data[k][2] : k \in DOMAIN data} \cup {i}
  BY <1>4, <1>5
<1> QED
  BY <1>1, <1>2, <1>3, <1>6

\* The page reads a frame: it replaces what is shown, follows the last row,
\* or ends the result.
LEMMA FrameShown ==
    ASSUME KsqlInv, NEW s \in streams, s.client = "reading",
           s.read < Len(s.frames), NEW t, t.frames = s.frames,
           t.read = s.read + 1, t.id = s.id,
           ksql'.data = onmessage(ksql.data, s.id, s.frames, s.read + 1),
           ksql'.opened = ksql.opened, ksql'.pipeId = ksql.pipeId
    PROVE  /\ ksql'.data \in Seq(Ids \X (1..MaxFrames))
           /\ Shows(t)' /\ InOrder'
<1> DEFINE n == s.read
           frames == s.frames
           data == ksql.data
           more == ksql'.data
           id == s.id
<1>1. /\ StreamOK(s) /\ s \in Streams /\ id = ksql.pipeId
  BY AttemptOf
<1>2. n \in Nat /\ frames \in Seq(FrameKinds) /\ id \in Ids
  BY <1>1 DEF Streams
<1>3. Len(frames) <= MaxFrames /\ n < Len(frames) /\ Len(frames) \in Nat
  <2>1. Len(s.frames) <= MaxFrames
    BY <1>1 DEF StreamOK
  <2>2. Len(frames) \in Nat
    BY <1>2
  <2> QED
    BY <2>1, <2>2
<1>4. n + 1 \in 1..MaxFrames /\ n + 1 \in 1..Len(frames)
  BY <1>2, <1>3, KsqlNumbers
<1>5. frames[n + 1] \in FrameKinds
  BY <1>2, <1>4
<1>6. Shows(s)
  <2>1. s.frames # <<>>
    BY <1>2, <1>3
  <2>2. s.server # "refused"
    BY <1>1, <2>1 DEF StreamOK
  <2> QED
    BY <2>2 DEF KsqlInv, StreamInv
<1>7. /\ data \in Seq(Ids \X (1..MaxFrames)) /\ Len(data) \in Nat
      /\ DOMAIN data = 1..Len(data)
  BY PageIsTyped
<1>8. /\ Displayed(s) = ShownOf(frames, n)
      /\ Displayed(t) = ShownOf(frames, n + 1)
  BY DEF Displayed, ShownOf
<1>9. /\ ksql.opened = id
      /\ {data[k][2] : k \in DOMAIN data} = ShownOf(frames, n)
      /\ data # <<>> /\ frames[n] # "Execution error" =>
            data[Len(data)][2] = n
  BY <1>6, <1>8 DEF Shows
<1>10. ksql.pipeId # NoPipe /\ ksql.opened = ksql.pipeId =>
         \A k \in DOMAIN data : data[k] = <<id, data[1][2] + k - 1>>
  BY <1>1 DEF KsqlInv, StreamInv, InOrder
<1>11. SUFFICES
         /\ more \in Seq(Ids \X (1..MaxFrames))
         /\ {more[k][2] : k \in DOMAIN more} = ShownOf(frames, n + 1)
         /\ more # <<>> /\ frames[n + 1] # "Execution error" =>
               more[Len(more)][2] = n + 1
         /\ ksql.opened = id /\ id # NoPipe =>
               \A k \in DOMAIN more : more[k] = <<id, more[1][2] + k - 1>>
  BY <1>1, <1>8, <1>9 DEF Shows, InOrder
<1>12. more = onmessage(data, id, frames, n + 1)
  OBVIOUS
<1> HIDE DEF n, frames, data, more, id
<1>13. CASE Replaces(frames[n + 1])
  <2>1. more = << <<id, n + 1>> >>
    BY <1>12, <1>13 DEF onmessage, Replaces
  <2>2. ShownOf(frames, n + 1) = {n + 1}
    BY <1>2, <1>13, ShownGrows
  <2>3. /\ DOMAIN more = {1} /\ more[1] = <<id, n + 1>> /\ Len(more) = 1
        /\ more[1][2] = n + 1 /\ more \in Seq(Ids \X (1..MaxFrames))
    BY <1>2, <1>4, <2>1
  <2>4. {more[k][2] : k \in DOMAIN more} = {n + 1}
    BY <2>3
  <2>5. \A k \in DOMAIN more : more[k] = <<id, more[1][2] + k - 1>>
    BY <1>2, <2>3
  <2> QED
    BY <2>2, <2>3, <2>4, <2>5
<1>14. CASE frames[n + 1] = "Row"
  <2>1. more = Append(data, <<id, n + 1>>)
    BY <1>12, <1>14 DEF onmessage, Replaces
  <2>2. ShownOf(frames, n + 1) = ShownOf(frames, n) \cup {n + 1}
    BY <1>2, <1>14, ShownGrows
  <2>3. /\ more \in Seq(Ids \X (1..MaxFrames))
        /\ DOMAIN more = 1..Len(data) + 1
        /\ Len(more) = Len(data) + 1
        /\ \A k \in 1..Len(data) : more[k] = data[k]
        /\ more[Len(data) + 1] = <<id, n + 1>>
        /\ {more[k][2] : k \in DOMAIN more}
               = {data[k][2] : k \in DOMAIN data} \cup {n + 1}
    BY <1>2, <1>4, <1>7, <2>1, RowAdded
  <2>4. more[Len(more)][2] = n + 1
    BY <2>3
  <2>5. ASSUME ksql.opened = id, id # NoPipe
        PROVE  \A k \in DOMAIN more : more[k] = <<id, more[1][2] + k - 1>>
    <3>1. CASE data = <<>>
      <4>1. Len(data) = 0 /\ DOMAIN more = {1} /\ more[1] = <<id, n + 1>>
        BY <2>3, <3>1
      <4> QED
        BY <1>2, <4>1
    <3>2. CASE data # <<>>
      <4>1. 1 \in DOMAIN data /\ Len(data) \in DOMAIN data
        BY <1>7, <3>2
      <4>2. data[1][2] \in ShownOf(frames, n)
        BY <1>9, <4>1
      <4>3. n # 0 /\ n \in 1..Len(frames) - 1
        <5>1. ShownOf(frames, n) # {} => 1..n # {}
          BY DEF ShownOf
        <5>2. n # 0
          BY <4>2, <5>1
        <5> QED
          BY <1>2, <1>3, <5>2
      <4>4. frames[n] # "Execution error"
        BY <1>1, <4>3 DEF StreamOK, frames
      <4>5. data[Len(data)][2] = n
        BY <1>9, <3>2, <4>4
      <4>6. \A k \in DOMAIN data : data[k] = <<id, data[1][2] + k - 1>>
        BY <1>1, <1>10, <2>5
      <4>7. data[1][2] \in Nat
        BY <1>7, <4>1
      <4>8. n = data[1][2] + Len(data) - 1
        BY <4>1, <4>5, <4>6
      <4>9. more[1] = data[1]
        BY <1>7, <2>3, <4>1
      <4>10. more[Len(data) + 1] = <<id, data[1][2] + (Len(data) + 1) - 1>>
        <5>1. \A a, b \in Nat : n = a + b - 1 => n + 1 = a + (b + 1) - 1
          BY <1>2
        <5>2. n + 1 = data[1][2] + (Len(data) + 1) - 1
          BY <1>7, <4>7, <4>8, <5>1
        <5> QED
          BY <2>3, <5>2
      <4>11. \A k \in DOMAIN more : k \in DOMAIN data \/ k = Len(data) + 1
        BY <1>7, <2>3
      <4> QED
        BY <1>7, <2>3, <4>6, <4>9, <4>10, <4>11
    <3> QED
      BY <3>1, <3>2
  <2> QED
    BY <1>9, <2>2, <2>3, <2>4, <2>5
<1>15. CASE frames[n + 1] = "Execution error"
  <2>1. more = data
    BY <1>12, <1>15 DEF onmessage, Replaces
  <2>2. ShownOf(frames, n + 1) = ShownOf(frames, n)
    BY <1>2, <1>15, ShownGrows
  <2> QED
    BY <1>1, <1>7, <1>9, <1>10, <1>15, <2>1, <2>2
<1> QED
  BY <1>5, <1>13, <1>14, <1>15 DEF FrameKinds, Replaces
LEMMA Reads ==
    ASSUME KsqlInv, NEW s, Message(s) PROVE KsqlInv'
<1> USE DEF KsqlInv
<1> DEFINE t == [s EXCEPT !.read = @ + 1]
<1>1. /\ s \in streams /\ s.client = "reading" /\ s.read < Len(s.frames)
      /\ streams' \subseteq (streams \ {s}) \cup {t}
      /\ ksql' = [ksql EXCEPT !.data =
                     onmessage(ksql.data, s.id, s.frames, s.read + 1)]
      /\ UNCHANGED <<posts, pipes, configured, clock, runs, ksqlSpent>>
  BY DEF Message, Becomes, Held
<1>2. StreamOK(s) /\ s \in Streams /\ s.id = ksql.pipeId
  BY <1>1, AttemptOf
<1>3. /\ t \in Streams /\ t.id = s.id /\ t.client = s.client
      /\ t.server = s.server /\ t.frames = s.frames /\ t.read = s.read + 1
  BY <1>2 DEF Streams
<1> HIDE DEF t
<1>4. StreamOK(t)
  <2>1. s.read \in Nat /\ Len(s.frames) \in Nat
    BY <1>2 DEF Streams
  <2>2. t.read <= Len(t.frames)
    BY <1>1, <1>3, <2>1
  <2> QED
    BY <1>1, <1>2, <1>3, <2>2 DEF StreamOK, ServerEnded
<1>5. /\ ksql'.data = onmessage(ksql.data, s.id, s.frames, s.read + 1)
      /\ ksql'.opened = ksql.opened /\ ksql'.pipeId = ksql.pipeId
      /\ ksql'.route = ksql.route /\ ksql'.mount = ksql.mount
      /\ ksql'.tables = ksql.tables /\ ksql'.streams = ksql.streams
  BY <1>1 DEF PageInv, Pages
<1>6. /\ ksql'.data \in Seq(Ids \X (1..MaxFrames))
      /\ Shows(t)' /\ InOrder'
  BY <1>1, <1>3, <1>5, FrameShown
<1>7. PageInv'
  <2>1. ksql' \in Pages
    BY <1>1, <1>5, <1>6 DEF PageInv, Pages
  <2> QED
    BY <1>5, <2>1 DEF PageInv, Mounted, isSuccess
<1>8. /\ \A q \in streams' : StreamOK(q)
      /\ \A q \in streams' : q # t => q.client = "gone"
  BY <1>1, <1>4, AttemptOf
<1>9. StreamInv'
  BY <1>2, <1>3, <1>5, <1>6, <1>8 DEF StreamInv
<1> QED
  BY <1>1, <1>5, <1>7, <1>9, RegistryRests

----------------------------------------------------------------------------
\* The steps of an attempt that leave the page and the registry alone.
LEMMA Rests ==
    ASSUME KsqlInv, NEW s \in streams, NEW t,
           streams' \subseteq (streams \ {s}) \cup {t},
           StreamOK(t), t.id = s.id,
           t.client # "gone" => s.client # "gone",
           t.client = "reading" /\ t.server # "refused" =>
               /\ s.client = "reading" /\ s.server # "refused"
               /\ t.read = s.read
               /\ \A j \in 1..s.read : t.frames[j] = s.frames[j],
           UNCHANGED <<ksql, posts, pipes, configured, clock, runs, ksqlSpent>>
    PROVE  KsqlInv'
<1>1. ksql' = ksql
  OBVIOUS
<1>2. StreamInv' /\ PageInv'
  BY <1>1, AttemptStep
<1>3. RegistryInv'
  BY <1>1, RegistryRests
<1> QED
  BY <1>2, <1>3 DEF KsqlInv
LEMMA Ends ==
    ASSUME KsqlInv, NEW s, onclose(s) \/ Cancelled(s) \/ Unsent(s)
    PROVE  KsqlInv'
<1>1. CASE onclose(s)
  <2> DEFINE t == [s EXCEPT !.client = "gone"]
  <2>1. /\ s \in streams /\ streams' \subseteq (streams \ {s}) \cup {t}
        /\ UNCHANGED <<ksql, posts, pipes, configured, clock, runs, ksqlSpent>>
    BY <1>1 DEF onclose, Becomes, Held
  <2>2. StreamOK(s) /\ s \in Streams
    BY <2>1, AttemptOf
  <2>3. /\ t \in Streams /\ t.id = s.id /\ t.client = "gone"
        /\ t.server = s.server /\ t.frames = s.frames /\ t.read = s.read
    BY <2>2 DEF Streams
  <2> HIDE DEF t
  <2>4. StreamOK(t)
    BY <2>2, <2>3 DEF StreamOK
  <2> QED
    BY <2>1, <2>3, <2>4, Rests
<1>2. CASE Cancelled(s)
  <2> DEFINE t == [s EXCEPT !.server = "ended"]
  <2>1. /\ s \in streams /\ streams' \subseteq (streams \ {s}) \cup {t}
        /\ s.client = "gone"
        /\ UNCHANGED <<ksql, posts, pipes, configured, clock, runs, ksqlSpent>>
    BY <1>2 DEF Cancelled, Becomes, Held
  <2>2. StreamOK(s) /\ s \in Streams
    BY <2>1, AttemptOf
  <2>3. /\ t \in Streams /\ t.id = s.id /\ t.client = "gone"
        /\ t.server = "ended" /\ t.frames = s.frames /\ t.read = s.read
    BY <2>1, <2>2 DEF Streams
  <2> HIDE DEF t
  <2>4. StreamOK(t)
    BY <2>2, <2>3 DEF StreamOK
  <2> QED
    BY <2>1, <2>3, <2>4, Rests
<1>3. CASE Unsent(s)
  <2>1. /\ s \in streams /\ streams' \subseteq (streams \ {s}) \cup {s}
        /\ s.client = "gone"
        /\ UNCHANGED <<ksql, posts, pipes, configured, clock, runs, ksqlSpent>>
    BY <1>3 DEF Unsent
  <2>2. StreamOK(s)
    BY <2>1, AttemptOf
  <2> QED
    BY <2>1, <2>2, Rests
<1> QED
  BY <1>1, <1>2, <1>3

\* A frame follows any but an error.
LEMMA Appended ==
    ASSUME NEW S, NEW seq \in Seq(S), NEW e \in S
    PROVE  /\ Append(seq, e) \in Seq(S) /\ Append(seq, e) # <<>>
           /\ Len(Append(seq, e)) = Len(seq) + 1
           /\ Len(Append(seq, e)) - 1 = Len(seq)
           /\ \A j \in 1..Len(seq) : Append(seq, e)[j] = seq[j]
<1>1. Len(seq) \in Nat /\ Append(seq, e) \in Seq(S)
  OBVIOUS
<1>2. Len(Append(seq, e)) = Len(seq) + 1
  OBVIOUS
<1>3. \A j \in 1..Len(seq) : Append(seq, e)[j] = seq[j]
  OBVIOUS
<1>4. Len(Append(seq, e)) # 0
  BY <1>1, <1>2
<1>5. Append(seq, e) # <<>>
  <2>1. Len(<<>>) = 0
    OBVIOUS
  <2> QED
    BY <1>4, <2>1, Zenon
<1> QED
  BY <1>1, <1>2, <1>3, <1>5
LEMMA Sends ==
    ASSUME KsqlInv, NEW s, send(s) PROVE KsqlInv'
<1>1. PICK f \in NextFrames(s.kind, s.frames) :
        Becomes(s, [s EXCEPT !.frames = Append(@, f)])
  BY DEF send
<1> DEFINE frames == Append(s.frames, f)
           t == [s EXCEPT !.frames = Append(@, f)]
<1>2. /\ s \in streams /\ streams' \subseteq (streams \ {s}) \cup {t}
      /\ s.server = "running" /\ Len(s.frames) < MaxFrames
      /\ UNCHANGED <<ksql, posts, pipes, configured, clock, runs, ksqlSpent>>
  BY <1>1 DEF send, Becomes, Held
<1>3. StreamOK(s) /\ s \in Streams
  BY <1>2, AttemptOf
<1>4. /\ f \in FrameKinds
      /\ s.frames # <<>> => s.frames[Len(s.frames)] # "Execution error"
  BY DEF NextFrames, FrameKinds, Last
<1>5. /\ s.frames \in Seq(FrameKinds) /\ Len(s.frames) \in Nat
      /\ s.read \in Nat /\ s.read <= Len(s.frames)
      /\ Len(s.frames) <= MaxFrames
  <2>1. s.frames \in Seq(FrameKinds) /\ s.read \in Nat
    BY <1>3 DEF Streams
  <2>2. Len(s.frames) \in Nat
    BY <2>1
  <2>3. s.read <= Len(s.frames) /\ Len(s.frames) <= MaxFrames
    BY <1>3 DEF StreamOK
  <2> QED
    BY <2>1, <2>2, <2>3
<1>6. /\ frames \in Seq(FrameKinds) /\ Len(frames) = Len(s.frames) + 1
      /\ Len(frames) - 1 = Len(s.frames)
      /\ frames # <<>>
      /\ \A j \in 1..Len(s.frames) : frames[j] = s.frames[j]
  BY <1>4, <1>5, Appended, Zenon
<1>7. /\ t \in Streams /\ t.id = s.id /\ t.client = s.client
      /\ t.server = s.server /\ t.frames = frames /\ t.read = s.read
  BY <1>3, <1>6 DEF Streams
<1> HIDE DEF t, frames
<1>8. \A j \in 1..Len(frames) - 1 : frames[j] # "Execution error"
  <2> SUFFICES ASSUME NEW j \in 1..Len(s.frames)
               PROVE  s.frames[j] # "Execution error"
    BY <1>6
  <2>1. CASE j = Len(s.frames)
    <3>1. s.frames # <<>>
      BY <1>5, <2>1
    <3> QED
      BY <1>4, <2>1, <3>1
  <2>2. CASE j # Len(s.frames)
    <3>1. j \in 1..Len(s.frames) - 1
      BY <1>5, <2>2
    <3> QED
      BY <1>3, <3>1 DEF StreamOK
  <2> QED
    BY <2>1, <2>2
<1>9. StreamOK(t)
  <2>1. t.read <= Len(t.frames) /\ Len(t.frames) <= MaxFrames
    BY <1>2, <1>5, <1>6, <1>7, KsqlNumbers
  <2> QED
    BY <1>2, <1>3, <1>6, <1>7, <1>8, <2>1 DEF StreamOK
<1>10. \A j \in 1..s.read : t.frames[j] = s.frames[j]
  <2>1. \A j \in 1..s.read : j \in 1..Len(s.frames)
    BY <1>5
  <2> QED
    BY <1>6, <1>7, <2>1
<1> QED
  BY <1>2, <1>7, <1>9, <1>10, Rests
LEMMA Executes ==
    ASSUME KsqlInv, NEW s, Execute(s) PROVE KsqlInv'
<1>1. PICK end \in {"ended"} \cup IF s.frames = <<>> THEN {"refused"} ELSE {} :
        Becomes(s, [s EXCEPT !.server = end])
  BY DEF Execute
<1> DEFINE t == [s EXCEPT !.server = end]
<1>2. /\ s \in streams /\ streams' \subseteq (streams \ {s}) \cup {t}
      /\ s.server = "running" /\ end \in {"ended", "refused"}
      /\ end = "refused" => s.frames = <<>>
      /\ UNCHANGED <<ksql, posts, pipes, configured, clock, runs, ksqlSpent>>
  BY <1>1 DEF Execute, Becomes, Held
<1>3. StreamOK(s) /\ s \in Streams
  BY <1>2, AttemptOf
<1>4. /\ t \in Streams /\ t.id = s.id /\ t.client = s.client
      /\ t.server = end /\ t.frames = s.frames /\ t.read = s.read
  BY <1>2, <1>3 DEF Streams
<1> HIDE DEF t
<1>5. StreamOK(t)
  BY <1>2, <1>3, <1>4 DEF StreamOK, ServerEnded
<1> QED
  BY <1>2, <1>4, <1>5, Rests

----------------------------------------------------------------------------
\* The registry: a statement is parked while there is room, is claimed once
\* and is forgotten in time.
LEMMA CleanUp ==
    ASSUME KsqlInv
    PROVE  /\ DOMAIN cleanupExpired \subseteq DOMAIN pipes
           /\ \A i \in DOMAIN cleanupExpired :
                 /\ cleanupExpired[i] = pipes[i]
                 /\ clock - pipes[i].createdAt \in Nat
                 /\ clock - pipes[i].createdAt < PipeTTL
           /\ DOMAIN cleanupExpired = Claimable
           /\ DOMAIN pipes \in SUBSET Ids
           /\ DOMAIN cleanupExpired \in SUBSET Ids
           /\ Cardinality(DOMAIN cleanupExpired) <= Cardinality(DOMAIN pipes)
<1>1. /\ DOMAIN cleanupExpired \subseteq DOMAIN pipes
      /\ \A i \in DOMAIN cleanupExpired :
            cleanupExpired[i] = pipes[i] /\ ~Expired(pipes[i])
      /\ \A i \in DOMAIN pipes :
            i \in DOMAIN cleanupExpired <=> ~Expired(pipes[i])
  BY DEF cleanupExpired
<1>2. /\ DOMAIN pipes \subseteq Ids /\ clock \in Nat /\ PipeTTL \in Nat
      /\ \A i \in DOMAIN pipes : pipes[i].createdAt \in 0..clock
  BY KsqlNumbers DEF KsqlInv, RegistryInv, PipesOK, WorldOK
<1>3. \A i \in DOMAIN pipes :
        /\ clock - pipes[i].createdAt \in Nat
        /\ ~Expired(pipes[i]) <=> clock - pipes[i].createdAt < PipeTTL
        /\ ~Expired(pipes[i]) <=> pipes[i].createdAt + PipeTTL > clock
  BY <1>2 DEF Expired
<1>4. DOMAIN cleanupExpired = Claimable
  BY <1>1, <1>3 DEF Claimable
<1>5. Cardinality(DOMAIN cleanupExpired) <= Cardinality(DOMAIN pipes)
  BY <1>1, <1>2, IdsAreFinite, FS_Subset
<1> QED
  BY <1>1, <1>2, <1>3, <1>4, <1>5
LEMMA Registers ==
    ASSUME KsqlInv, NEW p, Register(p) PROVE KsqlInv'
<1> USE DEF KsqlInv, RegistryInv
<1> DEFINE answer == IF Refused(p) THEN "refused" ELSE "registered"
           q == [p EXCEPT !.phase = answer]
<1>1. /\ p \in posts /\ p.phase = "sent" /\ posts' = (posts \ {p}) \cup {q}
      /\ UNCHANGED <<ksql, streams, configured, clock, runs, ksqlSpent>>
  BY DEF Register
<1>2. /\ p \in PostRecords /\ p.id \in Ids /\ p.id <= ksqlSpent.submits
      /\ p.id \notin DOMAIN pipes /\ runs[p.id] = <<>>
      /\ p.id # ksql.pipeId /\ p.id # ksql.opened
      /\ \A r \in posts : r.id = p.id => r = p
  BY <1>1 DEF PostsOK, PostRecords
<1>3. /\ q \in PostRecords /\ q.id = p.id /\ q.phase # "sent"
  BY <1>2 DEF PostRecords
<1> HIDE DEF q, answer
<1>4. PageInv' /\ StreamInv'
  BY <1>1 DEF PageInv, Mounted, isSuccess, StreamInv, InOrder, Shows
<1>5. \/ pipes' = pipes \/ pipes' = cleanupExpired
      \/ p.kind \in Kinds /\ ~Full /\ pipes' = register(p.id, p.kind)
  BY DEF Register
<1>6. DOMAIN pipes' \subseteq DOMAIN pipes \cup {p.id}
  BY <1>5, CleanUp DEF register
<1>7. PipesOK'
  <2>1. clock \in Nat /\ PipeMax \in Nat /\ ksqlSpent.submits \in Nat
    BY KsqlNumbers DEF WorldOK
  <2>2. CASE pipes' = pipes \/ pipes' = cleanupExpired
    <3>1. /\ DOMAIN pipes' \subseteq DOMAIN pipes
          /\ \A i \in DOMAIN pipes' : pipes'[i] = pipes[i]
          /\ Cardinality(DOMAIN pipes') <= PipeMax
      <4>1. CASE pipes' = pipes
        BY <4>1 DEF PipesOK
      <4>2. CASE pipes' = cleanupExpired
        <5>1. /\ Cardinality(DOMAIN pipes) \in Nat
              /\ Cardinality(DOMAIN cleanupExpired) \in Nat
          BY CleanUp, IdsAreFinite
        <5>2. Cardinality(DOMAIN cleanupExpired) <= PipeMax
          BY <2>1, <5>1, CleanUp DEF PipesOK
        <5> QED
          BY <4>2, <5>2, CleanUp
      <4> QED
        BY <2>2, <4>1, <4>2
    <3> QED
      BY <1>1, <3>1 DEF PipesOK
  <2>3. CASE p.kind \in Kinds /\ ~Full /\ pipes' = register(p.id, p.kind)
    <3>1. /\ DOMAIN pipes' = DOMAIN cleanupExpired \cup {p.id}
          /\ pipes'[p.id] = [createdAt |-> clock, kind |-> p.kind]
          /\ \A i \in DOMAIN cleanupExpired :
                i # p.id => pipes'[i] = cleanupExpired[i]
      BY <2>3 DEF register
    <3>2. /\ IsFiniteSet(DOMAIN cleanupExpired)
          /\ Cardinality(DOMAIN cleanupExpired) \in Nat
      BY CleanUp, IdsAreFinite
    <3>3. p.id \notin DOMAIN cleanupExpired
      BY <1>2, CleanUp
    <3>4. Cardinality(DOMAIN pipes') = Cardinality(DOMAIN cleanupExpired) + 1
      BY <3>1, <3>2, <3>3, FS_AddElement
    <3>5. Cardinality(DOMAIN pipes') <= PipeMax
      BY <2>1, <2>3, <3>2, <3>4 DEF Full
    <3>6. \A i \in DOMAIN pipes' :
            /\ pipes'[i].createdAt \in 0..clock /\ pipes'[i].kind \in Kinds
            /\ i <= ksqlSpent.submits
      <4>1. \A i \in DOMAIN cleanupExpired :
                /\ i \in DOMAIN pipes /\ pipes'[i] = pipes[i]
        BY <3>1, <3>3, CleanUp
      <4>2. pipes'[p.id].createdAt = clock /\ pipes'[p.id].kind = p.kind
        BY <3>1
      <4>3. clock \in 0..clock
        BY <2>1
      <4> QED
        BY <1>2, <2>3, <3>1, <4>1, <4>2, <4>3 DEF PipesOK
    <3>7. DOMAIN pipes' \subseteq Ids
      BY <1>2, <3>1, CleanUp
    <3> QED
      BY <1>1, <3>5, <3>6, <3>7 DEF PipesOK
  <2> QED
    BY <1>5, <2>2, <2>3
<1>8. PostsOK'
  <2>1. \A r \in posts \ {p} : r.id # p.id
    BY <1>2
  <2> QED
    BY <1>1, <1>2, <1>3, <1>6, <2>1 DEF PostsOK
<1>9. RunsOK' /\ WorldOK'
  BY <1>1, <1>2, <1>6 DEF RunsOK, WorldOK
<1> QED
  BY <1>4, <1>7, <1>8, <1>9

\* The statement of a claimed pipe runs, at the age it has; the pipe is gone.
LEMMA Claims ==
    ASSUME KsqlInv, NEW s, Open(s) PROVE KsqlInv'
<1> USE DEF KsqlInv, RegistryInv
<1> DEFINE found == lookup /\ s.id \in DOMAIN cleanupExpired
           kind == IF found /\ s.client # "gone" THEN pipes[s.id].kind
                   ELSE s.kind
           server == IF found /\ s.client # "gone" THEN "running" ELSE "refused"
           t == [s EXCEPT !.server = server, !.kind = kind]
<1>1. /\ s \in streams /\ s.server = "requested"
      /\ pipes' = IF lookup THEN claim(s.id) ELSE pipes
      /\ UNCHANGED <<ksql, posts, configured, clock, ksqlSpent>>
  BY DEF Open
<1>2. StreamOK(s) /\ s \in Streams /\ s.id \in Ids
  BY <1>1, AttemptOf DEF Streams
<1>3. found => pipes[s.id].kind \in Kinds
  BY CleanUp DEF PipesOK
<1>4. /\ t \in Streams /\ t.id = s.id /\ t.client = s.client
      /\ t.server = server /\ t.frames = s.frames /\ t.read = s.read
  BY <1>2, <1>3 DEF Streams
<1>5. streams' \subseteq (streams \ {s}) \cup {t}
  <2>1. CASE found /\ s.client # "gone"
    <3>1. Becomes(s, [s EXCEPT !.server = "running",
                               !.kind = pipes[s.id].kind])
      BY <2>1 DEF Open
    <3> QED
      BY <2>1, <3>1 DEF Becomes, Held
  <2>2. CASE ~(found /\ s.client # "gone")
    <3>1. Becomes(s, [s EXCEPT !.server = "refused"])
      BY <2>2 DEF Open
    <3>2. [s EXCEPT !.server = "refused"] = t
      BY <1>2, <2>2 DEF Streams
    <3> QED
      BY <3>1, <3>2 DEF Becomes, Held
  <2> QED
    BY <2>1, <2>2
<1>6. \/ runs' = runs
      \/ /\ found
         /\ runs' = [runs EXCEPT ![s.id] =
                        Append(@, clock - pipes[s.id].createdAt)]
  BY DEF Open
<1>7. server \in {"running", "refused"}
  OBVIOUS
<1> HIDE DEF t, server, kind
<1>8. s.frames = <<>> /\ s.client # "reading"
  BY <1>1, <1>2 DEF StreamOK
<1>9. StreamOK(t)
  BY <1>2, <1>4, <1>7, <1>8 DEF StreamOK, ServerEnded
<1>10. StreamInv' /\ PageInv'
  <2>1. ksql' = ksql
    BY <1>1
  <2> QED
    BY <1>1, <1>4, <1>5, <1>8, <1>9, <2>1, AttemptStep
<1>11. /\ DOMAIN pipes' \subseteq DOMAIN pipes
       /\ \A i \in DOMAIN pipes' : pipes'[i] = pipes[i]
       /\ found => s.id \notin DOMAIN pipes'
  BY <1>1, CleanUp DEF claim
<1>12. PipesOK'
  <2>1. /\ IsFiniteSet(DOMAIN pipes) /\ Cardinality(DOMAIN pipes) \in Nat
        /\ DOMAIN pipes' \in SUBSET Ids
    BY <1>11, CleanUp, IdsAreFinite
  <2>2. /\ Cardinality(DOMAIN pipes') <= Cardinality(DOMAIN pipes)
        /\ Cardinality(DOMAIN pipes') \in Nat
    BY <1>11, <2>1, FS_Subset, IdsAreFinite
  <2>3. Cardinality(DOMAIN pipes') <= PipeMax
    BY <2>1, <2>2, KsqlNumbers DEF PipesOK
  <2> QED
    BY <1>1, <1>11, <2>3 DEF PipesOK
<1>13. RunsOK' /\ PostsOK'
  <2>1. CASE runs' = runs
    BY <1>1, <1>11, <2>1 DEF RunsOK, PostsOK
  <2>2. CASE /\ found
             /\ runs' = [runs EXCEPT ![s.id] =
                            Append(@, clock - pipes[s.id].createdAt)]
    <3> DEFINE age == clock - pipes[s.id].createdAt
    <3>1. /\ age \in Nat /\ age < PipeTTL /\ s.id \in DOMAIN pipes
      BY <2>2, CleanUp
    <3>2. runs[s.id] = <<>> /\ s.id <= ksqlSpent.submits
      BY <1>2, <3>1 DEF RunsOK, PipesOK
    <3> HIDE DEF age
    <3>3. /\ runs' \in [Ids -> Seq(Nat)] /\ runs'[s.id] = <<age>>
          /\ \A i \in Ids : i # s.id => runs'[i] = runs[i]
      <4>1. Append(<<>>, age) = <<age>> /\ <<age>> \in Seq(Nat)
        BY <3>1
      <4>2. runs' = [runs EXCEPT ![s.id] = <<age>>]
        BY <2>2, <3>2, <4>1 DEF age
      <4> QED
        BY <1>2, <4>1, <4>2 DEF RunsOK
    <3>4. Len(<<age>>) = 1 /\ <<age>>[1] = age /\ <<age>> # <<>>
      OBVIOUS
    <3>5. RunsOK'
      BY <1>1, <1>11, <2>2, <3>1, <3>2, <3>3, <3>4 DEF RunsOK
    <3>6. PostsOK'
      <4>1. \A p \in posts : p.phase = "sent" => p.id # s.id /\ p.id \in Ids
        BY <3>1 DEF PostsOK, PostRecords
      <4> QED
        BY <1>1, <1>11, <3>3, <4>1 DEF PostsOK
    <3> QED
      BY <3>5, <3>6
  <2> QED
    BY <1>6, <2>1, <2>2
<1>14. WorldOK'
  BY <1>1 DEF WorldOK
<1> QED
  BY <1>10, <1>12, <1>13, <1>14

----------------------------------------------------------------------------
\* Every step of the page, the registry and the server keeps the invariant.
LEMMA KsqlRests ==
    ASSUME KsqlInv, UNCHANGED ksqlVars PROVE KsqlInv'
<1> USE DEF KsqlInv, RegistryInv
<1>1. UNCHANGED <<ksql, posts, pipes, streams, configured, clock, runs,
                  ksqlSpent>>
  BY DEF ksqlVars
<1>2. PageInv' /\ StreamInv'
  BY <1>1 DEF PageInv, Mounted, isSuccess, StreamInv, InOrder, Shows
<1>3. PipesOK' /\ PostsOK' /\ RunsOK' /\ WorldOK'
  BY <1>1 DEF PipesOK, PostsOK, RunsOK, WorldOK
<1> QED
  BY <1>2, <1>3
LEMMA WorldTurns ==
    ASSUME KsqlInv, Tick \/ Reconfigure PROVE KsqlInv'
<1> USE DEF KsqlInv, RegistryInv
<1>1. /\ UNCHANGED <<ksql, posts, pipes, streams, runs>>
      /\ clock \in Nat /\ clock' \in 0..MaxTicks
      /\ clock' = clock \/ clock' = clock + 1
      /\ configured' \in BOOLEAN
      /\ Spend("faults", KsqlFaults) \/ UNCHANGED ksqlSpent
  <2>1. /\ clock \in 0..MaxTicks /\ MaxTicks \in Nat
        /\ configured \in BOOLEAN /\ (~configured) \in BOOLEAN
    BY KsqlNumbers DEF WorldOK
  <2>2. CASE Tick
    BY <2>1, <2>2 DEF Tick
  <2>3. CASE Reconfigure
    BY <2>1, <2>3 DEF Reconfigure
  <2> QED
    BY <2>2, <2>3
<1>2. PageInv' /\ StreamInv'
  BY <1>1 DEF PageInv, Mounted, isSuccess, StreamInv, InOrder, Shows
<1>3. /\ ksqlSpent' \in [submits : Nat, faults : Nat]
      /\ ksqlSpent'.submits = ksqlSpent.submits
  BY <1>1, FaultSpent
<1>4. PipesOK'
  <2>1. \A c \in 0..clock : c \in 0..clock'
    BY <1>1
  <2> QED
    BY <1>1, <1>3, <2>1 DEF PipesOK
<1>5. PostsOK' /\ RunsOK' /\ WorldOK'
  BY <1>1, <1>3 DEF PostsOK, RunsOK, WorldOK
<1> QED
  BY <1>2, <1>4, <1>5
LEMMA KsqlStep ==
    ASSUME KsqlInv, KsqlNext \/ UNCHANGED ksqlVars PROVE KsqlInv'
<1>1. CASE UNCHANGED ksqlVars
  BY <1>1, KsqlRests
<1>2. CASE KsqlServer
  BY <1>2, Registers, Claims, Sends, Executes, Ends DEF KsqlServer
<1>3. CASE KsqlClient
  BY <1>3, Turns, Opens, Reads, Ends DEF KsqlClient
<1>4. CASE KsqlUser
  BY <1>4, Clears, Aborts, PageActions, Submits DEF KsqlUser
<1>5. CASE KsqlWorld
  BY <1>5, WorldTurns, PostsFail, ErrsAgain, Ends DEF KsqlWorld
<1> QED
  BY <1>1, <1>2, <1>3, <1>4, <1>5 DEF KsqlNext, KsqlProgress

\* Only Register turns a statement away, and only when the registry is full
\* of what may still be claimed.
LEMMA RefusesWhenFull ==
    ASSUME KsqlInv, KsqlNext \/ UNCHANGED ksqlVars, NEW p \in posts,
           p.phase = "sent", p.kind \in Kinds, configured,
           [p EXCEPT !.phase = "refused"] \in posts'
    PROVE  Cardinality(Claimable) >= PipeMax
<1> USE DEF KsqlInv, RegistryInv
<1> DEFINE q == [p EXCEPT !.phase = "refused"]
<1>1. /\ p \in PostRecords /\ q.id = p.id /\ q.phase = "refused"
      /\ \A r \in posts : r.id = p.id => r = p
  BY DEF PostsOK, PostRecords
<1> HIDE DEF q
<1>2. q \notin posts
  BY <1>1
<1>3. q \in posts'
  BY DEF q
<1>4. ~(posts' \subseteq posts)
  BY <1>2, <1>3
<1>5. \/ \E r \in posts : Register(r)
      \/ \E kind \in Kinds \cup {"invalid"} : submitHandler(kind)
  <2>1. KsqlNext
    BY <1>4 DEF ksqlVars
  <2>2. ~KsqlClient
    BY <1>4 DEF KsqlClient, setPipeId, onopen, Message, onclose
  <2>3. ~KsqlWorld
    BY <1>4 DEF KsqlWorld, Tick, Reconfigure, PostFails, onerror, Unsent
  <2>4. ~(handleClear \/ abortFetchData)
    BY <1>4 DEF handleClear, abortFetchData
  <2>5. ~(Navigate \/ useKsqlTables \/ useKsqlStreams \/ Refetch)
    BY <1>4 DEF Navigate, useKsqlTables, useKsqlStreams, Refetch
  <2>6. \A s \in streams :
            ~(Open(s) \/ send(s) \/ Execute(s) \/ Cancelled(s))
    BY <1>4 DEF Open, send, Execute, Cancelled
  <2> QED
    BY <2>1, <2>2, <2>3, <2>4, <2>5, <2>6
       DEF KsqlNext, KsqlProgress, KsqlServer, KsqlUser
<1>6. \E r \in posts : Register(r)
  <2> SUFFICES ASSUME NEW kind \in Kinds \cup {"invalid"},
                      submitHandler(kind)
               PROVE  FALSE
    BY <1>5
  <2> DEFINE new == executeKsql(ksqlSpent'.submits, kind)
  <2>1. posts' = posts \cup {new}
    BY DEF submitHandler
  <2>2. new.phase = "sent"
    BY DEF executeKsql
  <2> HIDE DEF new
  <2> QED
    BY <1>1, <1>2, <1>3, <2>1, <2>2
<1>7. PICK r \in posts : Register(r)
  BY <1>6
<1>8. /\ posts' = (posts \ {r}) \cup
             {[r EXCEPT !.phase = IF Refused(r) THEN "refused"
                                  ELSE "registered"]}
      /\ r \in PostRecords
  BY <1>7 DEF Register, PostsOK
<1>9. /\ q = [r EXCEPT !.phase = IF Refused(r) THEN "refused"
                                 ELSE "registered"]
  BY <1>2, <1>3, <1>8
<1>10. q.id = r.id /\ (q.phase = "refused" => Refused(r))
  BY <1>8, <1>9 DEF PostRecords
<1>11. Full
  BY <1>1, <1>7, <1>10 DEF Refused, lookup
<1> QED
  BY <1>11, CleanUp DEF Full
LEMMA KsqlInvIsSafe ==
    KsqlInv => KsqlTypeOK /\ AtMostOnce /\ StaleNeverRuns /\ OwnResults
<1> SUFFICES ASSUME KsqlInv
             PROVE  KsqlTypeOK /\ AtMostOnce /\ StaleNeverRuns /\ OwnResults
  OBVIOUS
<1> USE DEF KsqlInv, RegistryInv
<1>1. /\ ksql.route \in BOOLEAN /\ ksql.tables \in BOOLEAN
      /\ ksql.streams \in BOOLEAN /\ ksql.mount \in 1..MaxMounts
      /\ ksql.pipeId \in Ids \cup {NoPipe}
      /\ ksql.opened \in Ids \cup {NoPipe}
      /\ ksql.data \in Seq(Ids \X (1..MaxFrames))
  BY DEF PageInv, Pages
<1>2. \A s \in streams :
        /\ s.id \in Ids /\ s.client \in {"waiting", "reading", "gone"}
        /\ s.server \in {"requested", "running", "ended", "refused"}
        /\ s.frames \in Seq(FrameKinds) /\ s.read \in 0..Len(s.frames)
  <2> SUFFICES ASSUME NEW s \in streams
               PROVE
        /\ s.id \in Ids /\ s.client \in {"waiting", "reading", "gone"}
        /\ s.server \in {"requested", "running", "ended", "refused"}
        /\ s.frames \in Seq(FrameKinds) /\ s.read \in 0..Len(s.frames)
    OBVIOUS
  <2>1. s \in Streams /\ s.read <= Len(s.frames)
    BY AttemptOf DEF StreamOK
  <2>2. /\ s.id \in Ids /\ s.client \in {"waiting", "reading", "gone"}
        /\ s.server \in {"requested", "running", "ended", "refused"}
        /\ s.frames \in Seq(FrameKinds) /\ s.read \in Nat
    BY <2>1 DEF Streams
  <2>3. Len(s.frames) \in Nat
    BY <2>2
  <2> QED
    BY <2>1, <2>2, <2>3
<1>3. \A p \in posts :
        /\ p.id \in Ids /\ p.mount \in 1..MaxMounts
        /\ p.kind \in Kinds \cup {"invalid"}
        /\ p.phase \in {"sent", "registered", "refused"}
  BY DEF PostsOK, PostRecords
<1>4. KsqlTypeOK
  <2>1. /\ DOMAIN pipes \subseteq Ids
        /\ Cardinality(DOMAIN pipes) <= PipeMax
        /\ \A i \in DOMAIN pipes :
              pipes[i].createdAt \in 0..clock /\ pipes[i].kind \in Kinds
    BY DEF PipesOK
  <2>2. /\ configured \in BOOLEAN /\ clock \in 0..MaxTicks
        /\ runs \in [Ids -> Seq(Nat)]
    BY DEF WorldOK, RunsOK
  <2> QED
    BY <1>1, <1>2, <1>3, <2>1, <2>2 DEF KsqlTypeOK
<1>5. AtMostOnce /\ StaleNeverRuns
  <2> SUFFICES ASSUME NEW i \in Ids
               PROVE  /\ Len(runs[i]) <= 1
                      /\ \A k \in DOMAIN runs[i] : runs[i][k] < PipeTTL
    BY DEF AtMostOnce, StaleNeverRuns
  <2>1. runs[i] \in Seq(Nat)
    BY DEF RunsOK
  <2>2. CASE runs[i] = <<>>
    BY <2>2
  <2>3. CASE runs[i] # <<>>
    <3>1. Len(runs[i]) = 1 /\ runs[i][1] < PipeTTL
      BY <2>3 DEF RunsOK
    <3>2. DOMAIN runs[i] = {1}
      BY <2>1, <3>1
    <3> QED
      BY <3>1, <3>2
  <2> QED
    BY <2>2, <2>3
<1>6. OwnResults
  BY DEF StreamInv, InOrder, Shows, OwnResults
<1> QED
  BY <1>4, <1>5, <1>6

\* No statement runs twice or after its time, a page shows the results of its
\* own statement without a gap, and a full registry is the only reason to
\* refuse one, for any number of statements, frames and faults (ksql.go,
\* ksqlDb.tsx, Query.tsx).
THEOREM StatementsRunOnce == Spec => KsqlSafe
<1>1. Init => KsqlInv
  BY KsqlStarts DEF Init
<1>2. [Next]_workbenchVars => KsqlNext \/ UNCHANGED ksqlVars
  BY DEF Next, workbenchVars, OnKsql, OnTopic, OnFilters, OnProduce,
         OnUpdates, OnShell, ksqlVars
<1>3. KsqlInv /\ [Next]_workbenchVars => KsqlInv'
  BY <1>2, KsqlStep
<1>4. KsqlInv /\ [Next]_workbenchVars =>
        [\A p \in posts :
            /\ p.phase = "sent" /\ p.kind \in Kinds /\ configured
            /\ [p EXCEPT !.phase = "refused"] \in posts'
            => Cardinality(Claimable) >= PipeMax]_ksqlVars
  BY <1>2, RefusesWhenFull
<1> QED
  BY <1>1, <1>3, <1>4, KsqlInvIsSafe, PTL
     DEF Spec, KsqlSafe, RefusedOnlyIfFull

----------------------------------------------------------------------------
(* The topic form: parts of sequences *)

\* The members of a finite set of numbers are its first, second, ... and last.
LEMMA Numbering ==
  ASSUME NEW S \in SUBSET Nat, IsFiniteSet(S)
  PROVE  /\ Cardinality(S) \in Nat
         /\ \A k \in 1..Cardinality(S) : Nth(S, k) \in S
         /\ \A i \in S : \E k \in 1..Cardinality(S) : Nth(S, k) = i
<1>. DEFINE n == Cardinality(S)
            Below(i) == {j \in S : j < i}
            rank == [i \in S |-> Cardinality(Below(i)) + 1]
<1>1. n \in Nat BY FS_CardinalityType
<1>2. ASSUME NEW i \in S
      PROVE  /\ IsFiniteSet(Below(i)) /\ Cardinality(Below(i)) \in Nat
             /\ Cardinality(Below(i)) <= n - 1
  <2>1. Below(i) \in SUBSET (S \ {i}) BY <1>2
  <2>2. IsFiniteSet(S \ {i}) /\ Cardinality(S \ {i}) = n - 1 BY FS_RemoveElement
  <2>. HIDE DEF Below, n
  <2>. QED BY <2>1, <2>2, FS_Subset, FS_CardinalityType
<1>3. rank \in [S -> 1..n]
  <2>1. ASSUME NEW i \in S PROVE Cardinality(Below(i)) + 1 \in 1..n
    <3>. HIDE DEF Below, n
    <3>. QED BY <1>1, <1>2
  <2>. HIDE DEF Below, n
  <2>. QED BY <2>1
<1>4. ASSUME NEW i \in S, NEW j \in S, i < j PROVE rank[i] # rank[j]
  <2>1. Below(i) \in SUBSET Below(j) /\ i \in Below(j) /\ i \notin Below(i)
    <3>1. \A x \in S : x \in Nat OBVIOUS
    <3>2. \A x \in S : x < i => x < j BY <1>4, <3>1
    <3>3. ~(i < i) BY <3>1
    <3>. QED BY <1>4, <3>2, <3>3
  <2>2. Cardinality(Below(i)) # Cardinality(Below(j))
    <3>. HIDE DEF Below
    <3>. QED BY <2>1, <1>2, FS_Subset
  <2>3. Cardinality(Below(i)) \in Nat /\ Cardinality(Below(j)) \in Nat
    <3>. HIDE DEF Below, n
    <3>. QED BY <1>2
  <2>. HIDE DEF Below
  <2>. QED BY <2>2, <2>3
<1>5. rank \in Injection(S, 1..n)
  <2>1. \A i, j \in S : rank[i] = rank[j] => i = j
    <3>1. SUFFICES ASSUME NEW i \in S, NEW j \in S, i # j PROVE rank[i] # rank[j]
      OBVIOUS
    <3>2. i \in Nat /\ j \in Nat OBVIOUS
    <3>3. i < j \/ j < i BY <3>1, <3>2
    <3>. HIDE DEF rank
    <3>. QED BY <3>3, <1>4
  <2>. HIDE DEF rank
  <2>. QED BY <1>3, <2>1 DEF Injection, IsInjective
<1>6. rank \in Surjection(S, 1..n)
  <2>1. IsFiniteSet(1..n) /\ Cardinality(1..n) = n
    <3>1. 1 \in Int /\ n \in Int BY <1>1
    <3>. HIDE DEF n
    <3>2. IsFiniteSet(1..n)
          /\ Cardinality(1..n) = IF 1 > n THEN 0 ELSE n - 1 + 1
      BY <3>1, FS_Interval
    <3>. QED BY <3>2, <1>1
  <2>. HIDE DEF rank
  <2>. QED BY <1>5, <2>1, FS_Injection
<1>7. ASSUME NEW i \in S, NEW k \in 1..n, rank[i] = k PROVE Nth(S, k) = i
  <2>1. \A j \in S : Cardinality(Below(j)) = k - 1 <=> j = i
    <3>1. SUFFICES ASSUME NEW j \in S
                   PROVE  Cardinality(Below(j)) = k - 1 <=> j = i
      OBVIOUS
    <3>2. rank[i] = Cardinality(Below(i)) + 1 /\ rank[j] = Cardinality(Below(j)) + 1
      OBVIOUS
    <3>3. Cardinality(Below(i)) \in Nat /\ Cardinality(Below(j)) \in Nat
      <4>. HIDE DEF Below, n
      <4>. QED BY <1>2
    <3>4. rank[i] = rank[j] => i = j
      <4>. HIDE DEF rank
      <4>. QED BY <1>5 DEF Injection, IsInjective
    <3>. HIDE DEF Below, rank
    <3>. QED BY <1>7, <3>2, <3>3, <3>4
  <2>. QED BY <2>1 DEF Nth
<1>8. ASSUME NEW k \in 1..n PROVE Nth(S, k) \in S
  <2>1. PICK i \in S : rank[i] = k
    <3>. HIDE DEF rank
    <3>. QED BY <1>6 DEF Surjection
  <2>. HIDE DEF rank
  <2>. QED BY <2>1, <1>7
<1>9. ASSUME NEW i \in S PROVE \E k \in 1..n : Nth(S, k) = i
  <2>1. rank[i] \in 1..n
    <3>. HIDE DEF rank
    <3>. QED BY <1>3
  <2>. HIDE DEF rank
  <2>. QED BY <2>1, <1>7
<1>. HIDE DEF n
<1>10. n \in Nat /\ (\A k \in 1..n : Nth(S, k) \in S)
       /\ \A i \in S : \E k \in 1..n : Nth(S, k) = i
  BY <1>1, <1>8, <1>9
<1>. QED BY <1>10 DEF n

\* A part of a sequence holds what is at the positions chosen.
LEMMA PartOfSequence ==
  ASSUME NEW D, NEW s \in Seq(D), NEW places \in SUBSET DOMAIN s
  PROVE  /\ Part(s, places) \in Seq(D)
         /\ \A k \in DOMAIN Part(s, places) : \E i \in places : Part(s, places)[k] = s[i]
         /\ \A i \in places : \E k \in DOMAIN Part(s, places) : Part(s, places)[k] = s[i]
<1>. DEFINE n == Cardinality(places)
<1>1. Len(s) \in Nat /\ DOMAIN s = 1..Len(s) OBVIOUS
<1>2. places \in SUBSET Nat /\ IsFiniteSet(places)
  <2>1. IsFiniteSet(1..Len(s)) BY <1>1, FS_Interval
  <2>2. places \in SUBSET (1..Len(s)) BY <1>1
  <2>3. places \in SUBSET Nat BY <2>2
  <2>. QED BY <2>1, <2>2, <2>3, FS_Subset
<1>3. /\ n \in Nat /\ \A k \in 1..n : Nth(places, k) \in places
      /\ \A i \in places : \E k \in 1..n : Nth(places, k) = i
  BY <1>2, Numbering
<1>4. Part(s, places) = [k \in 1..n |-> s[Nth(places, k)]] BY DEF Part
<1>. HIDE DEF n
<1>5. \A k \in 1..n : s[Nth(places, k)] \in D
  <2>1. \A i \in places : s[i] \in D OBVIOUS
  <2>. QED BY <2>1, <1>3
<1>6. Part(s, places) \in [1..n -> D] BY <1>4, <1>5
<1>7. Part(s, places) \in Seq(D) BY <1>6, <1>3
<1>8. DOMAIN Part(s, places) = 1..n BY <1>4
<1>9. \A k \in 1..n : Part(s, places)[k] = s[Nth(places, k)] BY <1>4
<1>. QED BY <1>3, <1>7, <1>8, <1>9

\* A sequence without its i-th member.
LEMMA Removed ==
  ASSUME NEW D, NEW s \in Seq(D), NEW i \in DOMAIN s
  PROVE  /\ RemoveAt(s, i) \in Seq(D)
         /\ \A k \in DOMAIN RemoveAt(s, i) :
               \E j \in DOMAIN s \ {i} : RemoveAt(s, i)[k] = s[j]
         /\ \A j \in DOMAIN s \ {i} :
               \E k \in DOMAIN RemoveAt(s, i) : RemoveAt(s, i)[k] = s[j]
<1>. DEFINE r == [k \in 1..(Len(s) - 1) |-> IF k < i THEN s[k] ELSE s[k + 1]]
<1>1. Len(s) \in Nat /\ DOMAIN s = 1..Len(s) /\ i \in 1..Len(s) OBVIOUS
<1>2. \A k \in 1..(Len(s) - 1) : r[k] = IF k < i THEN s[k] ELSE s[k + 1] OBVIOUS
<1>3. r \in Seq(D) /\ DOMAIN r = 1..(Len(s) - 1)
  <2>1. \A k \in 1..(Len(s) - 1) : s[k] \in D /\ s[k + 1] \in D BY <1>1
  <2>. QED BY <2>1, <1>1
<1>4. RemoveAt(s, i) = r
  <2>. HIDE DEF r
  <2>. DEFINE a == SubSeq(s, 1, i - 1)
              b == SubSeq(s, i + 1, Len(s))
  <2>1. a = [k \in 1..(i - 1) |-> s[k]] BY <1>1
  <2>2. a \in Seq(D) /\ Len(a) = i - 1 BY <1>1, <2>1
  <2>3. b = [k \in 1..(Len(s) - i) |-> s[k + i]] BY <1>1
  <2>4. b \in Seq(D) /\ Len(b) = Len(s) - i BY <1>1, <2>3
  <2>5. \A k \in 1..(i - 1) : a[k] = s[k] BY <2>1
  <2>6. \A k \in 1..(Len(s) - i) : b[k] = s[k + i] BY <2>3
  <2>. HIDE DEF a, b
  <2>7. a \o b \in Seq(D) /\ Len(a \o b) = Len(s) - 1
    <3>1. a \o b \in Seq(D) /\ Len(a \o b) = Len(a) + Len(b)
      BY <2>2, <2>4, ConcatProperties
    <3>. QED BY <3>1, <2>2, <2>4, <1>1
  <2>8. \A k \in 1..(Len(s) - 1) :
            (a \o b)[k] = IF k < i THEN s[k] ELSE s[k + 1]
    <3>1. SUFFICES ASSUME NEW k \in 1..(Len(s) - 1)
                   PROVE  (a \o b)[k] = IF k < i THEN s[k] ELSE s[k + 1]
      OBVIOUS
    <3>2. CASE k < i
      <4>1. k \in 1..Len(a) /\ k \in 1..(i - 1) BY <3>2, <2>2, <1>1
      <4>. QED BY <3>2, <4>1, <2>2, <2>4, <2>5
    <3>3. CASE ~(k < i)
      <4>1. k - (i - 1) \in 1..(Len(s) - i) /\ k - (i - 1) + i = k + 1 BY <3>3, <1>1
      <4>2. (a \o b)[k] = b[k - (i - 1)] BY <3>3, <1>1, <2>2, <2>4
      <4>. QED BY <3>3, <4>1, <4>2, <2>6
    <3>. QED BY <3>2, <3>3
  <2>9. RemoveAt(s, i) = a \o b BY DEF RemoveAt, a, b
  <2>10. Len(r) = Len(s) - 1
    <3>1. Len(s) - 1 \in Nat BY <1>1
    <3>. QED BY <3>1 DEF r
  <2>11. \A k \in 1..Len(a \o b) : (a \o b)[k] = r[k] BY <2>7, <2>8, <1>2
  <2>12. a \o b = r BY <2>7, <2>10, <2>11, <1>3, SeqEqual
  <2>. QED BY <2>9, <2>12
<1>. HIDE DEF r
<1>5. \A k \in DOMAIN r : \E j \in DOMAIN s \ {i} : r[k] = s[j]
  <2>1. SUFFICES ASSUME NEW k \in DOMAIN r
                 PROVE  \E j \in DOMAIN s \ {i} : r[k] = s[j]
    OBVIOUS
  <2>2. CASE k < i
    <3>1. k \in DOMAIN s \ {i} /\ r[k] = s[k] BY <2>2, <1>1, <1>2, <1>3
    <3>. QED BY <3>1
  <2>3. CASE ~(k < i)
    <3>1. k + 1 \in DOMAIN s \ {i} /\ r[k] = s[k + 1] BY <2>3, <1>1, <1>2, <1>3
    <3>. QED BY <3>1
  <2>. QED BY <2>2, <2>3
<1>6. \A j \in DOMAIN s \ {i} : \E k \in DOMAIN r : r[k] = s[j]
  <2>1. SUFFICES ASSUME NEW j \in DOMAIN s \ {i}
                 PROVE  \E k \in DOMAIN r : r[k] = s[j]
    OBVIOUS
  <2>2. CASE j < i
    <3>1. j \in DOMAIN r /\ r[j] = s[j] BY <2>2, <1>1, <1>2, <1>3
    <3>. QED BY <3>1
  <2>3. CASE ~(j < i)
    <3>1. j - 1 \in DOMAIN r /\ r[j - 1] = s[j] BY <2>3, <1>1, <1>2, <1>3
    <3>. QED BY <3>1
  <2>. QED BY <2>2, <2>3
<1>. QED BY <1>4, <1>3, <1>5, <1>6

----------------------------------------------------------------------------
(* The topic form: its inductive invariant *)

\* Overrides of settings, the contents of a form, what is asked for and the
\* steps to it.
IsOverrides(t) == t \in [DOMAIN t -> TopicValues] /\ DOMAIN t \subseteq Names
Inputs == TopicValues \cup {""}
ParamRows == [name : Names \cup {""}, value : Inputs]
TopicForms ==
    [mode : {"edit", "new", "left"}, existing : SUBSET (Names \cup {""}),
     pending : BOOLEAN, fields : [Fixed -> Inputs], rows : Seq(ParamRows)]
IsDesired(d) == d \in [DOMAIN d -> Inputs] /\ DOMAIN d \subseteq Names
ConfigSteps == [name : Names, value : Inputs \cup {NoValue}]

\* What a setting is to be, once d is reached.
AskedOf(d, n) == IF n \in DOMAIN d /\ d[n] # "" THEN d[n] ELSE "broker"
StepValue(step) == IF step.value \in {"", NoValue} THEN "broker" ELSE step.value

\* A form that may be sent, and what is sent of it.
Sendable(f) ==
    /\ f \in TopicForms /\ f.mode \in {"edit", "new"}
    /\ \A i \in DOMAIN f.rows : "" \notin {f.rows[i].name, f.rows[i].value}
    /\ isUnique(f.rows)
DesiredOf(f) == IF f.mode = "new" THEN formatTopicCreation(f) ELSE formatTopicUpdate(f)

\* A form holds what it was loaded with, of the settings not touched.
KeepsLoaded(f) ==
    \A n \in Names \ touched :
        /\ n \in Fixed => f.fields[n] = getValue(loaded, n)
        /\ \A i \in DOMAIN f.rows :
              f.rows[i].name = n => f.rows[i].value = Effective(loaded, n)
        /\ n \in Listed /\ Effective(loaded, n) # "broker" => n \in RowNames(f.rows)

\* A request is under way.
Busy == {"sent", "applying", "created"}
\* The request is the one the form it was sent from asks for.
JobOK ==
    /\ job.phase \in Busy \cup {"none", "done"}
    /\ form.pending <=> job.phase \in Busy
    /\ job.phase \in Busy =>
          /\ Sendable(job.shown) /\ form.mode \in {job.shown.mode, "left"}
          /\ job.desired = DesiredOf(job.shown)
          /\ job.shown.mode = "edit" => KeepsLoaded(job.shown)
    /\ job.phase = "applying" => job.shown.mode = "edit"
    /\ job.phase = "created" => job.shown.mode = "new" /\ topic = job.desired
    /\ job.phase = "sent" => job = [phase |-> "sent", shown |-> job.shown,
                                    desired |-> job.desired]
    /\ job.phase = "created" => job = [phase |-> "created", shown |-> job.shown,
                                       desired |-> job.desired]
    /\ job.phase = "applying" =>
          job = [phase |-> "applying", shown |-> job.shown, desired |-> job.desired,
                 before |-> job.before, ops |-> job.ops]
\* While an update is applied every setting has what is asked for or is still
\* to come, and each step sets what is asked for.
ApplyingOK ==
    job.phase = "applying" =>
        /\ job.ops \in Seq(ConfigSteps)
        /\ \A i \in DOMAIN job.ops :
              StepValue(job.ops[i]) = AskedOf(job.desired, job.ops[i].name)
        /\ \A n \in Names \ foreign :
              /\ Effective(topic, n) \in {job.before[n], AskedOf(job.desired, n)}
              /\ \/ Effective(topic, n) = AskedOf(job.desired, n)
                 \/ \E i \in DOMAIN job.ops : job.ops[i].name = n

\* The form: its parts, the names shown as taken, and what it was loaded with.
FormOK ==
    /\ form \in TopicForms
    /\ form.existing \subseteq RowNames(form.rows)
    /\ form.mode = "edit" => KeepsLoaded(form)
TopicInv ==
    /\ IsOverrides(topic) /\ IsOverrides(loaded)
    /\ touched \subseteq Names \cup {""} /\ foreign \subseteq Names
    /\ FormOK /\ JobOK /\ ApplyingOK

----------------------------------------------------------------------------
\* Which settings have a name, a field or a place in the table.
LEMMA ValueFacts ==
  /\ Fixed \subseteq Names /\ Listed \subseteq Names /\ Unlisted \subseteq Names
  /\ "retention.ms" \in Fixed /\ "retention.ms" \in Names
  /\ Selects \subseteq Fixed /\ "" \notin Names
  /\ \A n \in Names : n \notin Unlisted => n \in Fixed \/ n \in Listed
  /\ \A n \in Unlisted : n \notin Fixed /\ n \notin Listed
BY TopicFormNames DEF Names

\* No value of a setting is empty or stands for none.
LEMMA NoEmptyValue ==
  /\ "" \notin TopicValues /\ NoValue \notin TopicValues /\ "" # NoValue
  /\ "broker" \in TopicValues /\ "std" \in TopicValues /\ "odd" \in TopicValues
  /\ Typed \subseteq TopicValues
BY TopicFormValues DEF TopicValues, NoValue

\* A setting has a value, and the field shows it unless it cannot be read.
LEMMA EffectiveFacts ==
  ASSUME NEW t, IsOverrides(t), NEW n
  PROVE  /\ Effective(t, n) \in TopicValues /\ getValue(t, n) \in TopicValues
         /\ Effective(t, n) # "odd" => getValue(t, n) = Effective(t, n)
         /\ Effective(t, n) # "" /\ getValue(t, n) # ""
BY NoEmptyValue DEF Effective, getValue, IsOverrides

\* One setting changes, and no other.
LEMMA AlterFacts ==
  ASSUME NEW t, IsOverrides(t), NEW step \in ConfigSteps
  PROVE  /\ IsOverrides(AlterTopicConfig(t, step))
         /\ \A n : Effective(AlterTopicConfig(t, step), n) =
                       IF n = step.name THEN StepValue(step) ELSE Effective(t, n)
<1>. DEFINE u == AlterTopicConfig(t, step)
<1>1. step.name \in Names /\ step.value \in Inputs \cup {NoValue} BY DEF ConfigSteps
<1>2. CASE step.value \in {"", NoValue}
  <2>1. u = [m \in DOMAIN t \ {step.name} |-> t[m]]
    BY <1>2 DEF AlterTopicConfig, Without
  <2>2. DOMAIN u = DOMAIN t \ {step.name} /\ \A m \in DOMAIN u : u[m] = t[m] BY <2>1
  <2>3. IsOverrides(u)
    <3>. HIDE DEF u
    <3>. QED BY <2>1, <2>2 DEF IsOverrides
  <2>4. \A n : Effective(u, n) = IF n = step.name THEN StepValue(step)
                                  ELSE Effective(t, n)
    <3>. HIDE DEF u
    <3>. QED BY <2>2, <1>2 DEF Effective, StepValue
  <2>. QED BY <2>3, <2>4
<1>3. CASE step.value \notin {"", NoValue}
  <2>. DEFINE d == DOMAIN t \cup {step.name}
  <2>1. u = [m \in {step.name} \cup DOMAIN t |->
                IF m \in {step.name} THEN step.value ELSE t[m]]
    BY <1>3 DEF AlterTopicConfig, Over
  <2>2. /\ DOMAIN u = d
        /\ \A m \in d : u[m] = IF m = step.name THEN step.value ELSE t[m]
    BY <2>1
  <2>3. step.value \in TopicValues BY <1>1, <1>3 DEF Inputs
  <2>4. u \in [d -> TopicValues]
    <3>1. \A m \in d : (IF m \in {step.name} THEN step.value ELSE t[m]) \in TopicValues
      BY <2>3 DEF IsOverrides
    <3>. QED BY <2>1, <3>1
  <2>5. IsOverrides(u)
    <3>. HIDE DEF u
    <3>. QED BY <2>2, <2>4, <1>1 DEF IsOverrides
  <2>6. \A n : Effective(u, n) = IF n = step.name THEN StepValue(step)
                                  ELSE Effective(t, n)
    <3>. HIDE DEF u
    <3>. QED BY <2>2, <1>3 DEF Effective, StepValue
  <2>. QED BY <2>5, <2>6
<1>. QED BY <1>2, <1>3

\* The names of S in the order of the names.
LEMMA InNameOrderFacts ==
  ASSUME NEW S \in SUBSET Names
  PROVE  /\ InNameOrder(S) \in Seq(Names)
         /\ \A k \in DOMAIN InNameOrder(S) : InNameOrder(S)[k] \in S
         /\ \A n \in S : \E k \in DOMAIN InNameOrder(S) : InNameOrder(S)[k] = n
<1>. DEFINE places == {i \in DOMAIN NameOrder : NameOrder[i] \in S}
            o == InNameOrder(S)
<1>1. NameOrder \in Seq(Names) /\ Range(NameOrder) = Names BY TopicFormNames
<1>2. /\ o \in Seq(Names)
      /\ \A k \in DOMAIN o : \E i \in places : o[k] = NameOrder[i]
      /\ \A i \in places : \E k \in DOMAIN o : o[k] = NameOrder[i]
  <2>1. places \in SUBSET DOMAIN NameOrder OBVIOUS
  <2>2. o = Part(NameOrder, places) BY DEF InNameOrder
  <2>. HIDE DEF places, o
  <2>. QED BY <1>1, <2>1, <2>2, PartOfSequence
<1>3. \A n \in S : \E i \in places : NameOrder[i] = n
  <2>1. SUFFICES ASSUME NEW n \in S PROVE \E i \in places : NameOrder[i] = n
    OBVIOUS
  <2>2. n \in Range(NameOrder) BY <1>1
  <2>3. PICK i \in DOMAIN NameOrder : NameOrder[i] = n BY <2>2 DEF Range
  <2>. QED BY <2>3
<1>4. \A i \in places : NameOrder[i] \in S OBVIOUS
<1>. HIDE DEF places, o
<1>5. /\ \A k \in DOMAIN o : o[k] \in S
      /\ \A n \in S : \E k \in DOMAIN o : o[k] = n
  BY <1>2, <1>3, <1>4
<1>. QED BY <1>2, <1>5 DEF o

\* The steps of an update lead to what is asked for.
LEMMA ConfigOpsFacts ==
  ASSUME NEW t, IsOverrides(t), NEW d, IsDesired(d)
  PROVE  /\ configOps(t, d) \in Seq(ConfigSteps)
         /\ \A i \in DOMAIN configOps(t, d) :
               StepValue(configOps(t, d)[i]) = AskedOf(d, configOps(t, d)[i].name)
         /\ \A n \in Names : \/ Effective(t, n) = AskedOf(d, n)
                             \/ \E i \in DOMAIN configOps(t, d) :
                                   configOps(t, d)[i].name = n
<1>. DEFINE S == {n \in DOMAIN d : Effective(t, n) # d[n]} \cup (DOMAIN t \ DOMAIN d)
            due == InNameOrder(S)
            ops == configOps(t, d)
<1>1. S \in SUBSET Names BY DEF IsOverrides, IsDesired
<1>2. /\ due \in Seq(Names) /\ \A k \in DOMAIN due : due[k] \in S
      /\ \A n \in S : \E k \in DOMAIN due : due[k] = n
  <2>. HIDE DEF S
  <2>. QED BY <1>1, InNameOrderFacts
<1>3. ops = [i \in DOMAIN due |-> Row(due[i], IF due[i] \in DOMAIN d THEN d[due[i]]
                                              ELSE NoValue)]
  BY DEF configOps
<1>4. \A n \in Names : n \notin S => Effective(t, n) = AskedOf(d, n)
  <2>1. SUFFICES ASSUME NEW n \in Names, n \notin S
                 PROVE  Effective(t, n) = AskedOf(d, n)
    OBVIOUS
  <2>2. CASE n \in DOMAIN d
    <3>1. Effective(t, n) = d[n] BY <2>1, <2>2
    <3>2. d[n] # "" BY <3>1, EffectiveFacts
    <3>. QED BY <2>2, <3>1, <3>2 DEF AskedOf
  <2>3. CASE n \notin DOMAIN d
    <3>1. n \notin DOMAIN t BY <2>1, <2>3
    <3>. QED BY <2>3, <3>1 DEF AskedOf, Effective
  <2>. QED BY <2>2, <2>3
<1>. HIDE DEF S, due, ops
<1>5. DOMAIN ops = DOMAIN due
      /\ \A i \in DOMAIN due :
            /\ ops[i] = Row(due[i], IF due[i] \in DOMAIN d THEN d[due[i]] ELSE NoValue)
            /\ ops[i].name = due[i]
            /\ ops[i].value = IF due[i] \in DOMAIN d THEN d[due[i]] ELSE NoValue
  BY <1>3 DEF Row
<1>6. \A i \in DOMAIN due : due[i] \in Names BY <1>2
<1>7. \A i \in DOMAIN due : ops[i] \in ConfigSteps
  <2>1. SUFFICES ASSUME NEW i \in DOMAIN due PROVE ops[i] \in ConfigSteps
    OBVIOUS
  <2>2. (IF due[i] \in DOMAIN d THEN d[due[i]] ELSE NoValue) \in Inputs \cup {NoValue}
    BY DEF IsDesired
  <2>. QED BY <1>5, <1>6, <2>2 DEF ConfigSteps, Row
<1>8. ops \in Seq(ConfigSteps)
  <2>1. DOMAIN due = 1..Len(due) /\ Len(due) \in Nat BY <1>2
  <2>2. ops = [i \in 1..Len(due) |-> ops[i]] BY <1>3, <2>1
  <2>3. \A i \in 1..Len(due) : ops[i] \in ConfigSteps BY <1>7, <2>1
  <2>4. ops \in [1..Len(due) -> ConfigSteps] BY <2>2, <2>3
  <2>. QED BY <2>1, <2>4
<1>9. \A i \in DOMAIN ops : StepValue(ops[i]) = AskedOf(d, ops[i].name)
  <2>1. SUFFICES ASSUME NEW i \in DOMAIN ops
                 PROVE  StepValue(ops[i]) = AskedOf(d, ops[i].name)
    OBVIOUS
  <2>2. CASE due[i] \in DOMAIN d
    <3>1. ops[i].value = d[due[i]] /\ ops[i].name = due[i] BY <1>5, <2>2
    <3>2. d[due[i]] # NoValue BY <2>2, NoEmptyValue DEF IsDesired, Inputs
    <3>. QED BY <2>2, <3>1, <3>2 DEF StepValue, AskedOf
  <2>3. CASE due[i] \notin DOMAIN d BY <1>5, <2>3 DEF StepValue, AskedOf
  <2>. QED BY <2>2, <2>3
<1>10. \A n \in Names : \/ Effective(t, n) = AskedOf(d, n)
                        \/ \E i \in DOMAIN ops : ops[i].name = n
  BY <1>2, <1>4, <1>5
<1>. QED BY <1>8, <1>9, <1>10 DEF ops

----------------------------------------------------------------------------
\* What is sent.

\* Names that are unique give every row its value.
LEMMA ReducerFacts ==
  ASSUME NEW f, Sendable(f)
  PROVE  /\ DOMAIN topicReducer(f.rows) = RowNames(f.rows)
         /\ \A i \in DOMAIN f.rows :
               topicReducer(f.rows)[f.rows[i].name] = f.rows[i].value
         /\ RowNames(f.rows) \subseteq Names
         /\ \A n \in RowNames(f.rows) : topicReducer(f.rows)[n] \in TopicValues
<1>. DEFINE rows == f.rows
<1>1. rows \in Seq(ParamRows) BY DEF Sendable, TopicForms
<1>2. \A i \in DOMAIN rows : /\ rows[i] \in ParamRows /\ i \in Int
                             /\ rows[i].name \in Names \cup {""}
                             /\ rows[i].value \in Inputs
  <2>1. \A i \in DOMAIN rows : rows[i] \in ParamRows /\ i \in Int BY <1>1
  <2>. QED BY <2>1 DEF ParamRows
<1>3. \A i, j \in DOMAIN rows : i # j => rows[i].name # rows[j].name
  BY DEF Sendable, isUnique
<1>4. \A i \in DOMAIN rows : rows[i].name # "" /\ rows[i].value # ""
  BY DEF Sendable
<1>5. topicReducer(rows) = [n \in RowNames(rows) |->
        rows[CHOOSE i \in DOMAIN rows : rows[i].name = n
                 /\ \A j \in DOMAIN rows : rows[j].name = n => j <= i].value]
  BY DEF topicReducer
<1>. HIDE DEF rows
<1>6. ASSUME NEW i \in DOMAIN rows
      PROVE  topicReducer(rows)[rows[i].name] = rows[i].value
  <2>1. rows[i].name \in RowNames(rows) BY DEF RowNames
  <2>2. \A j \in DOMAIN rows :
           (/\ rows[j].name = rows[i].name
            /\ \A k \in DOMAIN rows : rows[k].name = rows[i].name => k <= j) <=> j = i
    <3>1. \A j \in DOMAIN rows : rows[j].name = rows[i].name => j = i BY <1>3
    <3>2. i <= i
      <4>1. i \in Int BY <1>2
      <4>. QED BY <4>1
    <3>. QED BY <3>1, <3>2
  <2>3. (CHOOSE j \in DOMAIN rows : rows[j].name = rows[i].name
            /\ \A k \in DOMAIN rows : rows[k].name = rows[i].name => k <= j) = i
    BY <2>2
  <2>. QED BY <1>5, <2>1, <2>3
<1>7. RowNames(rows) \subseteq Names BY <1>2, <1>4 DEF RowNames
<1>8. \A n \in RowNames(rows) : topicReducer(rows)[n] \in TopicValues
  <2>1. SUFFICES ASSUME NEW i \in DOMAIN rows
                 PROVE  topicReducer(rows)[rows[i].name] \in TopicValues
    BY DEF RowNames
  <2>. QED BY <1>2, <1>4, <1>6 DEF Inputs
<1>9. DOMAIN topicReducer(rows) = RowNames(rows) BY <1>5
<1>. QED BY <1>6, <1>7, <1>8, <1>9 DEF rows

\* What an update asks for: the fields, then the rows.
LEMMA UpdateFacts ==
  ASSUME NEW f, Sendable(f)
  PROVE  /\ IsDesired(formatTopicUpdate(f))
         /\ DOMAIN formatTopicUpdate(f) = Fixed \cup RowNames(f.rows)
         /\ \A n \in Fixed : formatTopicUpdate(f)[n] = f.fields[n]
         /\ \A i \in DOMAIN f.rows : f.rows[i].name \notin Fixed =>
               formatTopicUpdate(f)[f.rows[i].name] = f.rows[i].value
<1>. DEFINE d == formatTopicUpdate(f)
            r == topicReducer(f.rows)
<1>1. f.fields \in [Fixed -> Inputs] BY DEF Sendable, TopicForms
<1>2. d = [x \in DOMAIN f.fields \cup DOMAIN r |->
              IF x \in DOMAIN f.fields THEN f.fields[x] ELSE r[x]]
  BY DEF formatTopicUpdate, Over
<1>3. DOMAIN r = RowNames(f.rows) /\ DOMAIN f.fields = Fixed
  BY <1>1, ReducerFacts
<1>4. \A n \in RowNames(f.rows) : n \in Names /\ r[n] \in Inputs
  BY ReducerFacts DEF Inputs
<1>5. \A i \in DOMAIN f.rows : /\ r[f.rows[i].name] = f.rows[i].value
                               /\ f.rows[i].name \in RowNames(f.rows)
  BY ReducerFacts DEF RowNames
<1>. HIDE DEF r, d
<1>6. DOMAIN d = Fixed \cup RowNames(f.rows)
      /\ \A n \in DOMAIN d : d[n] = IF n \in Fixed THEN f.fields[n] ELSE r[n]
  BY <1>2, <1>3
<1>7. d \in [DOMAIN d -> Inputs]
  <2>1. \A n \in DOMAIN d : d[n] \in Inputs BY <1>1, <1>4, <1>6
  <2>2. d = [n \in DOMAIN d |-> d[n]] BY <1>2
  <2>. QED BY <2>1, <2>2
<1>8. IsDesired(d) BY <1>4, <1>6, <1>7, ValueFacts DEF IsDesired
<1>9. \A i \in DOMAIN f.rows : f.rows[i].name \notin Fixed =>
         d[f.rows[i].name] = f.rows[i].value
  BY <1>5, <1>6
<1>. QED BY <1>6, <1>8, <1>9 DEF d

\* What a creation asks for: the rows, then the fields, nothing empty.
LEMMA CreationFacts ==
  ASSUME NEW f, Sendable(f)
  PROVE  /\ IsDesired(formatTopicCreation(f)) /\ IsOverrides(formatTopicCreation(f))
         /\ \A i \in DOMAIN f.rows :
               Effective(formatTopicCreation(f), f.rows[i].name) = f.rows[i].value
         /\ \A n \in Fixed \ (RowNames(f.rows) \cup {"retention.bytes"}) :
               Effective(formatTopicCreation(f), n) =
                   IF f.fields[n] = "" THEN "broker" ELSE f.fields[n]
<1>. DEFINE d == formatTopicCreation(f)
            r == topicReducer(f.rows)
            fixed == Fixed \ {"retention.bytes"}
            c == Over(r, [n \in fixed |-> f.fields[n]])
<1>1. f.fields \in [Fixed -> Inputs] BY DEF Sendable, TopicForms
<1>2. d = [n \in {n \in DOMAIN c : c[n] # ""} |-> c[n]]
  BY DEF formatTopicCreation
<1>3. DOMAIN r = RowNames(f.rows) BY ReducerFacts
<1>4. \A n \in RowNames(f.rows) : n \in Names /\ r[n] \in TopicValues
  BY ReducerFacts
<1>5. \A i \in DOMAIN f.rows : /\ r[f.rows[i].name] = f.rows[i].value
                               /\ f.rows[i].name \in RowNames(f.rows)
  BY ReducerFacts DEF RowNames
<1>. HIDE DEF r, fixed
<1>6. DOMAIN c = RowNames(f.rows) \cup fixed
      /\ \A n \in DOMAIN c : c[n] = IF n \in RowNames(f.rows) THEN r[n] ELSE f.fields[n]
  BY <1>3 DEF Over
<1>. HIDE DEF c
<1>7. /\ \A n \in DOMAIN d : n \in DOMAIN c /\ d[n] = c[n] /\ c[n] # ""
      /\ \A n \in DOMAIN c : c[n] # "" => n \in DOMAIN d
  BY <1>2
<1>8. \A n \in DOMAIN c : n \in Names /\ c[n] \in Inputs
  BY <1>1, <1>4, <1>6, ValueFacts DEF Inputs, fixed
<1>9. \A n \in DOMAIN d : n \in Names /\ d[n] \in TopicValues /\ d[n] \in Inputs
  BY <1>7, <1>8 DEF Inputs
<1>10. d = [n \in DOMAIN d |-> d[n]] BY <1>2
<1>. HIDE DEF d
<1>11. IsDesired(d) /\ IsOverrides(d)
  BY <1>9, <1>10 DEF IsDesired, IsOverrides
<1>12. \A i \in DOMAIN f.rows : Effective(d, f.rows[i].name) = f.rows[i].value
  <2>1. SUFFICES ASSUME NEW i \in DOMAIN f.rows
                 PROVE  Effective(d, f.rows[i].name) = f.rows[i].value
    OBVIOUS
  <2>2. c[f.rows[i].name] = f.rows[i].value /\ f.rows[i].name \in DOMAIN c
    BY <1>5, <1>6
  <2>3. f.rows[i].value # "" BY <1>4, <1>5, NoEmptyValue
  <2>. QED BY <2>2, <2>3, <1>7 DEF Effective
<1>13. \A n \in Fixed \ (RowNames(f.rows) \cup {"retention.bytes"}) :
          Effective(d, n) = IF f.fields[n] = "" THEN "broker" ELSE f.fields[n]
  <2>1. SUFFICES ASSUME NEW n \in Fixed, n \notin RowNames(f.rows),
                        n # "retention.bytes"
                 PROVE  Effective(d, n) =
                            IF f.fields[n] = "" THEN "broker" ELSE f.fields[n]
    OBVIOUS
  <2>2. n \in DOMAIN c /\ c[n] = f.fields[n] BY <2>1, <1>6 DEF fixed
  <2>. QED BY <2>2, <1>7 DEF Effective
<1>. QED BY <1>11, <1>12, <1>13 DEF d

----------------------------------------------------------------------------
\* The invariant holds at first.

\* What a topic is loaded as.
LEMMA TransformerFacts ==
  ASSUME NEW t, IsOverrides(t)
  PROVE  LET f == topicParamsTransformer(t)
         IN  /\ f.fields = [n \in Fixed |-> getValue(t, n)]
             /\ f.rows \in Seq(ParamRows)
             /\ \A i \in DOMAIN f.rows : f.rows[i].value = Effective(t, f.rows[i].name)
             /\ \A n \in Listed : Effective(t, n) # "broker" => n \in RowNames(f.rows)
<1>. DEFINE S == {n \in Listed : Effective(t, n) # "broker"}
            custom == InNameOrder(S)
            rows == [i \in DOMAIN custom |-> Row(custom[i], Effective(t, custom[i]))]
<1>1. topicParamsTransformer(t) = [fields |-> [n \in Fixed |-> getValue(t, n)],
                                   rows |-> rows]
  BY DEF topicParamsTransformer
<1>2. S \in SUBSET Names BY ValueFacts
<1>3. /\ custom \in Seq(Names)
      /\ \A n \in S : \E k \in DOMAIN custom : custom[k] = n
  <2>. HIDE DEF S
  <2>. QED BY <1>2, InNameOrderFacts
<1>. HIDE DEF S, custom
<1>4. \A i \in DOMAIN custom : /\ rows[i].name = custom[i]
                               /\ rows[i].value = Effective(t, custom[i])
  BY DEF Row
<1>5. rows \in Seq(ParamRows) /\ DOMAIN rows = DOMAIN custom
  <2>1. \A i \in DOMAIN custom : Row(custom[i], Effective(t, custom[i])) \in ParamRows
    <3>1. SUFFICES ASSUME NEW i \in DOMAIN custom
                   PROVE  Row(custom[i], Effective(t, custom[i])) \in ParamRows
      OBVIOUS
    <3>2. custom[i] \in Names BY <1>3
    <3>3. Effective(t, custom[i]) \in Inputs BY EffectiveFacts DEF Inputs
    <3>. QED BY <3>2, <3>3 DEF Row, ParamRows
  <2>2. DOMAIN custom = 1..Len(custom) /\ Len(custom) \in Nat BY <1>3
  <2>3. rows \in [1..Len(custom) -> ParamRows] BY <2>1, <2>2
  <2>. QED BY <2>2, <2>3
<1>. HIDE DEF rows
<1>6. \A i \in DOMAIN rows : rows[i].value = Effective(t, rows[i].name) BY <1>4, <1>5
<1>7. \A n \in Listed : Effective(t, n) # "broker" => n \in RowNames(rows)
  <2>1. SUFFICES ASSUME NEW n \in Listed, Effective(t, n) # "broker"
                 PROVE  n \in RowNames(rows)
    OBVIOUS
  <2>2. n \in S BY <2>1 DEF S
  <2>3. PICK k \in DOMAIN custom : custom[k] = n BY <2>2, <1>3
  <2>. QED BY <2>3, <1>4, <1>5 DEF RowNames
<1>. QED BY <1>1, <1>5, <1>6, <1>7

\* The form opens with the topic as it is, or empty.
LEMMA TopicStarts == TopicInit => TopicInv
<1>1. SUFFICES ASSUME TopicInit PROVE TopicInv
  OBVIOUS
<1>2. PICK mode \in {"edit", "new"} :
          /\ topic \in IF mode = "new" THEN {<<>>} ELSE StartTopics
          /\ LET first == IF mode = "new" THEN Blank
                          ELSE topicParamsTransformer(topic)
             IN  form = [mode |-> mode, existing |-> {}, pending |-> FALSE,
                         fields |-> first.fields, rows |-> first.rows]
  BY <1>1 DEF TopicInit
<1>3. loaded = topic /\ job = [phase |-> "none"] /\ touched = {} /\ foreign = {}
  BY <1>1 DEF TopicInit
<1>4. IsOverrides(topic)
  <2>1. CASE mode = "new"
    <3>1. topic = <<>> BY <1>2, <2>1
    <3>. QED BY <3>1 DEF IsOverrides
  <2>2. CASE mode = "edit" BY <1>2, <2>2, TopicFormValues DEF IsOverrides
  <2>. QED BY <2>1, <2>2
<1>5. CASE mode = "new"
  <2>1. form = [mode |-> "new", existing |-> {}, pending |-> FALSE,
                fields |-> [n \in Fixed |-> ""], rows |-> <<>>]
    BY <1>2, <1>5 DEF Blank
  <2>2. form.mode = "new" /\ form.existing = {}
    BY <2>1
  <2>4. form \in TopicForms
    <3>1. [n \in Fixed |-> ""] \in [Fixed -> Inputs] BY DEF Inputs
    <3>2. <<>> \in Seq(ParamRows) OBVIOUS
    <3>. QED BY <2>1, <3>1, <3>2 DEF TopicForms
  <2>5. FormOK BY <2>2, <2>4 DEF FormOK
  <2>3. JobOK /\ ApplyingOK BY <1>3, <2>1 DEF JobOK, ApplyingOK, Busy
  <2>. QED BY <1>3, <1>4, <2>5, <2>3 DEF TopicInv
<1>6. CASE mode = "edit"
  <2>. DEFINE f == topicParamsTransformer(topic)
  <2>1. form = [mode |-> "edit", existing |-> {}, pending |-> FALSE,
                fields |-> f.fields, rows |-> f.rows]
    BY <1>2, <1>6
  <2>2. /\ f.fields = [n \in Fixed |-> getValue(topic, n)]
        /\ f.rows \in Seq(ParamRows)
        /\ \A i \in DOMAIN f.rows : f.rows[i].value = Effective(topic, f.rows[i].name)
        /\ \A n \in Listed : Effective(topic, n) # "broker" => n \in RowNames(f.rows)
    BY <1>4, TransformerFacts
  <2>. HIDE DEF f
  <2>3. \A n \in Fixed : getValue(topic, n) \in Inputs
    BY <1>4, EffectiveFacts DEF Inputs
  <2>4. f.fields \in [Fixed -> Inputs] BY <2>2, <2>3
  <2>5. form \in TopicForms BY <2>1, <2>2, <2>4 DEF TopicForms
  <2>6. KeepsLoaded(form)
    <3>1. form.fields = f.fields /\ form.rows = f.rows BY <2>1
    <3>. QED BY <3>1, <2>2, <1>3 DEF KeepsLoaded
  <2>7. FormOK BY <2>1, <2>5, <2>6 DEF FormOK
  <2>8. JobOK /\ ApplyingOK BY <1>3, <2>1 DEF JobOK, ApplyingOK, Busy
  <2>. QED BY <1>3, <1>4, <2>7, <2>8 DEF TopicInv
<1>. QED BY <1>5, <1>6

----------------------------------------------------------------------------
\* The user edits.

\* A sequence with a member replaced.
LEMMA Replaced ==
  ASSUME NEW D, NEW s \in Seq(D), NEW i \in DOMAIN s
  PROVE  /\ s[i] \in D
         /\ \A e \in D : [s EXCEPT ![i] = e] \in Seq(D)
<1>1. i \in 1..Len(s) OBVIOUS
<1>. QED BY <1>1, ExceptSeq
\* A sequence with a member added.
LEMMA Added ==
  ASSUME NEW D, NEW s \in Seq(D), NEW e \in D
  PROVE  /\ Append(s, e) \in Seq(D)
         /\ \A i \in DOMAIN s : i \in DOMAIN Append(s, e) /\ Append(s, e)[i] = s[i]
         /\ \A i \in DOMAIN Append(s, e) : i \notin DOMAIN s => Append(s, e)[i] = e
OBVIOUS

\* More is touched: what was kept of the rest still is.
LEMMA TouchedGrows ==
  ASSUME NEW f, KeepsLoaded(f), touched \subseteq touched', loaded' = loaded
  PROVE  \A n \in Names \ touched' :
        /\ n \in Fixed => f.fields[n] = getValue(loaded', n)
        /\ \A i \in DOMAIN f.rows :
              f.rows[i].name = n => f.rows[i].value = Effective(loaded', n)
        /\ n \in Listed /\ Effective(loaded', n) # "broker" => n \in RowNames(f.rows)
BY DEF KeepsLoaded

\* An edit of the form does not disturb the request.
LEMMA EditsKeepJob ==
  ASSUME TopicInv, FormOK', UNCHANGED <<topic, job, loaded, foreign>>,
         form'.mode = form.mode, form'.pending = form.pending,
         touched \subseteq touched', touched' \subseteq Names \cup {""}
  PROVE  TopicInv'
<1>1. JobOK'
  <2>1. (job.phase \in Busy /\ job.shown.mode = "edit" => KeepsLoaded(job.shown))'
    <3>1. SUFFICES ASSUME job.phase \in Busy, job.shown.mode = "edit"
                   PROVE  KeepsLoaded(job.shown)'
      OBVIOUS
    <3>2. KeepsLoaded(job.shown) BY <3>1 DEF TopicInv, JobOK
    <3>. QED BY <3>2, TouchedGrows DEF KeepsLoaded
  <2>. QED BY <2>1 DEF TopicInv, JobOK
<1>2. ApplyingOK' BY DEF TopicInv, ApplyingOK
<1>3. (IsOverrides(topic) /\ IsOverrides(loaded))' BY DEF TopicInv, IsOverrides
<1>. QED BY <1>1, <1>2, <1>3 DEF TopicInv

\* A field is typed in.
LEMMA EnterStep ==
  ASSUME TopicInv, NEW n \in Fixed, NEW v \in Typed \cup {""}, Enter(n, v)
  PROVE  TopicInv'
<1>1. /\ form' = [form EXCEPT !.fields[n] = v] /\ touched' = touched \cup {n}
      /\ UNCHANGED <<topic, job, loaded, foreign>>
  BY DEF Enter
<1>2. form \in TopicForms BY DEF TopicInv, FormOK
<1>3. v \in Inputs BY NoEmptyValue DEF Inputs
<1>4. /\ form' \in TopicForms /\ form'.mode = form.mode /\ form'.pending = form.pending
      /\ form'.existing = form.existing /\ form'.rows = form.rows
      /\ \A m \in Fixed : m # n => form'.fields[m] = form.fields[m]
  BY <1>1, <1>2, <1>3 DEF TopicForms
<1>5. form'.mode = "edit" => KeepsLoaded(form)'
  <2>1. SUFFICES ASSUME form.mode = "edit" PROVE KeepsLoaded(form)'
    BY <1>4
  <2>2. KeepsLoaded(form) BY <2>1 DEF TopicInv, FormOK
  <2>3. SUFFICES ASSUME NEW k \in Names \ touched'
                 PROVE  /\ k \in Fixed => form'.fields[k] = getValue(loaded', k)
                        /\ \A j \in DOMAIN form'.rows :
                              form'.rows[j].name = k
                                  => form'.rows[j].value = Effective(loaded', k)
                        /\ k \in Listed /\ Effective(loaded', k) # "broker"
                              => k \in RowNames(form'.rows)
    BY DEF KeepsLoaded, RowNames
  <2>4. k \notin touched /\ k # n BY <1>1
  <2>. QED BY <2>2, <2>4, <1>1, <1>4 DEF KeepsLoaded
<1>6. FormOK'
  <2>1. form'.existing \subseteq RowNames(form'.rows) BY <1>4 DEF TopicInv, FormOK
  <2>. QED BY <2>1, <1>4, <1>5 DEF FormOK
<1>7. touched' \subseteq Names \cup {""} BY <1>1, ValueFacts DEF TopicInv
<1>. QED BY <1>1, <1>4, <1>6, <1>7, EditsKeepJob

\* An empty row is added: it has no name yet.
LEMMA AppendStep ==
  ASSUME TopicInv, append
  PROVE  TopicInv'
<1>1. /\ form' = [form EXCEPT !.rows = Append(@, Row("", ""))]
      /\ UNCHANGED <<topic, job, touched, loaded, foreign>>
  BY DEF append
<1>2. form \in TopicForms BY DEF TopicInv, FormOK
<1>3. form.rows \in Seq(ParamRows) /\ Row("", "") \in ParamRows
  BY <1>2 DEF TopicForms, ParamRows, Row, Inputs
<1>4. /\ form'.rows = Append(form.rows, Row("", "")) /\ form'.mode = form.mode
      /\ form'.pending = form.pending /\ form'.existing = form.existing
      /\ form'.fields = form.fields
  BY <1>1, <1>2 DEF TopicForms
<1>5. /\ form'.rows \in Seq(ParamRows)
      /\ \A i \in DOMAIN form.rows : i \in DOMAIN form'.rows /\ form'.rows[i] = form.rows[i]
      /\ \A i \in DOMAIN form'.rows : i \notin DOMAIN form.rows => form'.rows[i] = Row("", "")
  <2>. DEFINE old == form.rows
              new == form'.rows
              blank == Row("", "")
  <2>1. old \in Seq(ParamRows) /\ blank \in ParamRows /\ new = Append(old, blank)
    BY <1>3, <1>4
  <2>. HIDE DEF old, new, blank
  <2>2. /\ new \in Seq(ParamRows)
        /\ \A i \in DOMAIN old : i \in DOMAIN new /\ new[i] = old[i]
        /\ \A i \in DOMAIN new : i \notin DOMAIN old => new[i] = blank
    BY <2>1, Added
  <2>. QED BY <2>2 DEF old, new, blank
<1>6. form' \in TopicForms
  <2>1. Append(form.rows, Row("", "")) \in Seq(ParamRows) BY <1>4, <1>5
  <2>. QED BY <1>1, <1>2, <2>1 DEF TopicForms
<1>7. RowNames(form.rows) \subseteq RowNames(form'.rows) BY <1>5 DEF RowNames
<1>8. form'.mode = "edit" => KeepsLoaded(form)'
  <2>1. SUFFICES ASSUME form.mode = "edit" PROVE KeepsLoaded(form)'
    BY <1>4
  <2>2. KeepsLoaded(form) BY <2>1 DEF TopicInv, FormOK
  <2>3. \A n \in Names, i \in DOMAIN form'.rows :
           form'.rows[i].name = n => i \in DOMAIN form.rows
    <3>1. Row("", "").name = "" BY DEF Row
    <3>2. \A n \in Names : n # "" BY ValueFacts
    <3>. QED BY <1>5, <3>1, <3>2
  <2>4. SUFFICES ASSUME NEW n \in Names \ touched'
                 PROVE  /\ n \in Fixed => form'.fields[n] = getValue(loaded', n)
                        /\ \A j \in DOMAIN form'.rows :
                              form'.rows[j].name = n
                                  => form'.rows[j].value = Effective(loaded', n)
                        /\ n \in Listed /\ Effective(loaded', n) # "broker"
                              => n \in RowNames(form'.rows)
    BY DEF KeepsLoaded, RowNames
  <2>. QED BY <2>2, <2>3, <1>1, <1>4, <1>5, <1>7 DEF KeepsLoaded
<1>9. FormOK' BY <1>4, <1>6, <1>7, <1>8 DEF TopicInv, FormOK
<1>10. touched' \subseteq Names \cup {""} /\ touched \subseteq touched' BY <1>1 DEF TopicInv
<1>. QED BY <1>1, <1>4, <1>9, <1>10, EditsKeepJob

\* One row is replaced, and its names before and after are touched.
LEMMA RowReplaced ==
  ASSUME TopicInv, NEW i \in DOMAIN form.rows, NEW row \in ParamRows,
         form'.rows = [form.rows EXCEPT ![i] = row],
         form'.fields = form.fields, form'.mode = form.mode,
         form'.pending = form.pending, form' \in TopicForms,
         form'.existing \subseteq (form.existing \ {form.rows[i].name}) \cup {row.name},
         touched' = touched \cup {row.name, form.rows[i].name},
         UNCHANGED <<topic, job, loaded, foreign>>
  PROVE  TopicInv'
<1>1. form.rows \in Seq(ParamRows) BY DEF TopicInv, FormOK, TopicForms
<1>2. DOMAIN form'.rows = DOMAIN form.rows OBVIOUS
<1>3. /\ form'.rows[i] = row
      /\ \A j \in DOMAIN form.rows : j # i => form'.rows[j] = form.rows[j]
  OBVIOUS
<1>4. row.name \in Names \cup {""} /\ form.rows[i].name \in Names \cup {""}
  <2>1. form.rows[i] \in ParamRows BY <1>1
  <2>. QED BY <2>1 DEF ParamRows
<1>5. \A n \in RowNames(form.rows) : n # form.rows[i].name => n \in RowNames(form'.rows)
  BY <1>2, <1>3 DEF RowNames
<1>6. row.name \in RowNames(form'.rows) BY <1>2, <1>3 DEF RowNames
<1>7. form'.existing \subseteq RowNames(form'.rows)
  BY <1>5, <1>6 DEF TopicInv, FormOK
<1>8. form'.mode = "edit" => KeepsLoaded(form)'
  <2>1. SUFFICES ASSUME form.mode = "edit" PROVE KeepsLoaded(form)'
    OBVIOUS
  <2>2. KeepsLoaded(form) BY <2>1 DEF TopicInv, FormOK
  <2>3. SUFFICES ASSUME NEW n \in Names \ touched'
                 PROVE  /\ n \in Fixed => form'.fields[n] = getValue(loaded', n)
                        /\ \A j \in DOMAIN form'.rows :
                              form'.rows[j].name = n
                                  => form'.rows[j].value = Effective(loaded', n)
                        /\ n \in Listed /\ Effective(loaded', n) # "broker"
                              => n \in RowNames(form'.rows)
    BY DEF KeepsLoaded, RowNames
  <2>4. n \notin touched /\ n # row.name /\ n # form.rows[i].name OBVIOUS
  <2>5. \A j \in DOMAIN form'.rows : form'.rows[j].name = n =>
           j \in DOMAIN form.rows /\ form'.rows[j] = form.rows[j]
    BY <2>4, <1>2, <1>3
  <2>. QED BY <2>2, <2>4, <2>5, <1>5 DEF KeepsLoaded
<1>9. FormOK' BY <1>7, <1>8 DEF FormOK
<1>10. touched' \subseteq Names \cup {""} BY <1>4 DEF TopicInv
<1>. QED BY <1>9, <1>10, EditsKeepJob

\* A name is chosen for a row, with the value of the table.
LEMMA RenameStep ==
  ASSUME TopicInv, NEW i \in DOMAIN form.rows, NEW n \in Names \cup {""}, Rename(i, n)
  PROVE  TopicInv'
<1>. DEFINE row == Row(n, IF n \in Listed THEN "std" ELSE "")
<1>1. /\ form' = [form EXCEPT !.rows[i] = row,
                              !.existing = (@ \ {form.rows[i].name}) \cup {n}]
      /\ touched' = touched \cup {n, form.rows[i].name}
      /\ UNCHANGED <<topic, job, loaded, foreign>>
  BY DEF Rename, NameChosen
<1>2. form \in TopicForms /\ form.rows \in Seq(ParamRows) BY DEF TopicInv, FormOK, TopicForms
<1>3. row \in ParamRows /\ row.name = n BY NoEmptyValue DEF ParamRows, Row, Inputs
<1>. HIDE DEF row
<1>4. /\ form'.rows = [form.rows EXCEPT ![i] = row] /\ form'.mode = form.mode
      /\ form'.pending = form.pending /\ form'.fields = form.fields
      /\ form'.existing = (form.existing \ {form.rows[i].name}) \cup {n}
  BY <1>1, <1>2 DEF TopicForms
<1>5. [form.rows EXCEPT ![i] = row] \in Seq(ParamRows) BY <1>2, <1>3, Replaced
<1>6. form' \in TopicForms
  BY <1>1, <1>2, <1>4, <1>5 DEF TopicForms
<1>7. /\ form'.existing \subseteq (form.existing \ {form.rows[i].name}) \cup {row.name}
      /\ touched' = touched \cup {row.name, form.rows[i].name}
  BY <1>1, <1>3, <1>4
<1>. QED BY <1>1, <1>3, <1>4, <1>6, <1>7, RowReplaced

\* A value is typed next to a name.
LEMMA TypeValueStep ==
  ASSUME TopicInv, NEW i \in DOMAIN form.rows, NEW v \in Typed \cup {""}, TypeValue(i, v)
  PROVE  TopicInv'
<1>. DEFINE row == [form.rows[i] EXCEPT !.value = v]
<1>1. /\ form' = [form EXCEPT !.rows[i].value = v]
      /\ touched' = touched \cup {form.rows[i].name}
      /\ UNCHANGED <<topic, job, loaded, foreign>>
  BY DEF TypeValue
<1>2. form \in TopicForms /\ form.rows \in Seq(ParamRows) BY DEF TopicInv, FormOK, TopicForms
<1>3. v \in Inputs BY NoEmptyValue DEF Inputs
<1>4. row \in ParamRows /\ row.name = form.rows[i].name
  <2>1. form.rows[i] \in ParamRows BY <1>2, Replaced
  <2>. QED BY <2>1, <1>3 DEF ParamRows
<1>5. form' = [form EXCEPT !.rows[i] = row] BY <1>1
<1>. HIDE DEF row
<1>6. /\ form'.rows = [form.rows EXCEPT ![i] = row] /\ form'.mode = form.mode
      /\ form'.pending = form.pending /\ form'.fields = form.fields
      /\ form'.existing = form.existing
  BY <1>5, <1>2 DEF TopicForms
<1>7. [form.rows EXCEPT ![i] = row] \in Seq(ParamRows) BY <1>2, <1>4, Replaced
<1>8. form' \in TopicForms BY <1>2, <1>5, <1>6, <1>7 DEF TopicForms
<1>9. touched' = touched \cup {row.name, form.rows[i].name} BY <1>1, <1>4
<1>10. form'.existing \subseteq (form.existing \ {form.rows[i].name}) \cup {row.name}
  BY <1>4, <1>6
<1>. QED BY <1>1, <1>4, <1>6, <1>8, <1>9, <1>10, RowReplaced

\* A row is deleted, and its name is free again.
LEMMA RemoveFieldStep ==
  ASSUME TopicInv, NEW i \in DOMAIN form.rows, removeField(i)
  PROVE  TopicInv'
<1>. DEFINE s == RemoveAt(form.rows, i)
            gone == form.rows[i].name
<1>1. /\ form' = [form EXCEPT !.rows = s, !.existing = @ \ {gone}]
      /\ touched' = touched \cup {gone}
      /\ UNCHANGED <<topic, job, loaded, foreign>>
  BY DEF removeField
<1>2. form \in TopicForms /\ form.rows \in Seq(ParamRows) BY DEF TopicInv, FormOK, TopicForms
<1>3. /\ s \in Seq(ParamRows)
      /\ \A k \in DOMAIN s : \E j \in DOMAIN form.rows \ {i} : s[k] = form.rows[j]
      /\ \A j \in DOMAIN form.rows \ {i} : \E k \in DOMAIN s : s[k] = form.rows[j]
  <2>. DEFINE old == form.rows
  <2>1. old \in Seq(ParamRows) /\ i \in DOMAIN old /\ s = RemoveAt(old, i) BY <1>2
  <2>. HIDE DEF s, old
  <2>2. /\ s \in Seq(ParamRows)
        /\ \A k \in DOMAIN s : \E j \in DOMAIN old \ {i} : s[k] = old[j]
        /\ \A j \in DOMAIN old \ {i} : \E k \in DOMAIN s : s[k] = old[j]
    BY <2>1, Removed
  <2>. QED BY <2>2 DEF old
<1>4. gone \in Names \cup {""}
  <2>1. form.rows[i] \in ParamRows BY <1>2, Replaced
  <2>. QED BY <2>1 DEF ParamRows
<1>. HIDE DEF s
<1>5. /\ form'.rows = s /\ form'.mode = form.mode /\ form'.pending = form.pending
      /\ form'.fields = form.fields /\ form'.existing = form.existing \ {gone}
      /\ form' \in TopicForms
  BY <1>1, <1>2, <1>3 DEF TopicForms
<1>6. \A n \in RowNames(form.rows) : n # gone => n \in RowNames(s)
  <2>1. SUFFICES ASSUME NEW j \in DOMAIN form.rows, form.rows[j].name # gone
                 PROVE  form.rows[j].name \in RowNames(s)
    BY DEF RowNames
  <2>2. j \in DOMAIN form.rows \ {i} BY <2>1
  <2>3. PICK k \in DOMAIN s : s[k] = form.rows[j] BY <2>2, <1>3
  <2>. QED BY <2>3 DEF RowNames
<1>7. form'.mode = "edit" => KeepsLoaded(form)'
  <2>1. SUFFICES ASSUME form.mode = "edit" PROVE KeepsLoaded(form)'
    BY <1>5
  <2>2. KeepsLoaded(form) BY <2>1 DEF TopicInv, FormOK
  <2>3. SUFFICES ASSUME NEW n \in Names \ touched'
                 PROVE  /\ n \in Fixed => form'.fields[n] = getValue(loaded', n)
                        /\ \A j \in DOMAIN form'.rows :
                              form'.rows[j].name = n
                                  => form'.rows[j].value = Effective(loaded', n)
                        /\ n \in Listed /\ Effective(loaded', n) # "broker"
                              => n \in RowNames(form'.rows)
    BY DEF KeepsLoaded, RowNames
  <2>4. n \notin touched /\ n # gone BY <1>1
  <2>5. \A k \in DOMAIN s : s[k].name = n => s[k].value = Effective(loaded, n)
    BY <2>2, <2>4, <1>3 DEF KeepsLoaded
  <2>. HIDE DEF gone
  <2>. QED BY <2>2, <2>4, <2>5, <1>1, <1>5, <1>6 DEF KeepsLoaded
<1>8. FormOK' BY <1>5, <1>6, <1>7 DEF TopicInv, FormOK
<1>9. touched' \subseteq Names \cup {""} BY <1>1, <1>4 DEF TopicInv
<1>. QED BY <1>1, <1>5, <1>8, <1>9, EditsKeepJob

\* The page is left; a request goes on.
LEMMA LeaveStep ==
  ASSUME TopicInv, Leave
  PROVE  TopicInv'
<1>1. form' = [form EXCEPT !.mode = "left"]
      /\ UNCHANGED <<topic, job, touched, loaded, foreign>>
  BY DEF Leave
<1>2. form \in TopicForms BY DEF TopicInv, FormOK
<1>3. /\ form' \in TopicForms /\ form'.mode = "left" /\ form'.pending = form.pending
      /\ form'.rows = form.rows /\ form'.existing = form.existing
  BY <1>1, <1>2 DEF TopicForms
<1>4. FormOK' BY <1>3 DEF TopicInv, FormOK
<1>5. JobOK' BY <1>1, <1>3 DEF TopicInv, JobOK, KeepsLoaded
<1>6. ApplyingOK' BY <1>1 DEF TopicInv, ApplyingOK
<1>7. (IsOverrides(topic) /\ IsOverrides(loaded))' BY <1>1 DEF TopicInv, IsOverrides
<1>. QED BY <1>1, <1>4, <1>5, <1>6, <1>7 DEF TopicInv

\* The form is sent as it is.
LEMMA TopicSubmitStep ==
  ASSUME TopicInv, form.mode # "left", onSubmit
  PROVE  TopicInv'
<1>1. /\ isValid /\ ~form.pending /\ form' = [form EXCEPT !.pending = TRUE]
      /\ job' = [phase |-> "sent", shown |-> form,
                 desired |-> IF form.mode = "new" THEN formatTopicCreation(form)
                             ELSE formatTopicUpdate(form)]
      /\ UNCHANGED <<topic, touched, loaded, foreign>>
  BY DEF onSubmit
<1>2. form \in TopicForms BY DEF TopicInv, FormOK
<1>3. /\ form' \in TopicForms /\ form'.mode = form.mode /\ form'.pending = TRUE
      /\ form'.rows = form.rows /\ form'.existing = form.existing
      /\ form'.fields = form.fields /\ form.mode \in {"edit", "new", "left"}
  BY <1>1, <1>2 DEF TopicForms
<1>4. FormOK'
  <2>1. form'.existing \subseteq RowNames(form'.rows) BY <1>3 DEF TopicInv, FormOK
  <2>2. form'.mode = "edit" => KeepsLoaded(form)'
    <3>1. SUFFICES ASSUME form.mode = "edit" PROVE KeepsLoaded(form)'
      BY <1>3
    <3>2. KeepsLoaded(form) BY <3>1 DEF TopicInv, FormOK
    <3>3. SUFFICES ASSUME NEW k \in Names \ touched'
                   PROVE  /\ k \in Fixed => form'.fields[k] = getValue(loaded', k)
                          /\ \A j \in DOMAIN form'.rows :
                                form'.rows[j].name = k
                                    => form'.rows[j].value = Effective(loaded', k)
                          /\ k \in Listed /\ Effective(loaded', k) # "broker"
                                => k \in RowNames(form'.rows)
      BY DEF KeepsLoaded, RowNames
    <3>. QED BY <3>2, <1>1, <1>3 DEF KeepsLoaded
  <2>. QED BY <2>1, <2>2, <1>3 DEF FormOK
<1>5. /\ job'.phase = "sent" /\ job'.shown = form /\ job'.desired = DesiredOf(form)
      /\ job' = [phase |-> "sent", shown |-> job'.shown, desired |-> job'.desired]
  BY <1>1 DEF DesiredOf
<1>6. Sendable(form) BY <1>1, <1>2, <1>3 DEF Sendable, isValid
<1>7. Sendable(job.shown)' /\ (job.desired = DesiredOf(job.shown))'
  <2>1. Sendable(job.shown)' BY <1>5, <1>6 DEF Sendable, isUnique
  <2>2. (job.desired = DesiredOf(job.shown))'
    BY <1>5
  <2>. QED BY <2>1, <2>2
<1>8. form.mode = "edit" => KeepsLoaded(job.shown)'
  BY <1>1, <1>5 DEF TopicInv, FormOK, KeepsLoaded
<1>9. JobOK'
  <2>1. job'.phase \in Busy /\ job'.phase # "applying" /\ job'.phase # "created"
    BY <1>5 DEF Busy
  <2>2. (job.shown.mode = "edit" => KeepsLoaded(job.shown))' BY <1>5, <1>8
  <2>3. form'.mode = job'.shown.mode BY <1>3, <1>5
  <2>. QED BY <1>3, <1>5, <1>7, <2>1, <2>2, <2>3 DEF JobOK
<1>10. ApplyingOK' BY <1>5 DEF ApplyingOK
<1>11. (IsOverrides(topic) /\ IsOverrides(loaded))' BY <1>1 DEF TopicInv, IsOverrides
<1>. QED BY <1>1, <1>4, <1>9, <1>10, <1>11 DEF TopicInv

----------------------------------------------------------------------------
\* The server.

\* What a request under way asks for.
LEMMA JobFacts ==
  ASSUME TopicInv, job.phase \in Busy
  PROVE  /\ Sendable(job.shown) /\ IsDesired(job.desired)
         /\ job.shown.mode = "edit" => job.desired = formatTopicUpdate(job.shown)
         /\ job.shown.mode = "new" => job.desired = formatTopicCreation(job.shown)
<1>1. Sendable(job.shown) /\ job.desired = DesiredOf(job.shown) BY DEF TopicInv, JobOK
<1>2. job.shown.mode \in {"edit", "new"} BY <1>1 DEF Sendable
<1>. QED BY <1>1, <1>2, UpdateFacts, CreationFacts DEF DesiredOf

\* The server does not disturb the form.
LEMMA ServerKeepsForm ==
  ASSUME TopicInv, UNCHANGED <<form, touched, loaded>>
  PROVE  FormOK'
BY DEF TopicInv, FormOK, KeepsLoaded

\* The server compares what is asked for with what is there.
LEMMA UpdateConfigsStep ==
  ASSUME TopicInv, UpdateConfigs
  PROVE  TopicInv'
<1>1. /\ job.phase = "sent" /\ job.shown.mode = "edit"
      /\ job' = [phase |-> "applying", shown |-> job.shown, desired |-> job.desired,
                 before |-> AllEffective(topic), ops |-> configOps(topic, job.desired)]
      /\ UNCHANGED <<form, topic, touched, loaded, foreign>>
  BY DEF UpdateConfigs
<1>2. /\ job'.phase = "applying" /\ job'.shown = job.shown /\ job'.desired = job.desired
      /\ job'.before = AllEffective(topic) /\ job'.ops = configOps(topic, job.desired)
      /\ job' = [phase |-> "applying", shown |-> job'.shown, desired |-> job'.desired,
                 before |-> job'.before, ops |-> job'.ops]
  BY <1>1
<1>3. job.phase \in Busy /\ job'.phase \in Busy BY <1>1, <1>2 DEF Busy
<1>4. IsOverrides(topic) /\ IsDesired(job.desired) BY <1>3, JobFacts DEF TopicInv
<1>5. KeepsLoaded(job.shown)'
  <2>1. KeepsLoaded(job.shown) BY <1>1, <1>3 DEF TopicInv, JobOK
  <2>. QED BY <2>1, <1>1, <1>2 DEF KeepsLoaded
<1>6. JobOK'
  <2>1. /\ Sendable(job.shown) /\ form.mode \in {job.shown.mode, "left"}
        /\ job.desired = DesiredOf(job.shown) /\ form.pending
    BY <1>3 DEF TopicInv, JobOK
  <2>2. Sendable(job.shown)' /\ (job.desired = DesiredOf(job.shown))'
    BY <2>1, <1>2
  <2>3. form'.mode \in {job'.shown.mode, "left"} /\ form'.pending BY <2>1, <1>1, <1>2
  <2>. QED BY <2>2, <2>3, <1>1, <1>2, <1>3, <1>5 DEF JobOK
<1>7. ApplyingOK'
  <2>1. /\ job'.ops \in Seq(ConfigSteps)
        /\ \A i \in DOMAIN job'.ops :
              StepValue(job'.ops[i]) = AskedOf(job'.desired, job'.ops[i].name)
        /\ \A n \in Names : \/ Effective(topic, n) = AskedOf(job'.desired, n)
                            \/ \E i \in DOMAIN job'.ops : job'.ops[i].name = n
    BY <1>2, <1>4, ConfigOpsFacts
  <2>2. \A n \in Names : Effective(topic, n) = job'.before[n]
    BY <1>2 DEF AllEffective
  <2>3. topic' = topic BY <1>1
  <2>4. SUFFICES ASSUME NEW n \in Names \ foreign'
                 PROVE  /\ Effective(topic', n) \in {job'.before[n], AskedOf(job'.desired, n)}
                        /\ \/ Effective(topic', n) = AskedOf(job'.desired, n)
                           \/ \E i \in DOMAIN job'.ops : job'.ops[i].name = n
    BY <2>1 DEF ApplyingOK
  <2>. QED BY <2>1, <2>2, <2>3
<1>8. FormOK' BY <1>1, ServerKeepsForm
<1>9. (IsOverrides(topic) /\ IsOverrides(loaded))' BY <1>1 DEF TopicInv, IsOverrides
<1>. QED BY <1>1, <1>6, <1>7, <1>8, <1>9 DEF TopicInv

\* The head and the rest of a sequence.
LEMMA HeadAndTail ==
  ASSUME NEW D, NEW s \in Seq(D), s # <<>>
  PROVE  /\ Head(s) \in D /\ 1 \in DOMAIN s /\ Head(s) = s[1] /\ Tail(s) \in Seq(D)
         /\ \A i \in DOMAIN Tail(s) : i + 1 \in DOMAIN s /\ Tail(s)[i] = s[i + 1]
         /\ \A i \in DOMAIN s : i # 1 => i - 1 \in DOMAIN Tail(s) /\ Tail(s)[i - 1] = s[i]
OBVIOUS

\* One setting is changed on the server: it has what is asked for.
LEMMA ApplyOpStep ==
  ASSUME TopicInv, ApplyOp
  PROVE  TopicInv'
<1>. DEFINE op == Head(job.ops)
<1>1. /\ job.phase = "applying" /\ job.ops # <<>>
      /\ topic' = AlterTopicConfig(topic, op)
      /\ job' = [job EXCEPT !.ops = Tail(@)]
      /\ UNCHANGED <<form, touched, loaded, foreign>>
  BY DEF ApplyOp
<1>2. job = [phase |-> "applying", shown |-> job.shown, desired |-> job.desired,
             before |-> job.before, ops |-> job.ops]
  BY <1>1 DEF TopicInv, JobOK
<1>3. /\ job'.phase = "applying" /\ job'.shown = job.shown /\ job'.desired = job.desired
      /\ job'.before = job.before /\ job'.ops = Tail(job.ops)
      /\ job' = [phase |-> "applying", shown |-> job'.shown, desired |-> job'.desired,
                 before |-> job'.before, ops |-> job'.ops]
  BY <1>1, <1>2
<1>4. job.phase \in Busy /\ job'.phase \in Busy BY <1>1, <1>3 DEF Busy
<1>5. /\ job.ops \in Seq(ConfigSteps)
      /\ \A i \in DOMAIN job.ops :
            StepValue(job.ops[i]) = AskedOf(job.desired, job.ops[i].name)
      /\ \A n \in Names \ foreign :
            /\ Effective(topic, n) \in {job.before[n], AskedOf(job.desired, n)}
            /\ \/ Effective(topic, n) = AskedOf(job.desired, n)
               \/ \E i \in DOMAIN job.ops : job.ops[i].name = n
  BY <1>1 DEF TopicInv, ApplyingOK
<1>6. /\ op \in ConfigSteps /\ 1 \in DOMAIN job.ops /\ op = job.ops[1]
      /\ job'.ops \in Seq(ConfigSteps)
      /\ \A i \in DOMAIN job'.ops : i + 1 \in DOMAIN job.ops /\ job'.ops[i] = job.ops[i + 1]
      /\ \A i \in DOMAIN job.ops :
            i # 1 => i - 1 \in DOMAIN job'.ops /\ job'.ops[i - 1] = job.ops[i]
  <2>. DEFINE s == job.ops
              t == job'.ops
  <2>1. s \in Seq(ConfigSteps) /\ s # <<>> /\ t = Tail(s) /\ op = Head(s)
    BY <1>1, <1>3, <1>5
  <2>. HIDE DEF s, t, op
  <2>2. /\ op \in ConfigSteps /\ 1 \in DOMAIN s /\ op = s[1] /\ t \in Seq(ConfigSteps)
        /\ \A i \in DOMAIN t : i + 1 \in DOMAIN s /\ t[i] = s[i + 1]
        /\ \A i \in DOMAIN s : i # 1 => i - 1 \in DOMAIN t /\ t[i - 1] = s[i]
    BY <2>1, HeadAndTail
  <2>. QED BY <2>2 DEF s, t
<1>. HIDE DEF op
<1>7. /\ IsOverrides(topic')
      /\ \A n : Effective(topic', n) = IF n = op.name THEN StepValue(op)
                                       ELSE Effective(topic, n)
  <2>1. IsOverrides(topic) BY DEF TopicInv
  <2>. QED BY <2>1, <1>1, <1>6, AlterFacts
<1>8. StepValue(op) = AskedOf(job.desired, op.name) BY <1>5, <1>6
<1>9. ApplyingOK'
  <2>1. \A i \in DOMAIN job'.ops :
           StepValue(job'.ops[i]) = AskedOf(job'.desired, job'.ops[i].name)
    BY <1>3, <1>5, <1>6
  <2>2. SUFFICES ASSUME NEW n \in Names \ foreign'
                 PROVE  /\ Effective(topic', n) \in {job'.before[n], AskedOf(job'.desired, n)}
                        /\ \/ Effective(topic', n) = AskedOf(job'.desired, n)
                           \/ \E i \in DOMAIN job'.ops : job'.ops[i].name = n
    BY <2>1, <1>6 DEF ApplyingOK
  <2>3. CASE n = op.name
    <3>1. Effective(topic', n) = AskedOf(job'.desired, n) BY <2>3, <1>3, <1>7, <1>8
    <3>. QED BY <3>1
  <2>4. CASE n # op.name
    <3>1. Effective(topic', n) = Effective(topic, n) BY <2>4, <1>7
    <3>2. n \in Names \ foreign BY <1>1
    <3>3. CASE Effective(topic, n) = AskedOf(job.desired, n)
      BY <3>1, <3>3, <1>3
    <3>4. CASE \E i \in DOMAIN job.ops : job.ops[i].name = n
      <4>1. PICK i \in DOMAIN job.ops : job.ops[i].name = n BY <3>4
      <4>2. i # 1 BY <4>1, <2>4, <1>6
      <4>3. i - 1 \in DOMAIN job'.ops /\ job'.ops[i - 1].name = n BY <4>1, <4>2, <1>6
      <4>4. Effective(topic, n) \in {job.before[n], AskedOf(job.desired, n)}
        BY <3>2, <1>5
      <4>. QED BY <4>3, <4>4, <3>1, <1>3
    <3>. QED BY <3>2, <3>3, <3>4, <1>5
  <2>. QED BY <2>3, <2>4
<1>10. KeepsLoaded(job.shown)'
  <2>1. KeepsLoaded(job.shown) BY <1>1, <1>4 DEF TopicInv, JobOK
  <2>. QED BY <2>1, <1>1, <1>3 DEF KeepsLoaded
<1>11. JobOK'
  <2>1. /\ Sendable(job.shown) /\ form.mode \in {job.shown.mode, "left"}
        /\ job.desired = DesiredOf(job.shown) /\ form.pending
        /\ job.shown.mode = "edit"
    BY <1>1, <1>4 DEF TopicInv, JobOK
  <2>2. Sendable(job.shown)' /\ (job.desired = DesiredOf(job.shown))'
    BY <2>1, <1>3
  <2>3. form'.mode \in {job'.shown.mode, "left"} /\ form'.pending BY <2>1, <1>1, <1>3
  <2>. QED BY <2>1, <2>2, <2>3, <1>3, <1>4, <1>10 DEF JobOK
<1>12. FormOK' BY <1>1, ServerKeepsForm
<1>13. IsOverrides(loaded)' BY <1>1 DEF TopicInv, IsOverrides
<1>14. IsOverrides(topic)' BY <1>7 DEF IsOverrides
<1>. QED BY <1>1, <1>9, <1>11, <1>12, <1>13, <1>14 DEF TopicInv

\* The topic is created as it was asked for.
LEMMA CreateTopicStep ==
  ASSUME TopicInv, CreateTopic
  PROVE  TopicInv'
<1>1. /\ job.phase = "sent" /\ job.shown.mode = "new" /\ topic' = job.desired
      /\ job' = [job EXCEPT !.phase = "created"]
      /\ UNCHANGED <<form, touched, loaded, foreign>>
  BY DEF CreateTopic
<1>2. job = [phase |-> "sent", shown |-> job.shown, desired |-> job.desired]
  BY <1>1 DEF TopicInv, JobOK
<1>3. /\ job'.phase = "created" /\ job'.shown = job.shown /\ job'.desired = job.desired
      /\ job' = [phase |-> "created", shown |-> job'.shown, desired |-> job'.desired]
  BY <1>1, <1>2
<1>4. job.phase \in Busy /\ job'.phase \in Busy BY <1>1, <1>3 DEF Busy
<1>5. IsOverrides(topic')
  <2>1. Sendable(job.shown) /\ job.desired = formatTopicCreation(job.shown)
    BY <1>1, <1>4, JobFacts
  <2>. QED BY <2>1, <1>1, CreationFacts
<1>6. JobOK'
  <2>1. /\ Sendable(job.shown) /\ form.mode \in {job.shown.mode, "left"}
        /\ job.desired = DesiredOf(job.shown) /\ form.pending
    BY <1>4 DEF TopicInv, JobOK
  <2>2. Sendable(job.shown)' /\ (job.desired = DesiredOf(job.shown))'
    BY <2>1, <1>3
  <2>3. form'.mode \in {job'.shown.mode, "left"} /\ form'.pending BY <2>1, <1>1, <1>3
  <2>. QED BY <2>2, <2>3, <1>1, <1>3, <1>4 DEF JobOK
<1>7. ApplyingOK' BY <1>3 DEF ApplyingOK
<1>8. FormOK' BY <1>1, ServerKeepsForm
<1>9. IsOverrides(loaded)' BY <1>1 DEF TopicInv, IsOverrides
<1>10. IsOverrides(topic)' BY <1>5 DEF IsOverrides
<1>. QED BY <1>1, <1>6, <1>7, <1>8, <1>9, <1>10 DEF TopicInv

\* The answer ends the request.
LEMMA RequestEnds ==
  ASSUME TopicInv, job'.phase \in {"none", "done"}, ~form'.pending, FormOK',
         UNCHANGED <<topic, touched, loaded, foreign>>
  PROVE  TopicInv'
<1>1. JobOK' /\ ApplyingOK' BY DEF JobOK, ApplyingOK, Busy
<1>2. (IsOverrides(topic) /\ IsOverrides(loaded))' BY DEF TopicInv, IsOverrides
<1>. QED BY <1>1, <1>2 DEF TopicInv

\* Success leaves the page.
LEMMA SucceedStep ==
  ASSUME TopicInv, Succeed
  PROVE  TopicInv'
<1>1. /\ job' = [phase |-> "done"]
      /\ form' = [form EXCEPT !.pending = FALSE, !.mode = "left"]
      /\ UNCHANGED <<topic, touched, loaded, foreign>>
  BY DEF Succeed
<1>2. form \in TopicForms BY DEF TopicInv, FormOK
<1>3. /\ form' \in TopicForms /\ form'.mode = "left" /\ ~form'.pending
      /\ form'.rows = form.rows /\ form'.existing = form.existing
  BY <1>1, <1>2 DEF TopicForms
<1>4. FormOK' BY <1>3 DEF TopicInv, FormOK
<1>5. job'.phase = "done" BY <1>1
<1>. QED BY <1>1, <1>3, <1>4, <1>5, RequestEnds

\* A failure keeps the form as it is.
LEMMA FailStep ==
  ASSUME TopicInv, Fail
  PROVE  TopicInv'
<1>1. /\ job' = [phase |-> "none"] /\ form' = [form EXCEPT !.pending = FALSE]
      /\ UNCHANGED <<topic, touched, loaded, foreign>>
  BY DEF Fail
<1>2. form \in TopicForms BY DEF TopicInv, FormOK
<1>3. /\ form' \in TopicForms /\ form'.mode = form.mode /\ ~form'.pending
      /\ form'.rows = form.rows /\ form'.existing = form.existing
      /\ form'.fields = form.fields
  BY <1>1, <1>2 DEF TopicForms
<1>4. form'.mode = "edit" => KeepsLoaded(form)'
  <2>1. SUFFICES ASSUME form.mode = "edit" PROVE KeepsLoaded(form)'
    BY <1>3
  <2>2. KeepsLoaded(form) BY <2>1 DEF TopicInv, FormOK
  <2>3. SUFFICES ASSUME NEW k \in Names \ touched'
                 PROVE  /\ k \in Fixed => form'.fields[k] = getValue(loaded', k)
                        /\ \A j \in DOMAIN form'.rows :
                              form'.rows[j].name = k
                                  => form'.rows[j].value = Effective(loaded', k)
                        /\ k \in Listed /\ Effective(loaded', k) # "broker"
                              => k \in RowNames(form'.rows)
    BY DEF KeepsLoaded, RowNames
  <2>. QED BY <2>2, <1>1, <1>3 DEF KeepsLoaded
<1>5. FormOK' BY <1>3, <1>4 DEF TopicInv, FormOK
<1>6. job'.phase = "none" BY <1>1
<1>. QED BY <1>1, <1>3, <1>5, <1>6, RequestEnds

\* Another user's change is to a setting that is foreign from then on.
LEMMA ForeignAlterStep ==
  ASSUME TopicInv, NEW n \in Names, NEW v \in Typed, ForeignAlter(n, v)
  PROVE  TopicInv'
<1>1. /\ form.mode = "edit" /\ topic' = AlterTopicConfig(topic, Row(n, v))
      /\ foreign' = foreign \cup {n}
      /\ UNCHANGED <<form, job, touched, loaded>>
  BY DEF ForeignAlter
<1>2. Row(n, v) \in ConfigSteps /\ Row(n, v).name = n
  BY NoEmptyValue DEF ConfigSteps, Inputs, Row
<1>3. /\ IsOverrides(topic')
      /\ \A m : m # n => Effective(topic', m) = Effective(topic, m)
  <2>1. IsOverrides(topic) BY DEF TopicInv
  <2>. QED BY <2>1, <1>1, <1>2, AlterFacts
<1>4. job.phase # "created"
  <2>1. SUFFICES ASSUME job.phase = "created" PROVE FALSE
    OBVIOUS
  <2>2. job.shown.mode = "new" /\ form.mode \in {job.shown.mode, "left"}
    BY <2>1 DEF TopicInv, JobOK, Busy
  <2>. QED BY <2>2, <1>1
<1>5. JobOK' BY <1>1, <1>4 DEF TopicInv, JobOK, KeepsLoaded
<1>6. ApplyingOK'
  <2>1. SUFFICES ASSUME job.phase = "applying" PROVE ApplyingOK'
    BY <1>1 DEF ApplyingOK
  <2>2. /\ job.ops \in Seq(ConfigSteps)
        /\ \A i \in DOMAIN job.ops :
              StepValue(job.ops[i]) = AskedOf(job.desired, job.ops[i].name)
        /\ \A m \in Names \ foreign :
              /\ Effective(topic, m) \in {job.before[m], AskedOf(job.desired, m)}
              /\ \/ Effective(topic, m) = AskedOf(job.desired, m)
                 \/ \E i \in DOMAIN job.ops : job.ops[i].name = m
    BY <2>1 DEF TopicInv, ApplyingOK
  <2>3. SUFFICES ASSUME NEW m \in Names \ foreign'
                 PROVE  /\ Effective(topic', m) \in {job'.before[m], AskedOf(job'.desired, m)}
                        /\ \/ Effective(topic', m) = AskedOf(job'.desired, m)
                           \/ \E i \in DOMAIN job'.ops : job'.ops[i].name = m
    BY <2>2, <1>1 DEF ApplyingOK
  <2>4. m \in Names \ foreign /\ m # n BY <1>1
  <2>5. Effective(topic', m) = Effective(topic, m) BY <2>4, <1>3
  <2>. QED BY <2>2, <2>4, <2>5, <1>1
<1>7. FormOK' BY <1>1, ServerKeepsForm
<1>8. IsOverrides(loaded)' BY <1>1 DEF TopicInv, IsOverrides
<1>9. IsOverrides(topic)' BY <1>3 DEF IsOverrides
<1>10. foreign' \subseteq Names BY <1>1 DEF TopicInv
<1>. QED BY <1>1, <1>5, <1>6, <1>7, <1>8, <1>9, <1>10 DEF TopicInv

----------------------------------------------------------------------------
\* Every step keeps the invariant, and what it says.

LEMMA TopicUserStep ==
  ASSUME TopicInv, TopicUser
  PROVE  TopicInv'
<1>1. form.mode # "left" BY DEF TopicUser
<1>2. CASE append BY <1>2, AppendStep
<1>3. CASE onSubmit BY <1>1, <1>3, TopicSubmitStep
<1>4. CASE onCancel \/ Leave BY <1>4, LeaveStep DEF onCancel
<1>5. CASE \E n \in Fixed \ Selects, v \in Typed \cup {""} : TypeField(n, v)
  <2>1. PICK n \in Fixed \ Selects, v \in Typed \cup {""} : TypeField(n, v) BY <1>5
  <2>. QED BY <2>1, EnterStep DEF TypeField
<1>6. CASE \E n \in Selects, v \in Typed : updateSelectedOption(n, v)
  <2>1. PICK n \in Selects, v \in Typed : updateSelectedOption(n, v) BY <1>6
  <2>2. n \in Fixed /\ v \in Typed \cup {""} BY ValueFacts
  <2>. QED BY <2>1, <2>2, EnterStep DEF updateSelectedOption
<1>7. CASE \E v \in Typed : TimeToRetainBtn(v)
  <2>1. PICK v \in Typed : TimeToRetainBtn(v) BY <1>7
  <2>2. "retention.ms" \in Fixed /\ v \in Typed \cup {""} BY ValueFacts
  <2>. QED BY <2>1, <2>2, EnterStep DEF TimeToRetainBtn
<1>8. CASE \E i \in DOMAIN form.rows :
              \/ \E n \in Names \cup {""} : Rename(i, n)
              \/ \E v \in Typed \cup {""} : TypeValue(i, v)
              \/ removeField(i)
  BY <1>8, RenameStep, TypeValueStep, RemoveFieldStep
<1>. QED BY <1>2, <1>3, <1>4, <1>5, <1>6, <1>7, <1>8 DEF TopicUser

\* Every step of the form, the server and the others keeps the invariant.
LEMMA TopicStep == TopicInv /\ [TopicNext]_topicVars => TopicInv'
<1>1. SUFFICES ASSUME TopicInv, [TopicNext]_topicVars PROVE TopicInv'
  OBVIOUS
<1>2. CASE TopicUser BY <1>1, <1>2, TopicUserStep
<1>3. CASE TopicServer
  BY <1>1, <1>3, UpdateConfigsStep, ApplyOpStep, CreateTopicStep, SucceedStep DEF TopicServer
<1>4. CASE Fail BY <1>1, <1>4, FailStep
<1>5. CASE \E n \in Names, v \in Typed : ForeignAlter(n, v)
  BY <1>1, <1>5, ForeignAlterStep
<1>6. CASE UNCHANGED topicVars
  <2>1. UNCHANGED <<form, topic, job, touched, loaded, foreign>> BY <1>6 DEF topicVars
  <2>2. FormOK' BY <1>1, <2>1, ServerKeepsForm
  <2>3. form'.mode = form.mode /\ form'.pending = form.pending BY <2>1
  <2>4. touched \subseteq touched' /\ touched' \subseteq Names \cup {""}
    BY <1>1, <2>1 DEF TopicInv
  <2>. QED BY <1>1, <2>1, <2>2, <2>3, <2>4, EditsKeepJob
<1>. QED BY <1>1, <1>2, <1>3, <1>4, <1>5, <1>6 DEF TopicNext

\* The invariant gives the types, the names shown as taken and the values
\* of the settings while an update is applied.
LEMMA TopicInvShows == TopicInv => TopicTypeOK /\ TakenIsUsed /\ NoThirdValue
<1>1. SUFFICES ASSUME TopicInv PROVE TopicTypeOK /\ TakenIsUsed /\ NoThirdValue
  OBVIOUS
<1>2. TopicTypeOK
  <2>1. /\ form.mode \in {"edit", "new", "left"} /\ form.pending \in BOOLEAN
        /\ form.fields \in [Fixed -> TopicValues \cup {""}]
        /\ form.rows \in Seq([name : Names \cup {""}, value : TopicValues \cup {""}])
    BY <1>1 DEF TopicInv, FormOK, TopicForms, Inputs, ParamRows
  <2>2. DOMAIN topic \subseteq Names /\ Range(topic) \subseteq TopicValues
    BY <1>1 DEF TopicInv, IsOverrides, Range
  <2>3. /\ job.phase \in {"none", "sent", "applying", "created", "done"}
        /\ form.pending <=> job.phase \in {"sent", "applying", "created"}
    BY <1>1 DEF TopicInv, JobOK, Busy
  <2>. QED BY <1>1, <2>1, <2>2, <2>3 DEF TopicInv, TopicTypeOK
<1>3. TakenIsUsed BY <1>1 DEF TopicInv, FormOK, TakenIsUsed
<1>4. NoThirdValue
  <2>1. \A n : AskedOf(job.desired, n) = Asked(n) BY DEF AskedOf, Asked
  <2>. QED BY <1>1, <2>1 DEF TopicInv, ApplyingOK, NoThirdValue
<1>. QED BY <1>2, <1>3, <1>4

\* An update that succeeds has made every step.
LEMMA UpdateDone ==
  ASSUME TopicInv, Succeed, job.shown.mode = "edit"
  PROVE  /\ job.phase \in Busy
         /\ \A n \in Names \ foreign : Effective(topic, n) = AskedOf(job.desired, n)
<1>1. job.phase = "applying" /\ job.ops = <<>>
  <2>1. job.phase # "created" BY DEF TopicInv, JobOK
  <2>. QED BY <2>1 DEF Succeed
<1>2. \A n \in Names \ foreign :
         \/ Effective(topic, n) = AskedOf(job.desired, n)
         \/ \E i \in DOMAIN job.ops : job.ops[i].name = n
  BY <1>1 DEF TopicInv, ApplyingOK
<1>3. DOMAIN job.ops = {} BY <1>1
<1>. QED BY <1>1, <1>2, <1>3 DEF Busy

\* An update that succeeds leaves the topic as the form was sent.
LEMMA UpdateShows ==
  ASSUME TopicInv, Succeed, job.shown.mode = "edit"
  PROVE  \A n \in Names \ foreign : \A v \in Shown(n) :
            Effective(topic, n) = IF v = "" THEN "broker" ELSE v
<1>. DEFINE f == job.shown
            d == job.desired
<1>1. Sendable(f) /\ d = formatTopicUpdate(f) BY UpdateDone, JobFacts
<1>2. /\ DOMAIN d = Fixed \cup RowNames(f.rows)
      /\ \A n \in Fixed : d[n] = f.fields[n]
      /\ \A i \in DOMAIN f.rows : f.rows[i].name \notin Fixed =>
            d[f.rows[i].name] = f.rows[i].value
  BY <1>1, UpdateFacts
<1>3. SUFFICES ASSUME NEW n \in Names \ foreign, NEW v \in Shown(n)
               PROVE  Effective(topic, n) = IF v = "" THEN "broker" ELSE v
  OBVIOUS
<1>4. Effective(topic, n) = AskedOf(d, n) BY UpdateDone
<1>. DEFINE named == {i \in DOMAIN f.rows : f.rows[i].name = n}
<1>5. v \in IF n \in Fixed THEN {f.fields[n]}
            ELSE IF named = {} THEN {""}
            ELSE {f.rows[i].value : i \in named}
  BY DEF Shown
<1>. HIDE DEF f, d
<1>6. CASE n \in Fixed BY <1>2, <1>4, <1>5, <1>6 DEF AskedOf
<1>7. CASE n \notin Fixed /\ named = {}
  <2>1. v = "" BY <1>5, <1>7
  <2>2. n \notin RowNames(f.rows) BY <1>7 DEF RowNames
  <2>. QED BY <2>1, <2>2, <1>2, <1>4, <1>7 DEF AskedOf
<1>8. CASE n \notin Fixed /\ named # {}
  <2>1. PICK i \in DOMAIN f.rows : f.rows[i].name = n /\ v = f.rows[i].value
    BY <1>5, <1>8
  <2>2. n \in DOMAIN d /\ d[n] = v BY <2>1, <1>2, <1>8 DEF RowNames
  <2>. QED BY <2>2, <1>4 DEF AskedOf
<1>. QED BY <1>6, <1>7, <1>8

\* It keeps every setting that nobody touched and the form can hold.
LEMMA UpdateKeeps ==
  ASSUME TopicInv, Succeed, job.shown.mode = "edit"
  PROVE  \A n \in Names \ (touched \cup foreign) :
            Holds(n) => Effective(topic, n) = Effective(loaded, n)
<1>. DEFINE f == job.shown
            d == job.desired
<1>1. Sendable(f) /\ d = formatTopicUpdate(f) BY UpdateDone, JobFacts
<1>2. /\ DOMAIN d = Fixed \cup RowNames(f.rows)
      /\ \A n \in Fixed : d[n] = f.fields[n]
      /\ \A i \in DOMAIN f.rows : f.rows[i].name \notin Fixed =>
            d[f.rows[i].name] = f.rows[i].value
  BY <1>1, UpdateFacts
<1>3. KeepsLoaded(f) BY UpdateDone DEF TopicInv, JobOK
<1>4. SUFFICES ASSUME NEW n \in Names, n \notin touched, n \notin foreign, Holds(n)
               PROVE  Effective(topic, n) = Effective(loaded, n)
  OBVIOUS
<1>5. Effective(topic, n) = AskedOf(d, n) BY <1>4, UpdateDone
<1>6. /\ n \in Fixed => f.fields[n] = getValue(loaded, n)
      /\ \A i \in DOMAIN f.rows : f.rows[i].name = n => f.rows[i].value = Effective(loaded, n)
      /\ n \in Listed /\ Effective(loaded, n) # "broker" => n \in RowNames(f.rows)
  BY <1>3, <1>4 DEF KeepsLoaded
<1>7. /\ Effective(loaded, n) # "" /\ getValue(loaded, n) # ""
      /\ Effective(loaded, n) # "odd" => getValue(loaded, n) = Effective(loaded, n)
  <2>1. IsOverrides(loaded) BY DEF TopicInv
  <2>. QED BY <2>1, EffectiveFacts
<1>. HIDE DEF f, d
<1>8. CASE n \in Fixed
  <2>1. Effective(loaded, n) # "odd" BY <1>4, <1>8 DEF Holds
  <2>. QED BY <2>1, <1>2, <1>5, <1>6, <1>7, <1>8 DEF AskedOf
<1>9. CASE n \notin Fixed
  <2>1. n \in Listed BY <1>4, <1>9, ValueFacts DEF Holds
  <2>2. CASE n \in RowNames(f.rows)
    <3>1. PICK i \in DOMAIN f.rows : f.rows[i].name = n BY <2>2 DEF RowNames
    <3>2. n \in DOMAIN d /\ d[n] = Effective(loaded, n) BY <3>1, <2>2, <1>2, <1>6, <1>9
    <3>. QED BY <3>2, <1>5, <1>7 DEF AskedOf
  <2>3. CASE n \notin RowNames(f.rows)
    <3>1. Effective(loaded, n) = "broker" BY <2>1, <2>3, <1>6
    <3>2. n \notin DOMAIN d BY <2>3, <1>2, <1>9
    <3>. QED BY <3>1, <3>2, <1>5 DEF AskedOf
  <2>. QED BY <2>2, <2>3
<1>. QED BY <1>8, <1>9

\* A topic is created with what was typed.
LEMMA CreationShows ==
  ASSUME TopicInv, Succeed, job.shown.mode = "new"
  PROVE  /\ \A i \in DOMAIN job.shown.rows :
               Effective(topic, job.shown.rows[i].name) = job.shown.rows[i].value
         /\ \A n \in Fixed \ (RowNames(job.shown.rows) \cup {"retention.bytes"}) :
               Effective(topic, n) =
                   IF job.shown.fields[n] = "" THEN "broker" ELSE job.shown.fields[n]
<1>1. job.phase = "created"
  <2>1. job.phase # "applying" BY DEF TopicInv, JobOK
  <2>. QED BY <2>1 DEF Succeed
<1>2. job.phase \in Busy /\ topic = job.desired BY <1>1 DEF TopicInv, JobOK, Busy
<1>3. Sendable(job.shown) /\ topic = formatTopicCreation(job.shown)
  BY <1>2, JobFacts
<1>. QED BY <1>3, CreationFacts

\* Saving the form makes the topic what the form showed: an update leaves every
\* setting as it was shown and keeps those not touched, a creation has what
\* was typed, and an update that breaks off leaves every setting with its
\* value before or after, for any settings, rows and faults and whatever
\* others change meanwhile (Topics/New, Topics/Topic/Edit, topic.go).
THEOREM TopicIsAsShown == Spec => TopicAsShown
<1>1. Init => TopicInv
  BY TopicStarts DEF Init
<1>2. [Next]_workbenchVars => [TopicNext]_topicVars
  BY DEF Next, workbenchVars, OnKsql, OnTopic, OnFilters, OnProduce,
         OnUpdates, OnShell, topicVars
<1>3. TopicInv /\ [Next]_workbenchVars => TopicInv'
  BY <1>2, TopicStep
<1>4. TopicInv =>
        [Succeed /\ job.shown.mode = "edit" =>
            \A n \in Names \ foreign :
                \A v \in Shown(n) :
                    Effective(topic, n) = IF v = "" THEN "broker" ELSE v]_topicVars
  BY UpdateShows
<1>5. TopicInv =>
        [Succeed /\ job.shown.mode = "edit" =>
            \A n \in Names \ (touched \cup foreign) :
                Holds(n) => Effective(topic, n) = Effective(loaded, n)]_topicVars
  BY UpdateKeeps
<1>6. TopicInv =>
        [Succeed /\ job.shown.mode = "new" =>
            /\ \A i \in DOMAIN job.shown.rows :
                  Effective(topic, job.shown.rows[i].name) = job.shown.rows[i].value
            /\ \A n \in Fixed \ (RowNames(job.shown.rows) \cup {"retention.bytes"}) :
                  Effective(topic, n) =
                      IF job.shown.fields[n] = "" THEN "broker"
                      ELSE job.shown.fields[n]]_topicVars
  BY CreationShows
<1> QED
  BY <1>1, <1>3, <1>4, <1>5, <1>6, TopicInvShows, PTL
     DEF Spec, TopicAsShown, UpdateAsShown, OthersUntouched, CreatedAsTyped
=============================================================================
