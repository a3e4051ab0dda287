------------------------------- MODULE Updater -------------------------------
(***************************************************************************)
(* The desktop updater: the update section of the settings dialog, the     *)
(* worker thread of the shell with its one-place action queue, the cached  *)
(* package with its opt-in for the next launch on disk, and the two ways   *)
(* an installation happens: at the next launch, before the sidecar starts, *)
(* or at once, after the supervisor has stopped it.  The process may be    *)
(* killed between any two steps.  A release is its version; progress,      *)
(* release notes and messages are left out.                                *)
(***************************************************************************)
EXTENDS Integers, Sequences

CONSTANTS
    LastVersion,    \* the newest release there will be
    MaxClicks,      \* clicks of the user, window closing included
    MaxChecks,      \* periodic checks
    UpdateFaults    \* kills, broken packages, failing writes

ASSUME UpdaterBounds ==
    /\ LastVersion \in Nat \ {0}
    /\ {MaxClicks, MaxChecks, UpdateFaults} \subseteq Nat

VARIABLES
    host,           \* the process: life, phase, gate, queue, worker
    cache,          \* on disk: installed version, ready package, schedule
    section,        \* the update section: open, status shown, confirmingVersion
    wire,           \* status events on their way to the page
    offered,        \* the newest published release
    consent,        \* ghost: versions asked for, times asked, times tried
    updateSpent     \* bounded counters

updateVars ==
    <<host, cache, section, wire, offered, consent, updateSpent>>

NoVersion == 0
Broken == -1                      \* a package whose signature does not verify
Versions == 1..LastVersion
Bill(counter, bound) ==
    /\ updateSpent[counter] < bound
    /\ updateSpent' = [updateSpent EXCEPT ![counter] = @ + 1]
Click == Bill("clicks", MaxClicks)
\* A step that may fail: with failed the failure is paid for.
MayFail(failed) ==
    IF failed THEN Bill("faults", UpdateFaults) ELSE UNCHANGED updateSpent

---------------------------------------------------------------------------
\* The cache.
clear_files(c) == [c EXCEPT !.ready = NoVersion, !.schedule = NoVersion]
\* What load leaves on disk: a broken or outdated package is removed, and so
\* is a schedule that names another package.
BugLoad(c) == IF c.ready = Broken THEN clear_files(c) ELSE c
load(c) ==
    IF c.ready = Broken \/ c.ready \in 1..c.installed THEN clear_files(c)
    ELSE IF c.ready # NoVersion /\ c.schedule # c.ready
         THEN [c EXCEPT !.schedule = NoVersion]
    ELSE c
is_scheduled(c) == c.ready # NoVersion /\ c.schedule = c.ready
unscheduled(c) == [c EXCEPT !.schedule = NoVersion]

---------------------------------------------------------------------------
\* The worker.  doing is the action in hand, then how far it has come; held
\* is the release that action works on.
Snapshot(h) ==
    [phase |-> h.phase, version |-> h.version, scheduled |-> h.scheduled]
Phases == {"idle", "checking", "downloading", "ready", "up_to_date", "error",
           "installing"}
busy == {"checking", "downloading", "installing"}
CanCheck == {"idle", "up_to_date", "error"}

NewHost(life) ==
    [life |-> life, phase |-> "idle", version |-> NoVersion,
     scheduled |-> FALSE, queue |-> "none", doing |-> "none", held |-> NoVersion,
     prepared |-> NoVersion]
NoSection == [open |-> FALSE, status |-> <<>>, confirming |-> NoVersion]

\* change: the new snapshot is published and sent to the page.
change(h) ==
    /\ host' = h
    /\ wire' = IF h.life = "up" THEN Append(wire, Snapshot(h)) ELSE wire
BugError(h) == [h EXCEPT !.doing = "none", !.held = NoVersion]
error(h) == [h EXCEPT !.phase = "error", !.doing = "none", !.held = NoVersion]

Running == host.life \in {"up", "stopping"}
Rest == [host EXCEPT !.doing = "none", !.held = NoVersion]

\* recv_timeout: an action from the queue, or the periodic check.
recv ==
    /\ Running /\ host.doing = "none" /\ host.queue # "none"
    /\ host' = [host EXCEPT !.doing = host.queue, !.queue = "none"]
    /\ UNCHANGED <<cache, section, wire, offered, consent, updateSpent>>
Timeout ==
    /\ Running /\ host.doing = "none" /\ host.queue = "none"
    /\ Bill("checks", MaxChecks)
    /\ host' = [host EXCEPT !.doing = "check"]
    /\ UNCHANGED <<cache, section, wire, offered, consent>>

begin_check ==
    /\ Running /\ host.doing = "check"
    /\ IF host.phase \in CanCheck
       THEN change([host EXCEPT !.phase = "checking", !.doing = "asking"])
       ELSE host' = Rest /\ UNCHANGED wire
    /\ UNCHANGED <<cache, section, offered, consent, updateSpent>>

\* The release server answers the check, or does not.
check ==
    /\ Running /\ host.doing = "asking"
    /\ \/ change(error(host))
       \/ /\ offered <= cache.installed
          /\ change([Rest EXCEPT !.phase = "up_to_date", !.version = NoVersion])
       \/ /\ offered > cache.installed
          /\ change([host EXCEPT !.phase = "downloading", !.version = offered,
                                 !.doing = "loading", !.held = offered])
    /\ UNCHANGED <<cache, section, offered, consent, updateSpent>>

\* A package that is cached already is not downloaded again; otherwise save
\* first removes the schedule.
download ==
    /\ Running /\ host.doing = "loading"
    /\ LET c == load(cache) IN
       \/ /\ c.ready = host.held
          /\ change([Rest EXCEPT !.phase = "ready"])
          /\ cache' = c
       \/ /\ c.ready # host.held
          /\ change(error(host))
          /\ cache' = c
       \/ /\ c.ready # host.held
          /\ host' = [host EXCEPT !.doing = "saving"]
          /\ cache' = unscheduled(c)
          /\ UNCHANGED wire
    /\ UNCHANGED <<section, offered, consent, updateSpent>>
atomic_write ==
    /\ Running /\ host.doing = "saving"
    /\ \E failed \in BOOLEAN :
          /\ MayFail(failed)
          /\ IF failed THEN change(error(host)) /\ UNCHANGED cache
             ELSE /\ change([Rest EXCEPT !.phase = "ready"])
                  /\ cache' = [cache EXCEPT !.ready = host.held]
    /\ UNCHANGED <<section, offered, consent>>

\* The opt-in for the next launch, and its withdrawal.
BugScheduledAfter(value, failed) == value
ScheduledAfter(value, failed) == IF failed THEN host.scheduled ELSE value
schedule(value) ==
    /\ Running /\ host.doing = (IF value THEN "schedule" ELSE "cancel")
    /\ IF host.phase = "installing" \/ (value /\ host.phase # "ready")
       THEN host' = Rest /\ UNCHANGED <<wire, cache, updateSpent>>
       ELSE \E broken \in BOOLEAN :
            LET failed == broken \/ (value /\ cache.ready \in {NoVersion, Broken})
            IN /\ MayFail(broken)
               /\ change([Rest EXCEPT !.scheduled = ScheduledAfter(value, failed)])
               /\ cache' = IF failed
                           THEN IF value /\ cache.ready = Broken
                                THEN clear_files(cache) ELSE cache
                           ELSE IF value
                                THEN [cache EXCEPT !.schedule = cache.ready]
                                ELSE unscheduled(cache)
    /\ UNCHANGED <<section, offered, consent>>

\* An installation at once: checked, prepared, and left to the supervisor.
install ==
    /\ Running /\ host.doing = "install"
    /\ IF host.phase = "ready"
       THEN change([host EXCEPT !.phase = "installing", !.doing = "preparing"])
       ELSE host' = Rest /\ UNCHANGED wire
    /\ UNCHANGED <<cache, section, offered, consent, updateSpent>>
prepare_install ==
    /\ Running /\ host.doing = "preparing"
    /\ \/ change(error(host)) /\ UNCHANGED cache                \* processes_busy
       \/ LET c == load(cache) IN
          /\ cache' = c
          /\ IF c.ready = NoVersion THEN change(error(host))
             ELSE /\ host' = [host EXCEPT !.doing = "verifying", !.held = c.ready]
                  /\ UNCHANGED wire
    /\ UNCHANGED <<section, offered, consent, updateSpent>>
same_release(v) == v > cache.installed /\ offered = v
Verified ==
    /\ Running /\ host.doing = "verifying"
    /\ \/ change(error(host)) /\ UNCHANGED <<cache, updateSpent>>  \* no answer
       \/ /\ ~same_release(host.held)
          /\ change(error(host)) /\ UNCHANGED <<cache, updateSpent>>
       \/ /\ same_release(host.held)                       \* the opt-in stays
          /\ MayFail(TRUE) /\ change(error(host)) /\ UNCHANGED cache
       \/ /\ same_release(host.held)                       \* processes_busy
          /\ change(error(host)) /\ cache' = unscheduled(cache)
          /\ UNCHANGED updateSpent
       \/ /\ same_release(host.held)
          /\ host' = [Rest EXCEPT !.prepared = host.held, !.life = "stopping"]
          /\ cache' = unscheduled(cache)
          /\ UNCHANGED <<wire, updateSpent>>
    /\ UNCHANGED <<section, offered, consent>>

\* Once the supervisor has stopped the sidecar; after a successful
\* installation the cache is cleared.
Try(v, succeeds) ==
    /\ consent' = [consent EXCEPT !.tried = @ + 1]
    /\ cache' = IF succeeds THEN [cache EXCEPT !.installed = v] ELSE cache
Restart(life) ==
    /\ host' = NewHost(life)
    /\ section' = NoSection /\ wire' = <<>>
finish_explicit_install ==
    /\ host.life = "stopping"
    /\ \/ UNCHANGED <<cache, consent>> /\ Restart("load")  \* none, code, busy
       \/ host.prepared # NoVersion /\ Try(host.prepared, FALSE) /\ Restart("load")
       \/ host.prepared # NoVersion /\ Try(host.prepared, TRUE) /\ Restart("clear")
    /\ UNCHANGED <<offered, updateSpent>>
clear ==
    /\ host.life = "clear"
    /\ \E failed \in BOOLEAN :
          /\ MayFail(failed)
          /\ cache' = IF failed THEN cache ELSE clear_files(cache)
    /\ Restart("load")
    /\ UNCHANGED <<offered, consent>>

---------------------------------------------------------------------------
\* A launch: the scheduled installation, then the worker's own start.
Live(life) == host' = [host EXCEPT !.life = life]
BugDue(c) == c.ready # NoVersion
Due(c) == is_scheduled(c)
begin_session ==
    /\ host.life = "load"
    /\ LET c == load(cache) IN
       /\ cache' = c
       /\ \/ Due(c) /\ host' = [host EXCEPT !.life = "ask", !.held = c.ready]
          \/ Live("restore")                 \* not scheduled, or busy
    /\ UNCHANGED <<section, wire, offered, consent, updateSpent>>
BugConsumed(c) == c
Consumed(c) == unscheduled(c)
try_scheduled_install ==
    /\ host.life = "ask"
    /\ \/ /\ host' = [host EXCEPT !.life = "restore", !.held = NoVersion]
          /\ UNCHANGED <<cache, updateSpent>>    \* no answer
       \/ /\ ~same_release(host.held)
          /\ host' = [host EXCEPT !.life = "restore", !.held = NoVersion]
          /\ \E failed \in BOOLEAN :
                /\ MayFail(failed)
                /\ cache' = IF failed THEN cache ELSE clear_files(cache)
       \/ /\ same_release(host.held)
          /\ MayFail(TRUE)
          /\ host' = [host EXCEPT !.life = "restore", !.held = NoVersion]
          /\ UNCHANGED cache
       \/ /\ same_release(host.held)
          /\ Live("install") /\ cache' = Consumed(cache)
          /\ UNCHANGED updateSpent
    /\ UNCHANGED <<section, wire, offered, consent>>
InstallAtLaunch ==
    /\ host.life = "install"
    /\ \/ /\ host' = [host EXCEPT !.life = "restore", !.held = NoVersion]
          /\ UNCHANGED <<cache, consent>>        \* busy after all
       \/ /\ Try(host.held, FALSE)
          /\ host' = [host EXCEPT !.life = "restore", !.held = NoVersion]
       \/ Try(host.held, TRUE) /\ Live("clear")
    /\ UNCHANGED <<section, wire, offered, updateSpent>>
restore ==
    /\ host.life = "restore"
    /\ LET c == load(cache) IN
       /\ cache' = c
       /\ host' = CASE cache.ready = Broken ->
                          [host EXCEPT !.life = "up", !.phase = "error"]
                    [] cache.ready # Broken /\ c.ready # NoVersion ->
                          [host EXCEPT !.life = "up", !.phase = "ready",
                                       !.version = c.ready,
                                       !.scheduled = is_scheduled(c)]
                    [] OTHER -> [host EXCEPT !.life = "up"]
    /\ UNCHANGED <<section, wire, offered, consent, updateSpent>>
---------------------------------------------------------------------------
\* The page.  Opening the dialog mounts the section, which subscribes to the
\* events and asks for the status; closing it unmounts the section.
StatusKnown == section.status # <<>>
Status == section.status[1]
ready == StatusKnown /\ Status.phase = "ready"
confirmationValid ==
    /\ section.confirming # NoVersion
    /\ ready /\ Status.version = section.confirming
BugUseDesktopUpdates == wire
useDesktopUpdates == Append(wire, Snapshot(host))     \* updates-status
OpenSettings ==
    /\ host.life = "up" /\ ~section.open /\ Click
    /\ section' = [NoSection EXCEPT !.open = TRUE]
    /\ wire' = useDesktopUpdates
    /\ UNCHANGED <<host, cache, offered, consent>>
CloseSettings ==
    /\ section.open /\ Click
    /\ section' = NoSection
    /\ UNCHANGED <<host, cache, wire, offered, consent>>

\* An event reaches the page; a confirmation of another version is dropped.
onStatus ==
    /\ wire # <<>>
    /\ wire' = Tail(wire)
    /\ LET s == Head(wire)
           valid == s.phase = "ready" /\ s.version = section.confirming
       IN section' = IF section.open
                     THEN [section EXCEPT !.status = <<s>>,
                              !.confirming = IF valid THEN @ ELSE NoVersion]
                     ELSE section
    /\ UNCHANGED <<host, cache, offered, consent, updateSpent>>

\* The shell takes an action by the published phase, if the queue has room.
Accepts(action) ==
    CASE action = "check" -> host.phase \in CanCheck
      [] action \in {"install", "schedule"} -> host.phase = "ready"
      [] action = "cancel" -> host.phase # "installing"
handle_navigation(action) ==
    /\ host.life = "up"
    /\ host' = IF Accepts(action) /\ host.queue = "none"
               THEN [host EXCEPT !.queue = action] ELSE host
    /\ UNCHANGED <<cache, wire, offered>>

CheckForUpdates ==
    /\ StatusKnown /\ ~ready /\ Status.phase \notin busy /\ Click
    /\ handle_navigation("check")
    /\ UNCHANGED <<section, consent>>
InstallAndRestart ==
    /\ ready /\ ~confirmationValid /\ Click
    /\ section' = [section EXCEPT !.confirming = Status.version]
    /\ UNCHANGED <<host, cache, wire, offered, consent>>
cancelInstall ==
    /\ confirmationValid /\ Click
    /\ section' = [section EXCEPT !.confirming = NoVersion]
    /\ UNCHANGED <<host, cache, wire, offered, consent>>
\* blind: the page did not show the present state yet when the user asked.
Consent ==
    consent' = [consent EXCEPT !.versions = @ \cup {Status.version},
                               !.times = @ + 1,
                               !.blind = @ \/ Status # Snapshot(host)]
ConfirmInstall ==
    /\ confirmationValid /\ Click
    /\ handle_navigation("install") /\ Consent
    /\ UNCHANGED section
InstallNextLaunch ==
    /\ ready /\ ~confirmationValid /\ Click
    /\ IF Status.scheduled
       THEN handle_navigation("cancel") /\ UNCHANGED consent
       ELSE handle_navigation("schedule") /\ Consent
    /\ UNCHANGED section

---------------------------------------------------------------------------
\* Around it: the window is closed, the process killed, a package damaged, a
\* release published.
StopAndExit ==
    /\ host.life = "up" /\ Click
    /\ Live("stopping")
    /\ section' = NoSection /\ wire' = <<>>
    /\ UNCHANGED <<cache, offered, consent>>
Kill ==
    /\ Bill("faults", UpdateFaults)
    /\ Restart("load")
    /\ UNCHANGED <<cache, offered, consent>>
Damage ==
    /\ cache.ready \in Versions
    /\ Bill("faults", UpdateFaults)
    /\ cache' = [cache EXCEPT !.ready = Broken]
    /\ UNCHANGED <<host, section, wire, offered, consent>>
Publish ==
    /\ offered < LastVersion
    /\ offered' = offered + 1
    /\ UNCHANGED <<host, cache, section, wire, consent, updateSpent>>

UpdateInit ==
    /\ host = NewHost("load") /\ section = NoSection /\ wire = <<>>
    /\ cache = [installed |-> 1, ready |-> NoVersion, schedule |-> NoVersion]
    /\ offered = 1
    /\ consent = [versions |-> {}, times |-> 0, tried |-> 0, blind |-> FALSE]
    /\ updateSpent = [clicks |-> 0, checks |-> 0, faults |-> 0]

Worker ==
    \/ recv \/ begin_check \/ check \/ download \/ atomic_write
    \/ schedule(TRUE) \/ schedule(FALSE)
    \/ install \/ prepare_install \/ Verified
Launch ==
    \/ finish_explicit_install \/ clear \/ begin_session
    \/ try_scheduled_install \/ InstallAtLaunch \/ restore
UpdateUser ==
    \/ OpenSettings \/ CloseSettings \/ CheckForUpdates \/ InstallAndRestart
    \/ cancelInstall \/ ConfirmInstall \/ InstallNextLaunch
UpdateProgress == Worker \/ Launch \/ onStatus
UpdateNext ==
    \/ UpdateProgress \/ UpdateUser \/ Timeout
    \/ StopAndExit \/ Kill \/ Damage \/ Publish
UpdateSpec ==
    UpdateInit /\ [][UpdateNext]_updateVars /\ WF_updateVars(UpdateProgress)

---------------------------------------------------------------------------
\* The values the updater's state may have.
UpdateTypeOK ==
    /\ host.life \in {"load", "ask", "install", "restore", "clear", "up",
                       "stopping"}
    /\ host.phase \in Phases
    /\ {host.version, host.held, host.prepared} \subseteq {NoVersion} \cup Versions
    /\ host.queue \in {"none", "check", "install", "schedule", "cancel"}
    /\ host.doing \in {"none", "check", "install", "schedule", "cancel", "asking",
                        "loading", "saving", "preparing", "verifying"}
    /\ cache.installed \in Versions
    /\ cache.ready \in {NoVersion, Broken} \cup Versions
    /\ cache.schedule \in {NoVersion} \cup Versions
    /\ host.phase = "ready" => host.version > cache.installed

\* Only a version that the user asked for, by confirming it or by scheduling
\* it, is ever installed, whatever is published, downloaded, damaged or
\* killed in between (worker.rs handle, runtime.rs try_scheduled_install).
\* Requests made on a status that had already changed are left out.
OnlyAsked ==
    cache.installed = 1 \/ cache.installed \in consent.versions \/ consent.blind

\* One request leads to at most one attempt: a failed or interrupted
\* installation is not tried again at every launch (runtime.rs:169-170 consumes
\* the opt-in before it touches the application).
AskedOnce == consent.tried <= consent.times

\* While the updater says that nothing is scheduled, the next launch installs
\* nothing: a withdrawal that failed is not shown as one that worked.
UnscheduledStays ==
    host.life = "up" /\ host.phase = "ready" /\ host.doing = "none" /\ ~host.scheduled
        => ~is_scheduled(cache)

\* A check, a download or an installation ends: the section is not left busy,
\* with all its buttons disabled, by an answer that never comes.
NeverStuck ==
    host.life = "up" /\ host.phase \in busy
        ~> host.life # "up" \/ host.phase \notin busy

\* An open section comes to show the state of the updater, even if nothing
\* has changed since the dialog was opened.
StatusArrives ==
    section.open ~> ~section.open \/ section.status = <<Snapshot(host)>>

\* Nothing is installed that was not asked for, nor more often, and what is
\* shown as withdrawn is withdrawn: the parts above together.
UpdateSafe == UpdateTypeOK /\ OnlyAsked /\ AskedOnce /\ UnscheduledStays
=============================================================================
