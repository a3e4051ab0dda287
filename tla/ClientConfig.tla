---------------------------- MODULE ClientConfig ---------------------------
(***************************************************************************)
(* Automatic configuration of an MCP client (mcpclient): the server entry  *)
(* is added to a staged copy of the client's configuration file, which is  *)
(* then published by one atomic exchange under a journal.  The file is not *)
(* ours: the client and its user edit it whenever they like, and the       *)
(* process may die between any two steps.  Status and Configure of one     *)
(* client are serialised by a lock, so one transaction runs at a time.     *)
(***************************************************************************)
EXTENDS Naturals, FiniteSets

CONSTANTS
    MaxEdits,    \* edits by the client or its user
    MaxCrashes   \* process crashes

ASSUME ClientConfigAssumption == MaxEdits \in Nat /\ MaxCrashes \in Nat

VARIABLES
    target,     \* the client's configuration file
    backup,     \* the .backup slot of the transaction
    candidate,  \* its .candidate slot, which the exchange turns into the
                \* displaced baseline
    journal,    \* None, Partial, or the digests of baseline and staged file
    pc,         \* where the transaction is
    op,         \* what was asked for
    base,       \* fileSnapshot: the target as captured
    outcome,    \* what the last call reported
    edits,      \* edits made so far: 1 .. edits
    inodes,     \* inodes allocated so far
    crashes,
    excuse      \* history: the transaction met an edit or a partial cleanup

configureVars ==
    <<target, backup, candidate, journal, pc, op, base, outcome, edits, inodes,
      crashes, excuse>>

\* A file is told apart by its inode, and by its content: the edits it includes
\* and whether it has the server entry.
File == [exists : BOOLEAN, inode : Nat, edits : SUBSET (1..MaxEdits),
         server : BOOLEAN]
Absent == [exists |-> FALSE, inode |-> 0, edits |-> {}, server |-> FALSE]

\* FileDigest: content only, the same for every file that does not exist.
Digest(f) == [exists |-> f.exists, edits |-> IF f.exists THEN f.edits ELSE {},
              server |-> f.server]

NoJournal == [kind |-> "none"]
Partial == [kind |-> "partial"]
Journal(b, s) == [kind |-> "whole", baseline |-> b, staged |-> s]

\* What the staged copy contains once the client's CLI has added the server.
Staged == [exists |-> TRUE, edits |-> base.edits, server |-> TRUE]

ConfigureInit ==
    /\ \E x, s \in BOOLEAN :
         target = [exists |-> x, inode |-> 0, edits |-> {}, server |-> x /\ s]
    /\ backup = Absent /\ candidate = Absent
    /\ journal = NoJournal
    /\ pc = "idle" /\ op = "status" /\ base = Absent /\ outcome = "none"
    /\ edits = 0 /\ inodes = 0 /\ crashes = 0 /\ excuse = FALSE

fileVars == <<target, backup, candidate, journal, inodes>>
envVars == <<edits, crashes, excuse>>

\* The call returns o.  Slots that no journal names are left behind under names
\* nobody knows any more, so they play no further part.
Return(o, bak, cand, jnl) ==
    /\ pc' = "idle" /\ outcome' = o /\ base' = Absent /\ op' = "status"
    /\ journal' = jnl
    /\ backup' = IF jnl = NoJournal THEN Absent ELSE bak
    /\ candidate' = IF jnl = NoJournal THEN Absent ELSE cand

----------------------------------------------------------------------------
(* CaptureTarget *)

Begin(o) ==
    /\ pc = "idle"
    /\ pc' = "resolve" /\ op' = o /\ outcome' = "none"
    /\ UNCHANGED <<fileVars, base, envVars>>

\* classifyPendingJournal.
Classify ==
    LET t == Digest(target)
        c == Digest(candidate)
        b == journal.baseline
        s == journal.staged
    IN  IF b.exists /\ Digest(backup) # b THEN "unknown"
        ELSE IF t = s /\ c = b THEN "committed"
        ELSE IF t = b /\ c = s THEN "uncommitted"
        ELSE "unknown"

\* resolvePending: no journal, a journal that says where the transaction
\* stopped, or one that does not, which only a person can resolve.
ResolveNone ==
    /\ pc = "resolve" /\ journal = NoJournal
    /\ pc' = "capture"
    /\ UNCHANGED <<fileVars, op, base, outcome, envVars>>

ResolveKnown ==
    /\ pc = "resolve" /\ journal.kind = "whole" /\ Classify # "unknown"
    /\ pc' = "clean_candidate"
    /\ UNCHANGED <<fileVars, op, base, outcome, envVars>>

ResolveUnknown ==
    /\ pc = "resolve"
    /\ \/ journal.kind = "partial"
       \/ journal.kind = "whole" /\ Classify = "unknown"
    /\ Return("repair", backup, candidate, journal)
    /\ UNCHANGED <<target, inodes, envVars>>

\* The journal or a file it names cannot be read, or the caller has gone away:
\* this call asks for a repair as well, but knows nothing.
ResolveFails ==
    /\ pc = "resolve" /\ journal # NoJournal
    /\ Return("unread", backup, candidate, journal)
    /\ UNCHANGED <<target, inodes, envVars>>

\* cleanupPendingJournal, one removal after the other.
CleanCandidate ==
    /\ pc = "clean_candidate"
    /\ candidate' = Absent /\ pc' = "clean_backup"
    /\ UNCHANGED <<target, backup, journal, inodes, op, base, outcome, envVars>>

CleanBackup ==
    /\ pc = "clean_backup"
    /\ backup' = Absent /\ pc' = "clean_journal"
    /\ UNCHANGED <<target, candidate, journal, inodes, op, base, outcome, envVars>>

CleanJournal ==
    /\ pc = "clean_journal"
    /\ journal' = NoJournal /\ pc' = "capture"
    /\ UNCHANGED <<target, backup, candidate, inodes, op, base, outcome, envVars>>

\* A removal fails.
CleanFails ==
    /\ pc \in {"clean_candidate", "clean_backup", "clean_journal"}
    /\ Return("repair", backup, candidate, journal)
    /\ excuse' = TRUE
    /\ UNCHANGED <<target, inodes, edits, crashes>>

\* The target is copied to the backup slot, digested, and its inode noted.
Capture ==
    /\ pc = "capture"
    /\ base' = target
    /\ IF target.exists
         THEN /\ inodes' = inodes + 1
              /\ backup' = [target EXCEPT !.inode = inodes + 1]
         ELSE UNCHANGED <<backup, inodes>>
    /\ excuse' = FALSE
    /\ pc' = "inspect"
    /\ UNCHANGED <<target, candidate, journal, op, outcome, edits, crashes>>

\* The target cannot be copied (not a regular file, unreadable, too large, or
\* replaced meanwhile): the backup slot is removed again.
CaptureFails ==
    /\ pc = "capture"
    /\ Return("error", backup, candidate, journal)
    /\ UNCHANGED <<target, inodes, envVars>>

----------------------------------------------------------------------------
(* Status and Configure *)

\* CheckBaseline: same content, and the same inode if there was a file.
BaselineHolds ==
    /\ Digest(target) = Digest(base)
    /\ base.exists => target.inode = base.inode

\* The staged copy has been inspected.  Status, an entry that is already right,
\* one that must not be replaced, and a file system without the atomic exchange
\* end here.
Settled ==
    /\ pc = "inspect" /\ op \in {"status", "configure"}
    /\ outcome' = "seen" /\ pc' = "delete_backup"
    /\ UNCHANGED <<fileVars, op, base, envVars>>

\* The target was touched, cannot be read, or the caller has gone away: whatever
\* has been written so far is kept, the journal included.
Retain ==
    /\ pc \in {"inspect", "edit", "check", "validate"}
    /\ Return("conflict", backup, candidate, journal)
    /\ UNCHANGED <<target, inodes, envVars>>

\* Configure goes on to add the entry, if nobody has touched the target.
Proceed ==
    /\ pc = "inspect" /\ op = "configure"
    /\ BaselineHolds
    /\ pc' = "edit"
    /\ UNCHANGED <<fileVars, op, base, outcome, envVars>>

\* Capturing, staging, inspecting, removing, adding or verifying fails:
\* discardStaged cleans up if nobody has touched the target.
Discard ==
    /\ pc \in {"inspect", "edit"}
    /\ BaselineHolds
    /\ pc' = "delete_backup" /\ outcome' = "error"
    /\ UNCHANGED <<fileVars, op, base, envVars>>

----------------------------------------------------------------------------
(* Publish *)

\* The CLI has edited the staged copy, which is copied to the candidate slot.
WriteCandidate ==
    /\ pc = "edit"
    /\ candidate' = [exists |-> TRUE, inode |-> inodes + 1,
                     edits |-> Staged.edits, server |-> Staged.server]
    /\ inodes' = inodes + 1
    /\ pc' = "journal"
    /\ UNCHANGED <<target, backup, journal, op, base, outcome, envVars>>

\* writeJournal creates the file (O_EXCL) and then fills and syncs it.
CreateJournal ==
    /\ pc = "journal"
    /\ journal' = Partial
    /\ pc' = "journal_write"
    /\ UNCHANGED <<target, backup, candidate, inodes, op, base, outcome, envVars>>

\* Fault: baseline and staged digest are mixed up.
BugDigestsSwapped ==
    /\ pc = "journal_write"
    /\ journal' = Journal(Staged, Digest(base))
    /\ pc' = "check"
    /\ UNCHANGED <<target, backup, candidate, inodes, op, base, outcome, envVars>>

WriteJournal ==
    /\ pc = "journal_write"
    /\ journal' = Journal(Digest(base), Staged)
    /\ pc' = "check"
    /\ UNCHANGED <<target, backup, candidate, inodes, op, base, outcome, envVars>>

\* Copying or syncing fails: nothing has been published; a journal that was
\* created is removed again, if that does not fail as well.
PublishFails ==
    /\ pc \in {"edit", "journal", "journal_write"}
    /\ \E j \in {NoJournal, journal} \cup
                IF pc = "journal_write" THEN {Journal(Digest(base), Staged)} ELSE {} :
         /\ Return("error", backup, candidate, j)
         /\ excuse' = (excuse \/ j # NoJournal)
    /\ UNCHANGED <<target, inodes, edits, crashes>>

\* CheckBaseline once more, now that the journal is there.
CheckBaseline ==
    /\ pc = "check"
    /\ BaselineHolds
    /\ pc' = "exchange"
    /\ UNCHANGED <<fileVars, op, base, outcome, envVars>>

\* Fault: a plain rename, which overwrites.
BugRenameOver ==
    /\ pc = "exchange"
    /\ target' = candidate /\ candidate' = Absent
    /\ pc' = "validate"
    /\ UNCHANGED <<backup, journal, inodes, op, base, outcome, envVars>>

\* publishAtomic (a file that came and went meanwhile leaves nothing behind to
\* lose): RENAME_EXCHANGE with an existing target, RENAME_NOREPLACE
\* otherwise.  Either may also fail.
Exchange ==
    /\ pc = "exchange"
    /\ \/ /\ base.exists /\ target.exists
          /\ target' = candidate /\ candidate' = target
          /\ pc' = "validate"
          /\ UNCHANGED <<backup, journal, op, base, outcome>>
       \/ /\ ~base.exists /\ ~target.exists
          /\ target' = [candidate EXCEPT !.edits = @ \cup target.edits]
          /\ candidate' = Absent
          /\ pc' = "validate"
          /\ UNCHANGED <<backup, journal, op, base, outcome>>
       \/ /\ Return("error", backup, candidate, journal)
          /\ UNCHANGED target
    /\ UNCHANGED <<inodes, envVars>>

\* Fault: only the published file is looked at.
BugDisplacedUnchecked == Digest(target) = Staged

\* What validatePublished accepts: the target is what was staged, and what the
\* exchange displaced is what was captured.
PublishedAsPlanned ==
    /\ Digest(target) = Staged
    /\ base.exists =>
         Digest(candidate) = Digest(base) /\ candidate.inode = base.inode

Validate ==
    /\ pc = "validate"
    /\ PublishedAsPlanned
    /\ pc' = "delete_backup" /\ outcome' = "configured"
    /\ UNCHANGED <<fileVars, op, base, envVars>>

----------------------------------------------------------------------------
(* Delete: the slots, then the journal.  A removal that fails does not stop the
   others. *)

Removed(f) == {f, Absent}

DeleteBackup ==
    /\ pc = "delete_backup"
    /\ backup' \in Removed(backup)
    /\ outcome' = IF backup' = backup /\ backup.exists THEN "error" ELSE outcome
    /\ pc' = "delete_candidate"
    /\ UNCHANGED <<target, candidate, journal, inodes, op, base, envVars>>

DeleteCandidate ==
    /\ pc = "delete_candidate"
    /\ candidate' \in Removed(candidate)
    /\ outcome' = IF candidate' = candidate /\ candidate.exists
                    THEN "error" ELSE outcome
    /\ pc' = "delete_journal"
    /\ UNCHANGED <<target, backup, journal, inodes, op, base, envVars>>

DeleteJournal ==
    /\ pc = "delete_journal"
    /\ \/ Return(outcome, backup, candidate, NoJournal) /\ UNCHANGED excuse
       \/ /\ journal # NoJournal /\ Return("error", backup, candidate, journal)
          /\ excuse' = TRUE
    /\ UNCHANGED <<target, inodes, edits, crashes>>

----------------------------------------------------------------------------
(* Environment *)

\* The client or its user saves the configuration, in place or as a new file,
\* with or without the server entry, or deletes it.
Edit ==
    /\ edits < MaxEdits
    /\ edits' = edits + 1
    /\ \E x, s, inPlace \in BOOLEAN :
         /\ s => x
         /\ inPlace => x /\ target.exists
         /\ target' = [exists |-> x,
                       inode |-> IF inPlace THEN target.inode ELSE inodes + 1,
                       edits |-> target.edits \cup {edits + 1},
                       server |-> s]
         /\ inodes' = IF inPlace THEN inodes ELSE inodes + 1
    /\ excuse' = (excuse \/ pc # "idle" \/ journal # NoJournal)
    /\ UNCHANGED <<backup, candidate, journal, pc, op, base, outcome, crashes>>

\* The process dies and is started again; the files stay as they are.
Kill ==
    /\ pc # "idle" /\ crashes < MaxCrashes
    /\ crashes' = crashes + 1
    /\ Return("none", backup, candidate, journal)
    /\ excuse' = (excuse \/ pc \in {"journal_write", "clean_backup",
                     "clean_journal", "delete_candidate", "delete_journal"})
    /\ UNCHANGED <<target, inodes, edits>>

ConfigureNext ==
    \/ \E o \in {"status", "configure"} : Begin(o)
    \/ ResolveNone \/ ResolveKnown \/ ResolveUnknown \/ ResolveFails
    \/ CleanCandidate \/ CleanBackup \/ CleanJournal \/ CleanFails
    \/ Capture \/ CaptureFails \/ Settled \/ Proceed \/ Discard \/ Retain
    \/ WriteCandidate \/ CreateJournal \/ WriteJournal \/ PublishFails
    \/ CheckBaseline \/ Exchange \/ Validate
    \/ DeleteBackup \/ DeleteCandidate \/ DeleteJournal
    \/ Edit \/ Kill

ConfigureSpec == ConfigureInit /\ [][ConfigureNext]_configureVars

----------------------------------------------------------------------------
(* Properties *)

\* Every variable holds what the file system and the code allow.
ConfigureTypeOK ==
    /\ {target, backup, candidate, base} \subseteq File
    /\ journal.kind \in {"none", "partial", "whole"}
    /\ journal.kind = "whole" => journal.staged.exists
    /\ pc \in {"idle", "resolve", "clean_candidate", "clean_backup",
               "clean_journal", "capture", "inspect", "edit", "journal",
               "journal_write", "check", "exchange", "validate",
               "delete_backup", "delete_candidate", "delete_journal"}
    /\ op \in {"status", "configure"}
    /\ outcome \in {"none", "repair", "unread", "seen", "conflict", "error",
                   "configured"}
    /\ excuse \in BOOLEAN
    /\ edits \in 0..MaxEdits /\ crashes \in 0..MaxCrashes /\ inodes \in Nat

\* No edit is ever lost, and none is lost track of: each one is in the target,
\* or in the displaced file of a journal that is still there, so that the next
\* call reports that a repair is needed.  This holds through every race of the
\* client's own saves with the transaction, and every crash and recovery
\* (Publish, resolvePending, Delete).
NoLostEdit ==
    \A e \in 1..edits :
        \/ e \in target.edits
        \/ e \in candidate.edits /\ candidate.exists /\ journal # NoJournal

\* Success means what it says: when Configure reports that the client is
\* configured, nothing of the transaction is left and the target has every edit
\* made so far (Publish).
SuccessIsClean ==
    [][pc # "idle" /\ pc' = "idle" /\ outcome' = "configured" =>
         /\ target'.edits = 1..edits'
         /\ ~backup'.exists /\ ~candidate'.exists /\ journal' = NoJournal]_configureVars

\* A transaction that was cut short resolves itself: the next call asks for a
\* repair only if somebody else changed the file during the transaction, or if
\* the transaction was cut while it wrote its journal or removed its slots
\* (classifyPendingJournal).
RepairOnlyIfNeeded == outcome = "repair" => excuse

\* No edit of the user is lost, help is asked for only where no automatic
\* recovery is safe, and success leaves nothing behind: the parts above
\* together (internal/infra/mcpclient).
EditsSafe == [](ConfigureTypeOK /\ NoLostEdit /\ RepairOnlyIfNeeded) /\ SuccessIsClean
=============================================================================
