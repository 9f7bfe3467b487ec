----------------------------- MODULE StoredFiles -----------------------------
(***************************************************************************)
(* The files attached to one entity: rows of stored_files, the links in    *)
(* attachments, and the objects in S3.  libs/platform/src/storage          *)
(* (storage.service.ts, entity-attachments.service.ts) and the hourly      *)
(* sweep of apps/worker/src/cron/storage-cleanup.cron.ts.                  *)
(*                                                                         *)
(* No call holds a transaction over its statements: a confirmation reads   *)
(* the row and the object, writes the row, counts the attachments and      *)
(* links; a removal unlinks, marks the row and lets S3 delete.  A call     *)
(* whose pod dies takes no further step.  S3 is external: it stores what   *)
(* is PUT and deletes, or fails to.                                        *)
(***************************************************************************)
EXTENDS Naturals, FiniteSets

CONSTANTS
    Files,
    Callers, \* API calls in flight at the same time
    Quota    \* RESOURCE_RULES[...].maxPerOwner

ASSUME FilesAssumption == Quota \in Nat \ {0} /\ IsFiniteSet(Files)

VARIABLES
    fileStatus, \* "none", "pending", "completed" or "deleted"
    object,     \* what S3 holds: "absent", "good" or "bad" (size or checksum differs)
    linked,     \* rows of attachments
    old,        \* pending files created before the cutoff; their upload URL has expired
    call,       \* the memory of each call
    deletes,    \* DeleteObject commands that are not answered yet
    sweep,      \* the memory of purgeOrphanedUploads
    crossed     \* history: files with a confirmation and a deletion or sweep at once

fileVars == <<fileStatus, object, linked, old, call, deletes, sweep, crossed>>

IdleCall  == [at |-> "idle"]
IdleSweep == [at |-> "idle", files |-> {}, failed |-> {}]

\* The files some confirmation has verified and not completed yet.
InVerification == {call[k].file : k \in {k \in Callers : call[k].at = "verified"}}

Pending == {f \in Files : fileStatus[f] = "pending"}

FilesTypeOK ==
    /\ fileStatus \in [Files -> {"none", "pending", "completed", "deleted"}]
    /\ object \in [Files -> {"absent", "good", "bad"}]
    /\ old \subseteq Pending
    /\ {linked, deletes, crossed} \subseteq SUBSET Files
    /\ call \in [Callers -> {IdleCall}
          \cup [at : {"verified", "confirmed", "room", "stale", "unlinked"}, file : Files]]
    /\ sweep \in [at : {"idle", "selected", "cleared"}, files : SUBSET Files, failed : SUBSET Files]

FilesInit ==
    /\ fileStatus = [f \in Files |-> "none"]
    /\ object = [f \in Files |-> "absent"]
    /\ linked = {} /\ old = {} /\ deletes = {} /\ crossed = {}
    /\ call = [k \in Callers |-> IdleCall]
    /\ sweep = IdleSweep

-----------------------------------------------------------------------------
(* Upload                                                                  *)

Attached == {f \in linked : fileStatus[f] = "completed"}

\* Fault: one file too many.
HasRoom_OffByOne == Cardinality(Attached) <= Quota

\* assertRoom
HasRoom == Cardinality(Attached) < Quota

PresignUpload(f) ==
    /\ fileStatus[f] = "none" /\ HasRoom
    /\ fileStatus' = [fileStatus EXCEPT ![f] = "pending"]
    /\ UNCHANGED <<object, linked, old, call, deletes, sweep, crossed>>

\* The client PUTs what it declared, or something else.
Put(f, what) ==
    /\ fileStatus[f] = "pending" /\ f \notin old /\ object[f] = "absent"
    /\ object' = [object EXCEPT ![f] = what]
    /\ UNCHANGED <<fileStatus, linked, old, call, deletes, sweep, crossed>>

-----------------------------------------------------------------------------
(* confirm(): confirmUpload, assertRoom, and the link                      *)

Continue(k, at) == call' = [call EXCEPT ![k] = [at |-> at, file |-> call[k].file]]

\* A new attachment makes what the other calls have counted stale.
ContinueAttached(k, memory) ==
    call' = [j \in Callers |->
        IF j = k THEN memory
        ELSE IF call[j].at = "room" THEN [call[j] EXCEPT !.at = "stale"] ELSE call[j]]

\* The row and, if it is pending, HeadObject.  A deleted row or a missing
\* object is refused and nothing happens.
VerifyUpload(k, f) ==
    /\ call[k] = IdleCall
    /\ \/ /\ fileStatus[f] = "completed"
          /\ call' = [call EXCEPT ![k] = [at |-> "confirmed", file |-> f]]
       \/ /\ fileStatus[f] = "pending" /\ object[f] = "good"
          /\ call' = [call EXCEPT ![k] = [at |-> "verified", file |-> f]]
    /\ crossed' = crossed \cup ({f} \cap (sweep.files \cup deletes))
    /\ UNCHANGED <<fileStatus, object, linked, old, deletes, sweep>>

\* An object of another size or checksum: the row is deleted, the object stays.
RefuseMismatch(f) ==
    /\ fileStatus[f] = "pending" /\ object[f] = "bad"
    /\ fileStatus' = [fileStatus EXCEPT ![f] = "deleted"]
    /\ old' = old \ {f}
    /\ UNCHANGED <<object, linked, call, deletes, sweep, crossed>>

\* The update names the row by its id, whatever its status is by now.
CompleteUpload(k) ==
    /\ call[k].at = "verified"
    /\ fileStatus' = [fileStatus EXCEPT ![call[k].file] = "completed"]
    /\ old' = old \ {call[k].file}
    /\ IF call[k].file \in linked
       THEN ContinueAttached(k, [at |-> "confirmed", file |-> call[k].file])
       ELSE Continue(k, "confirmed")
    /\ UNCHANGED <<object, linked, deletes, sweep, crossed>>

FindsRoom(k) ==
    /\ call[k].at = "confirmed" /\ HasRoom
    /\ Continue(k, "room")
    /\ UNCHANGED <<fileStatus, object, linked, old, deletes, sweep, crossed>>

\* deleteFile: the row, then DeleteObject, which nobody waits for.
DeleteFile(f) ==
    /\ fileStatus' = [fileStatus EXCEPT ![f] = "deleted"]
    /\ deletes' = deletes \cup {f}
    /\ crossed' = crossed \cup ({f} \cap InVerification)

\* The file arrived over the line and is discarded.
FindsNoRoom(k) ==
    /\ call[k].at = "confirmed" /\ ~HasRoom
    /\ DeleteFile(call[k].file)
    /\ call' = [call EXCEPT ![k] = IdleCall]
    /\ UNCHANGED <<object, linked, old, sweep>>

Link(k) ==
    /\ call[k].at \in {"room", "stale"}
    /\ linked' = linked \cup {call[k].file}
    /\ ContinueAttached(k, IdleCall)
    /\ UNCHANGED <<fileStatus, object, old, deletes, sweep, crossed>>

\* remove(): the link goes first; deleteFile follows.
Unlink(k, f) ==
    /\ call[k] = IdleCall /\ f \in linked
    /\ linked' = linked \ {f}
    /\ call' = [call EXCEPT ![k] = [at |-> "unlinked", file |-> f]]
    /\ UNCHANGED <<fileStatus, object, old, deletes, sweep, crossed>>

DeleteUnlinked(k) ==
    /\ call[k].at = "unlinked"
    /\ DeleteFile(call[k].file)
    /\ call' = [call EXCEPT ![k] = IdleCall]
    /\ UNCHANGED <<object, linked, old, sweep>>

S3Deletes(f) ==
    /\ f \in deletes
    /\ deletes' = deletes \ {f}
    /\ object' = [object EXCEPT ![f] = "absent"]
    /\ UNCHANGED <<fileStatus, linked, old, call, sweep, crossed>>

\* DeleteObject fails, or is lost with its pod.
S3Fails(f) ==
    /\ f \in deletes
    /\ deletes' = deletes \ {f}
    /\ UNCHANGED <<fileStatus, object, linked, old, call, sweep, crossed>>

-----------------------------------------------------------------------------
(* purgeOrphanedUploads, one sweep at a time (ExclusiveJob)                *)

\* Fault: the sweep takes every upload that is not confirmed.
Orphans_AnyAge == Pending

\* Fault: the sweep does not look at the status.
Orphans_AnyStatus == {f \in Files : fileStatus[f] = "completed"} \cup (Pending \cap old)

Orphans == Pending \cap old

SelectOrphans ==
    /\ sweep = IdleSweep /\ Orphans # {}
    /\ sweep' = [at |-> "selected", files |-> Orphans, failed |-> {}]
    /\ crossed' = crossed \cup (Orphans \cap InVerification)
    /\ UNCHANGED <<fileStatus, object, linked, old, call, deletes>>

\* Promise.allSettled: some objects go, the others stay.
ClearOrphans(gone) ==
    /\ sweep.at = "selected" /\ gone \subseteq sweep.files
    /\ object' = [f \in Files |-> IF f \in gone THEN "absent" ELSE object[f]]
    /\ sweep' = [sweep EXCEPT !.at = "cleared", !.failed = sweep.files \ gone]
    /\ UNCHANGED <<fileStatus, linked, old, call, deletes, crossed>>

\* Fault: the rows that were selected, whatever became of them.
Purgeable_Selected == sweep.files

\* The update selects again, with the cutoff of the first select.
Purgeable == Pending \cap sweep.files

MarkOrphans ==
    /\ sweep.at = "cleared"
    /\ fileStatus' = [f \in Files |-> IF f \in Purgeable THEN "deleted" ELSE fileStatus[f]]
    /\ old' = old \ Purgeable
    /\ sweep' = IdleSweep
    /\ UNCHANGED <<object, linked, call, deletes, crossed>>

SweepDies ==
    /\ sweep # IdleSweep
    /\ sweep' = IdleSweep
    /\ UNCHANGED <<fileStatus, object, linked, old, call, deletes, crossed>>

DayPasses ==
    /\ old # Pending
    /\ old' = Pending
    /\ UNCHANGED <<fileStatus, object, linked, call, deletes, sweep, crossed>>

CallStep(k) ==
    \/ CompleteUpload(k) \/ FindsRoom(k) \/ FindsNoRoom(k) \/ Link(k) \/ DeleteUnlinked(k)
    \/ \E f \in Files : VerifyUpload(k, f) \/ Unlink(k, f)

FilesNext ==
    \/ \E k \in Callers : CallStep(k)
    \/ \E f \in Files : \/ PresignUpload(f) \/ RefuseMismatch(f) \/ S3Deletes(f) \/ S3Fails(f)
                        \/ \E what \in {"good", "bad"} : Put(f, what)
    \/ SelectOrphans \/ MarkOrphans \/ SweepDies \/ DayPasses
    \/ \E gone \in SUBSET Files : ClearOrphans(gone)

FilesSpec == FilesInit /\ [][FilesNext]_fileVars

-----------------------------------------------------------------------------
(* Properties                                                              *)

\* "again on confirm so a caller cannot exceed it by racing": the entity goes
\* over its quota only by a link whose count was stale, because another file
\* became an attachment, or by a confirmation that completes a deleted row.
QuotaHeld ==
    [][Cardinality(Attached') > Quota /\ ~(Attached' \subseteq Attached) =>
          \/ \E k \in Callers : call[k].at = "stale" /\ Link(k)
          \/ \E f \in Files : fileStatus[f] = "deleted" /\ fileStatus'[f] = "completed"]_fileVars

\* A file that can be downloaded is there: the object of a completed file that
\* no call is deleting is in S3 and is the one that was declared, unless a
\* confirmation of it and a deletion or the sweep were under way together.
CompletedIsThere ==
    \A f \in Files \ crossed :
        fileStatus[f] = "completed" /\ f \notin deletes => object[f] = "good"

\* An attachment stays until somebody removes that very file: no sweep takes it,
\* however late it was confirmed, and no call about another file.  The exception
\* is the confirmation of a file that is attached already: at a full quota it
\* finds no room, not even for itself.
AttachedStays ==
    [][\A f \in Attached \ Attached' : \E k \in Callers :
          Unlink(k, f) \/ ((DeleteUnlinked(k) \/ FindsNoRoom(k)) /\ call[k].file = f)]_fileVars

LeftBehind == {f \in Files : fileStatus[f] = "deleted" /\ f \notin deletes /\ object[f] # "absent"}

\* An object outlives its row only where S3 did not delete it, for deleteFile
\* or for the sweep, and where a confirmation refused the object: the sweep
\* looks at pending rows, so nothing comes back for these.
NothingLeftBehind ==
    [][\A f \in LeftBehind' \ LeftBehind :
          \/ RefuseMismatch(f)
          \/ S3Fails(f)
          \/ MarkOrphans /\ f \in sweep.failed]_fileVars
=============================================================================
