-------------------------- MODULE StoredFilesProofs --------------------------
(***************************************************************************)
(* Proofs about StoredFiles, for every finite set of files, every number   *)
(* of calls and every quota: the types, CompletedIsThere, QuotaHeld,       *)
(* AttachedStays and NothingLeftBehind.                                    *)
(*                                                                         *)
(* The rows, the links, the objects and the sweep are written one at a     *)
(* time.  What holds them together is what a call or the sweep remembers:  *)
(* a confirmation has an intact object before it, unless it crossed a      *)
(* deletion; what the sweep selected stays old; and a count of the         *)
(* attachments is right until another file becomes one.                    *)
(***************************************************************************)
EXTENDS StoredFiles, FiniteSetTheorems, TLAPS

USE FilesAssumption

-----------------------------------------------------------------------------
(* The inductive invariant                                                 *)

\* A link, and a call that got past confirmUpload, are about a row that was
\* completed once.
Confirmed ==
    /\ \A f \in linked : fileStatus[f] \in {"completed", "deleted"}
    /\ \A k \in Callers : call[k].at \in {"confirmed", "room", "stale", "unlinked"} =>
          fileStatus[call[k].file] \in {"completed", "deleted"}

\* The object that a confirmation has verified is still there, if nothing
\* crossed it.
VerifiedStays ==
    \A k \in Callers : call[k].at = "verified" /\ call[k].file \notin crossed =>
        /\ object[call[k].file] = "good" /\ call[k].file \notin deletes \cup sweep.files

\* DeleteObject is sent for deleted rows.
DeletesDeleted == \A f \in deletes \ crossed : fileStatus[f] = "deleted"

\* What the sweep has selected was not confirmed meanwhile, and nothing can be
\* uploaded to it any more.
SweepSound ==
    /\ \A f \in sweep.files :
          /\ fileStatus[f] # "none" /\ (fileStatus[f] = "pending" => f \in old)
          /\ f \notin crossed => fileStatus[f] # "completed"
    /\ sweep.at = "cleared" =>
          \A f \in sweep.files \ sweep.failed : object[f] = "absent" \/ fileStatus[f] # "pending"

\* A count that no attachment has overtaken is right.
RoomTrue == \A k \in Callers : call[k].at = "room" => Cardinality(Attached) < Quota

FilesInv ==
    /\ FilesTypeOK /\ Confirmed /\ VerifiedStays /\ DeletesDeleted /\ SweepSound
    /\ CompletedIsThere /\ RoomTrue

CallMemory == [at : {"verified", "confirmed", "room", "stale", "unlinked"}, file : Files]

\* A call that is not idle has a file in mind.
LEMMA FileCallFields ==
    ASSUME FilesTypeOK, NEW k \in Callers
    PROVE  /\ call[k] = IdleCall <=> call[k].at = "idle"
           /\ call[k].at \in {"idle", "verified", "confirmed", "room", "stale", "unlinked"}
           /\ call[k].at # "idle" => call[k] \in CallMemory /\ call[k].file \in Files
  <1>1. call[k] \in {IdleCall} \cup CallMemory  BY DEF FilesTypeOK, CallMemory
  <1>2. CASE call[k] = IdleCall  BY <1>2 DEF IdleCall
  <1>3. CASE call[k] \in CallMemory  BY <1>3 DEF IdleCall, CallMemory
  <1>  QED  BY <1>1, <1>2, <1>3

\* The sweep has files in mind.
LEMMA SweepFields ==
    ASSUME FilesTypeOK
    PROVE  /\ sweep.files \in SUBSET Files /\ sweep.failed \in SUBSET Files
           /\ sweep.at \in {"idle", "selected", "cleared"}
           /\ linked \subseteq Files /\ deletes \subseteq Files /\ crossed \subseteq Files
           /\ old \subseteq Files
  BY DEF FilesTypeOK, Pending

\* The cardinality of a part of the files.
LEMMA FileCount ==
    ASSUME NEW S \in SUBSET Files, NEW T, T \subseteq S
    PROVE  Cardinality(S) \in Nat /\ Cardinality(T) \in Nat /\ Cardinality(T) <= Cardinality(S)
  <1>1. IsFiniteSet(S)  BY FS_Subset
  <1>  QED  BY <1>1, FS_Subset, FS_CardinalityType

\* One more file counts one more.
LEMMA FileAdded ==
    ASSUME NEW S \in SUBSET Files, NEW f \in Files, NEW T, T \subseteq S \cup {f}
    PROVE  Cardinality(T) <= Cardinality(S) + 1 /\ Cardinality(T) \in Nat /\ Cardinality(S) \in Nat
  <1>1. IsFiniteSet(S) /\ Cardinality(S) \in Nat  BY FS_Subset, FileCount
  <1>2. S \cup {f} \in SUBSET Files  OBVIOUS
  <1>3. Cardinality(T) <= Cardinality(S \cup {f}) /\ Cardinality(T) \in Nat  BY <1>2, FileCount
  <1>4. Cardinality(S \cup {f}) = IF f \in S THEN Cardinality(S) ELSE Cardinality(S) + 1
    BY <1>1, FS_AddElement
  <1>5. CASE f \in S  BY <1>1, <1>3, <1>4, <1>5
  <1>6. CASE f \notin S  BY <1>1, <1>3, <1>4, <1>6
  <1>  QED  BY <1>5, <1>6

\* A count stays right while no file becomes an attachment.
LEMMA RoomKept ==
    ASSUME FilesInv, Attached' \subseteq Attached,
           \A k \in Callers : call'[k].at = "room" => call[k].at = "room" \/ HasRoom
    PROVE  RoomTrue'
  <1>1. Attached \in SUBSET Files  BY SweepFields DEF Attached, FilesInv
  <1>2. /\ Cardinality(Attached) \in Nat /\ Cardinality(Attached') \in Nat
        /\ Cardinality(Attached') <= Cardinality(Attached)
    BY <1>1, FileCount
  <1>3. ASSUME NEW k \in Callers, call'[k].at = "room" PROVE Cardinality(Attached) < Quota
    BY <1>3 DEF FilesInv, RoomTrue, HasRoom
  <1>  QED  BY <1>2, <1>3 DEF RoomTrue

\* Nothing was uploaded.
LEMMA InitFilesInv == FilesInit => FilesInv
  <1>  SUFFICES ASSUME FilesInit PROVE FilesInv  OBVIOUS
  <1>1. FilesTypeOK
    <2>1. sweep \in [at : {"idle", "selected", "cleared"}, files : SUBSET Files, failed : SUBSET Files]
      BY DEF FilesInit, IdleSweep
    <2>  QED  BY <2>1 DEF FilesInit, FilesTypeOK, Pending
  <1>2. Confirmed /\ VerifiedStays /\ DeletesDeleted /\ CompletedIsThere /\ RoomTrue
    BY DEF FilesInit, Confirmed, VerifiedStays, DeletesDeleted, CompletedIsThere, RoomTrue, IdleCall
  <1>3. SweepSound  BY DEF FilesInit, SweepSound, IdleSweep
  <1>  QED  BY <1>1, <1>2, <1>3 DEF FilesInv

-----------------------------------------------------------------------------
(* Steps of the client, of S3 and of time                                  *)

\* A row is created.
LEMMA PresignInv ==
    ASSUME FilesInv, NEW f \in Files, PresignUpload(f)
    PROVE  FilesInv'
  <1>  USE DEF FilesInv
  <1>1. /\ fileStatus[f] = "none" /\ fileStatus' = [fileStatus EXCEPT ![f] = "pending"]
        /\ UNCHANGED <<object, linked, old, call, deletes, sweep, crossed>>
    BY DEF PresignUpload
  <1>2. \A g \in Files : fileStatus'[g] = IF g = f THEN "pending" ELSE fileStatus[g]
    BY <1>1 DEF FilesTypeOK
  <1>3. FilesTypeOK'  BY <1>1, <1>2 DEF FilesTypeOK, Pending
  <1>4. Confirmed'
    BY <1>1, <1>2, FileCallFields, SweepFields DEF Confirmed
  <1>5. VerifiedStays'  BY <1>1 DEF VerifiedStays
  <1>6. DeletesDeleted' /\ CompletedIsThere'
    BY <1>1, <1>2, SweepFields DEF DeletesDeleted, CompletedIsThere
  <1>7. SweepSound'  BY <1>1, <1>2, SweepFields DEF SweepSound
  <1>8. RoomTrue'
    <2>1. Attached' \subseteq Attached  BY <1>1, <1>2, SweepFields DEF Attached
    <2>  QED  BY <1>1, <2>1, RoomKept
  <1>  QED  BY <1>3, <1>4, <1>5, <1>6, <1>7, <1>8

\* The object changes and no row does: an upload, or S3 deletes.
LEMMA ObjectInv ==
    ASSUME FilesInv, NEW f \in Files, S3Deletes(f) \/ S3Fails(f) \/ \E what \in {"good", "bad"} : Put(f, what)
    PROVE  FilesInv'
  <1>  USE DEF FilesInv
  <1>1. UNCHANGED <<fileStatus, linked, old, call, sweep, crossed>>  BY DEF S3Deletes, S3Fails, Put
  <1>2. deletes' \subseteq deletes /\ (f \notin deletes => deletes' = deletes)
        /\ \A g \in Files \ {f} : g \in deletes <=> g \in deletes'
    BY DEF S3Deletes, S3Fails, Put
  <1>3. /\ object' \in [Files -> {"absent", "good", "bad"}]
        /\ \A g \in Files \ {f} : object'[g] = object[g]
        /\ object'[f] = object[f] \/ f \in deletes
           \/ (fileStatus[f] = "pending" /\ f \notin old /\ object[f] = "absent")
        /\ object'[f] = object[f] \/ object'[f] = "absent" \/ (fileStatus[f] = "pending" /\ f \notin old)
    BY DEF S3Deletes, S3Fails, Put, FilesTypeOK
  <1>4. FilesTypeOK'
    <2>1. deletes' \in SUBSET Files  BY <1>2, SweepFields
    <2>  QED  BY <1>1, <1>3, <2>1 DEF FilesTypeOK, Pending
  <1>5. Confirmed' /\ DeletesDeleted'  BY <1>1, <1>2 DEF Confirmed, DeletesDeleted
  <1>6. VerifiedStays'
    <2>  SUFFICES ASSUME NEW k \in Callers, call[k].at = "verified", call[k].file \notin crossed
                  PROVE  object'[call[k].file] = "good" /\ call[k].file \notin deletes' \cup sweep.files
      BY <1>1 DEF VerifiedStays
    <2>1. /\ call[k].file \in Files /\ object[call[k].file] = "good"
          /\ call[k].file \notin deletes \cup sweep.files
      BY FileCallFields DEF VerifiedStays
    <2>  QED  BY <1>2, <1>3, <2>1
  <1>7. SweepSound'
    <2>1. \A g \in sweep.files : object'[g] = object[g] \/ object'[g] = "absent" \/ fileStatus[g] # "pending"
      BY <1>3, SweepFields DEF SweepSound
    <2>  QED  BY <1>1, <2>1 DEF SweepSound
  <1>8. CompletedIsThere'
    <2>  SUFFICES ASSUME NEW g \in Files \ crossed, fileStatus[g] = "completed", g \notin deletes'
                  PROVE  object'[g] = "good"
      BY <1>1 DEF CompletedIsThere
    <2>1. g \notin deletes  BY DEF DeletesDeleted
    <2>2. object[g] = "good"  BY <2>1 DEF CompletedIsThere
    <2>  QED  BY <1>3, <2>1, <2>2
  <1>9. RoomTrue'
    <2>1. Attached' \subseteq Attached  BY <1>1 DEF Attached
    <2>  QED  BY <1>1, <2>1, RoomKept
  <1>  QED  BY <1>4, <1>5, <1>6, <1>7, <1>8, <1>9

\* Rows are given up: a mismatch, or the sweep marks its orphans.
LEMMA GivenUpInv ==
    ASSUME FilesInv, NEW gone \in SUBSET Pending, fileStatus' =
              [f \in Files |-> IF f \in gone THEN "deleted" ELSE fileStatus[f]],
           old' = old \ gone, sweep' \in {sweep, IdleSweep},
           \A f \in gone : f \notin crossed => object[f] # "good" \/ f \in sweep.files,
           UNCHANGED <<object, linked, call, deletes, crossed>>
    PROVE  FilesInv'
  <1>  USE DEF FilesInv
  <1>1. \A f \in Files : /\ fileStatus'[f] = IF f \in gone THEN "deleted" ELSE fileStatus[f]
                         /\ f \in gone => fileStatus[f] = "pending"
    BY DEF Pending
  <1>2. FilesTypeOK'
    <2>1. fileStatus' \in [Files -> {"none", "pending", "completed", "deleted"}]
      BY DEF FilesTypeOK
    <2>2. old' \subseteq Pending'  BY <1>1 DEF Pending, FilesTypeOK
    <2>3. sweep' \in [at : {"idle", "selected", "cleared"}, files : SUBSET Files, failed : SUBSET Files]
      BY DEF FilesTypeOK, IdleSweep
    <2>  QED  BY <2>1, <2>2, <2>3 DEF FilesTypeOK
  <1>3. Confirmed'  BY <1>1, FileCallFields, SweepFields DEF Confirmed
  <1>4. VerifiedStays'  BY DEF VerifiedStays, IdleSweep
  <1>5. DeletesDeleted' /\ CompletedIsThere'
    BY <1>1, SweepFields DEF DeletesDeleted, CompletedIsThere
  <1>6. SweepSound'
    <2>1. CASE sweep' = IdleSweep  BY <2>1 DEF SweepSound, IdleSweep
    <2>2. CASE sweep' = sweep  BY <1>1, <2>2, SweepFields DEF SweepSound
    <2>  QED  BY <2>1, <2>2
  <1>7. RoomTrue'
    <2>1. Attached' \subseteq Attached  BY <1>1, SweepFields DEF Attached
    <2>  QED  BY <2>1, RoomKept
  <1>  QED  BY <1>2, <1>3, <1>4, <1>5, <1>6, <1>7

\* The sweep selects, clears or dies, and days pass: no row changes.
LEMMA SweepInv ==
    ASSUME FilesInv, SelectOrphans \/ SweepDies \/ DayPasses \/ \E gone \in SUBSET Files : ClearOrphans(gone)
    PROVE  FilesInv'
  <1>  USE DEF FilesInv
  <1>1. UNCHANGED <<fileStatus, linked, call, deletes>>
    BY DEF SelectOrphans, SweepDies, DayPasses, ClearOrphans
  <1>2. Confirmed' /\ RoomTrue'
    <2>1. Attached' \subseteq Attached  BY <1>1 DEF Attached
    <2>  QED  BY <1>1, <2>1, RoomKept DEF Confirmed
  <1>3. ASSUME SelectOrphans PROVE FilesInv'
    <2>1. /\ sweep' = [at |-> "selected", files |-> Pending \cap old, failed |-> {}]
          /\ crossed' = crossed \cup (Pending \cap old \cap InVerification) /\ UNCHANGED <<object, old>>
      BY <1>3 DEF SelectOrphans, Orphans
    <2>2. FilesTypeOK'
      <3>1. Pending \cap old \in SUBSET Files  BY DEF Pending
      <3>2. sweep' \in [at : {"idle", "selected", "cleared"}, files : SUBSET Files, failed : SUBSET Files]
        BY <2>1, <3>1
      <3>3. crossed' \in SUBSET Files  BY <2>1, <3>1, SweepFields
      <3>  QED  BY <1>1, <2>1, <3>2, <3>3 DEF FilesTypeOK, Pending
    <2>3. VerifiedStays'
      <3>1. \A k \in Callers : call[k].at = "verified" => call[k].file \in InVerification
        BY DEF InVerification
      <3>  QED  BY <1>1, <2>1, <3>1 DEF VerifiedStays
    <2>4. SweepSound'
      <3>1. sweep'.files = Pending \cap old /\ sweep'.at = "selected"  BY <2>1
      <3>  QED  BY <1>1, <2>1, <3>1 DEF SweepSound, Pending
    <2>5. DeletesDeleted' /\ CompletedIsThere'
      BY <1>1, <2>1 DEF DeletesDeleted, CompletedIsThere
    <2>  QED  BY <1>2, <2>2, <2>3, <2>4, <2>5
  <1>4. ASSUME SweepDies PROVE FilesInv'
    <2>1. sweep' = IdleSweep /\ UNCHANGED <<object, old, crossed>>  BY <1>4 DEF SweepDies
    <2>2. sweep'.files = {} /\ sweep'.at = "idle"  BY <2>1 DEF IdleSweep
    <2>3. sweep' \in [at : {"idle", "selected", "cleared"}, files : SUBSET Files, failed : SUBSET Files]
      BY <2>1 DEF IdleSweep
    <2>4. FilesTypeOK'  BY <1>1, <2>1, <2>3 DEF FilesTypeOK, Pending
    <2>5. VerifiedStays' /\ SweepSound' /\ DeletesDeleted' /\ CompletedIsThere'
      BY <1>1, <2>1, <2>2 DEF VerifiedStays, SweepSound, DeletesDeleted, CompletedIsThere
    <2>  QED  BY <1>2, <2>4, <2>5
  <1>5. ASSUME DayPasses PROVE FilesInv'
    <2>1. old' = Pending /\ UNCHANGED <<object, sweep, crossed>>  BY <1>5 DEF DayPasses
    <2>2. FilesTypeOK'  BY <1>1, <2>1 DEF FilesTypeOK, Pending
    <2>3. SweepSound'  BY <1>1, <2>1, SweepFields DEF SweepSound, Pending
    <2>4. VerifiedStays' /\ DeletesDeleted' /\ CompletedIsThere'
      BY <1>1, <2>1 DEF VerifiedStays, DeletesDeleted, CompletedIsThere
    <2>  QED  BY <1>2, <2>2, <2>3, <2>4
  <1>6. ASSUME NEW gone \in SUBSET Files, ClearOrphans(gone) PROVE FilesInv'
    <2>1. /\ gone \subseteq sweep.files /\ UNCHANGED <<old, crossed>>
          /\ object' = [f \in Files |-> IF f \in gone THEN "absent" ELSE object[f]]
          /\ sweep' = [sweep EXCEPT !.at = "cleared", !.failed = sweep.files \ gone]
      BY <1>6 DEF ClearOrphans
    <2>2. /\ sweep'.files = sweep.files /\ sweep'.failed = sweep.files \ gone /\ sweep'.at = "cleared"
          /\ sweep' \in [at : {"idle", "selected", "cleared"}, files : SUBSET Files, failed : SUBSET Files]
      BY <2>1, SweepFields DEF FilesTypeOK
    <2>3. FilesTypeOK'  BY <1>1, <2>1, <2>2 DEF FilesTypeOK, Pending
    <2>4. VerifiedStays'
      BY <1>1, <2>1, <2>2, FileCallFields DEF VerifiedStays
    <2>5. SweepSound'
      <3>1. \A f \in sweep'.files \ sweep'.failed : object'[f] = "absent"
        BY <2>1, <2>2, SweepFields
      <3>  QED  BY <1>1, <2>1, <2>2, <3>1 DEF SweepSound
    <2>6. DeletesDeleted'  BY <1>1, <2>1 DEF DeletesDeleted
    <2>7. CompletedIsThere'  BY <1>1, <2>1 DEF CompletedIsThere, SweepSound
    <2>  QED  BY <1>2, <2>3, <2>4, <2>5, <2>6, <2>7
  <1>  QED  BY <1>3, <1>4, <1>5, <1>6

-----------------------------------------------------------------------------
(* Steps of a call                                                         *)

\* The calls other than k go on where they were; a count may become stale.
Others(k) ==
    \A j \in Callers \ {k} :
        /\ call'[j].at = call[j].at \/ (call[j].at = "room" /\ call'[j].at = "stale")
        /\ call[j].at # "idle" => call'[j].file = call[j].file

\* A call that changes only its own memory.
LEMMA OwnMemory ==
    ASSUME FilesTypeOK, NEW k \in Callers, NEW memory \in {IdleCall} \cup CallMemory,
           call' = [call EXCEPT ![k] = memory]
    PROVE  /\ Others(k) /\ call'[k] = memory
           /\ \A j \in Callers \ {k} : call'[j] = call[j]
           /\ call' \in [Callers -> {IdleCall} \cup CallMemory]
  BY DEF FilesTypeOK, Others, CallMemory

\* A call that makes the counts of the others stale.
LEMMA OthersStale ==
    ASSUME FilesTypeOK, NEW k \in Callers, NEW memory \in {IdleCall} \cup CallMemory,
           memory.at # "room", ContinueAttached(k, memory)
    PROVE  /\ Others(k) /\ call'[k] = memory
           /\ \A j \in Callers : call'[j].at # "room"
           /\ call' \in [Callers -> {IdleCall} \cup CallMemory]
  <1>1. \A j \in Callers : call'[j] =
            IF j = k THEN memory
            ELSE IF call[j].at = "room" THEN [call[j] EXCEPT !.at = "stale"] ELSE call[j]
    BY DEF ContinueAttached
  <1>2. ASSUME NEW j \in Callers, j # k, call[j].at = "room"
        PROVE  /\ call'[j] \in CallMemory /\ call'[j].at = "stale" /\ call'[j].file = call[j].file
    <2>1. call[j] \in CallMemory  BY <1>2, FileCallFields
    <2>2. call'[j] = [call[j] EXCEPT !.at = "stale"]  BY <1>1, <1>2
    <2>  QED  BY <2>1, <2>2 DEF CallMemory
  <1>3. ASSUME NEW j \in Callers, j # k, call[j].at # "room"
        PROVE  call'[j] = call[j] /\ call'[j] \in {IdleCall} \cup CallMemory
    BY <1>1, <1>3 DEF FilesTypeOK, CallMemory
  <1>4. call'[k] = memory  BY <1>1
  <1>5. Others(k)  BY <1>2, <1>3 DEF Others
  <1>6. \A j \in Callers : call'[j].at # "room"  BY <1>2, <1>3, <1>4
  <1>7. call' \in [Callers -> {IdleCall} \cup CallMemory]
    <2>1. \A j \in Callers : call'[j] \in {IdleCall} \cup CallMemory  BY <1>2, <1>3, <1>4
    <2>2. call' = [j \in Callers |-> call'[j]]  BY DEF ContinueAttached
    <2>  QED  BY <2>1, <2>2
  <1>  QED  BY <1>4, <1>5, <1>6, <1>7

\* confirmUpload reads the row and the object.
LEMMA VerifyInv ==
    ASSUME FilesInv, NEW k \in Callers, NEW f \in Files, VerifyUpload(k, f)
    PROVE  FilesInv'
  <1>  USE DEF FilesInv
  <1>1. /\ UNCHANGED <<fileStatus, object, linked, old, deletes, sweep>>
        /\ crossed' = crossed \cup ({f} \cap (sweep.files \cup deletes))
    BY DEF VerifyUpload
  <1>2. PICK at \in {"confirmed", "verified"} :
          /\ call' = [call EXCEPT ![k] = [at |-> at, file |-> f]]
          /\ at = "confirmed" => fileStatus[f] = "completed"
          /\ at = "verified" => fileStatus[f] = "pending" /\ object[f] = "good"
    BY DEF VerifyUpload
  <1>3. PICK memory \in CallMemory : memory = [at |-> at, file |-> f]  BY DEF CallMemory
  <1>4. memory.at = at /\ memory.file = f  BY <1>3
  <1>5. /\ call'[k] = memory /\ \A j \in Callers \ {k} : call'[j] = call[j]
        /\ call' \in [Callers -> {IdleCall} \cup CallMemory]
    BY <1>2, <1>3, OwnMemory
  <1>6. FilesTypeOK'
    <2>1. crossed' \in SUBSET Files  BY <1>1, SweepFields
    <2>  QED  BY <1>1, <1>5, <2>1 DEF FilesTypeOK, CallMemory, Pending
  <1>7. Confirmed'  BY <1>1, <1>2, <1>4, <1>5 DEF Confirmed
  <1>8. VerifiedStays'
    <2>  SUFFICES ASSUME NEW j \in Callers, call'[j].at = "verified", call'[j].file \notin crossed'
                  PROVE  /\ object[call'[j].file] = "good"
                         /\ call'[j].file \notin deletes \cup sweep.files
      BY <1>1 DEF VerifiedStays
    <2>1. CASE j = k  BY <1>1, <1>2, <1>4, <1>5, <2>1
    <2>2. CASE j # k  BY <1>1, <1>5, <2>2 DEF VerifiedStays
    <2>  QED  BY <2>1, <2>2
  <1>9. DeletesDeleted' /\ CompletedIsThere' /\ SweepSound'
    BY <1>1 DEF DeletesDeleted, CompletedIsThere, SweepSound
  <1>10. RoomTrue'
    <2>1. Attached' \subseteq Attached  BY <1>1 DEF Attached
    <2>2. \A j \in Callers : call'[j].at = "room" => call[j].at = "room"  BY <1>4, <1>5
    <2>  QED  BY <2>1, <2>2, RoomKept
  <1>  QED  BY <1>6, <1>7, <1>8, <1>9, <1>10

\* confirmUpload writes the row.
LEMMA CompleteInv ==
    ASSUME FilesInv, NEW k \in Callers, CompleteUpload(k)
    PROVE  FilesInv'
  <1>  USE DEF FilesInv
  <1>1. /\ UNCHANGED <<object, linked, deletes, sweep, crossed>> /\ call[k].at = "verified"
        /\ call[k].file \in Files
    BY FileCallFields DEF CompleteUpload
  <1>2. PICK f \in Files : f = call[k].file  BY <1>1
  <1>3. /\ fileStatus' = [fileStatus EXCEPT ![f] = "completed"] /\ old' = old \ {f}
        /\ IF f \in linked THEN ContinueAttached(k, [at |-> "confirmed", file |-> f])
           ELSE call' = [call EXCEPT ![k] = [at |-> "confirmed", file |-> f]]
    BY <1>2 DEF CompleteUpload, Continue
  <1>4. PICK memory \in CallMemory : memory = [at |-> "confirmed", file |-> f]  BY DEF CallMemory
  <1>5. memory.at = "confirmed" /\ memory.file = f  BY <1>4
  <1>6. /\ Others(k) /\ call'[k] = memory /\ call' \in [Callers -> {IdleCall} \cup CallMemory]
        /\ f \in linked => \A j \in Callers : call'[j].at # "room"
    BY <1>3, <1>4, <1>5, OwnMemory, OthersStale
  <1>7. \A g \in Files : fileStatus'[g] = IF g = f THEN "completed" ELSE fileStatus[g]
    BY <1>3 DEF FilesTypeOK
  <1>8. f \notin crossed => object[f] = "good" /\ f \notin deletes \cup sweep.files
    BY <1>1, <1>2 DEF VerifiedStays
  <1>9. FilesTypeOK'
    <2>1. fileStatus' \in [Files -> {"none", "pending", "completed", "deleted"}]
      BY <1>3 DEF FilesTypeOK
    <2>2. old' \subseteq Pending'  BY <1>3, <1>7 DEF FilesTypeOK, Pending
    <2>  QED  BY <1>1, <1>6, <2>1, <2>2 DEF FilesTypeOK, CallMemory
  <1>10. Confirmed'
    <2>1. \A g \in linked : fileStatus'[g] \in {"completed", "deleted"}
      BY <1>7, SweepFields DEF Confirmed
    <2>2. ASSUME NEW j \in Callers, call'[j].at \in {"confirmed", "room", "stale", "unlinked"}
          PROVE  fileStatus'[call'[j].file] \in {"completed", "deleted"}
      <3>1. CASE j = k  BY <1>5, <1>6, <1>7, <3>1
      <3>2. CASE j # k
        <4>1. call[j].at \in {"confirmed", "room", "stale", "unlinked"} /\ call'[j].file = call[j].file
          BY <1>6, <2>2, <3>2 DEF Others
        <4>2. call[j].file \in Files  BY <4>1, FileCallFields
        <4>  QED  BY <1>7, <4>1, <4>2 DEF Confirmed
      <3>  QED  BY <3>1, <3>2
    <2>  QED  BY <1>1, <2>1, <2>2 DEF Confirmed
  <1>11. VerifiedStays'
    <2>1. \A j \in Callers : call'[j].at = "verified" =>
             call[j].at = "verified" /\ call'[j].file = call[j].file
      BY <1>5, <1>6 DEF Others
    <2>  QED  BY <1>1, <2>1 DEF VerifiedStays
  <1>12. DeletesDeleted' /\ CompletedIsThere'
    BY <1>1, <1>7, <1>8, SweepFields DEF DeletesDeleted, CompletedIsThere
  <1>13. SweepSound'  BY <1>1, <1>3, <1>7, <1>8, SweepFields DEF SweepSound
  <1>14. RoomTrue'
    <2>1. CASE f \in linked  BY <1>6, <2>1 DEF RoomTrue
    <2>2. CASE f \notin linked
      <3>1. Attached' \subseteq Attached  BY <1>1, <1>7, <2>2, SweepFields DEF Attached
      <3>2. \A j \in Callers : call'[j].at = "room" => call[j].at = "room"
        BY <1>5, <1>6 DEF Others
      <3>  QED  BY <3>1, <3>2, RoomKept
    <2>  QED  BY <2>1, <2>2
  <1>  QED  BY <1>9, <1>10, <1>11, <1>12, <1>13, <1>14

\* A call counts, links or unlinks: no row and no object changes.
LEMMA LinkStepInv ==
    ASSUME FilesInv, NEW k \in Callers, FindsRoom(k) \/ Link(k) \/ \E f \in Files : Unlink(k, f)
    PROVE  FilesInv'
  <1>  USE DEF FilesInv
  <1>1. UNCHANGED <<fileStatus, object, old, deletes, sweep, crossed>>
    BY DEF FindsRoom, Link, Unlink
  <1>2. ASSUME Others(k), call' \in [Callers -> {IdleCall} \cup CallMemory],
               call'[k].at # "verified",
               linked' \in SUBSET Files, \A g \in linked' : fileStatus[g] \in {"completed", "deleted"},
               call'[k].at \in {"confirmed", "room", "stale", "unlinked"} =>
                   fileStatus[call'[k].file] \in {"completed", "deleted"}
        PROVE  /\ FilesTypeOK' /\ Confirmed' /\ VerifiedStays' /\ DeletesDeleted' /\ SweepSound'
               /\ CompletedIsThere'
    <2>1. FilesTypeOK'  BY <1>1, <1>2 DEF FilesTypeOK, CallMemory, Pending
    <2>2. Confirmed'  BY <1>1, <1>2 DEF Confirmed, Others
    <2>3. VerifiedStays'  BY <1>1, <1>2 DEF VerifiedStays, Others
    <2>4. DeletesDeleted' /\ SweepSound' /\ CompletedIsThere'
      BY <1>1 DEF DeletesDeleted, SweepSound, CompletedIsThere
    <2>  QED  BY <2>1, <2>2, <2>3, <2>4
  <1>3. ASSUME FindsRoom(k) PROVE FilesInv'
    <2>1. /\ call[k].at = "confirmed" /\ HasRoom /\ call[k].file \in Files /\ linked' = linked
          /\ call' = [call EXCEPT ![k] = [at |-> "room", file |-> call[k].file]]
      BY <1>3, FileCallFields DEF FindsRoom, Continue
    <2>2. PICK memory \in CallMemory : memory = [at |-> "room", file |-> call[k].file]
      BY <2>1 DEF CallMemory
    <2>3. Others(k) /\ call'[k] = memory /\ call' \in [Callers -> {IdleCall} \cup CallMemory]
      BY <2>1, <2>2, OwnMemory
    <2>4. call'[k].at = "room" /\ call'[k].file = call[k].file  BY <2>2, <2>3
    <2>5. fileStatus[call[k].file] \in {"completed", "deleted"}  BY <2>1 DEF Confirmed
    <2>6. linked' \in SUBSET Files /\ \A g \in linked' : fileStatus[g] \in {"completed", "deleted"}
      BY <2>1, SweepFields DEF Confirmed
    <2>7. RoomTrue'
      <3>1. Attached' \subseteq Attached  BY <1>1, <2>1 DEF Attached
      <3>  QED  BY <2>1, <3>1, RoomKept
    <2>  QED  BY <1>2, <2>3, <2>4, <2>5, <2>6, <2>7
  <1>4. ASSUME Link(k) PROVE FilesInv'
    <2>1. /\ call[k].at \in {"room", "stale"} /\ call[k].file \in Files
          /\ linked' = linked \cup {call[k].file} /\ ContinueAttached(k, IdleCall)
      BY <1>4, FileCallFields DEF Link
    <2>2. IdleCall.at = "idle"  BY DEF IdleCall
    <2>3. /\ Others(k) /\ call'[k] = IdleCall /\ call' \in [Callers -> {IdleCall} \cup CallMemory]
          /\ \A j \in Callers : call'[j].at # "room"
      BY <2>1, <2>2, OthersStale
    <2>4. linked' \in SUBSET Files /\ \A g \in linked' : fileStatus[g] \in {"completed", "deleted"}
      BY <2>1, SweepFields DEF Confirmed
    <2>5. RoomTrue'  BY <2>3 DEF RoomTrue
    <2>  QED  BY <1>2, <2>2, <2>3, <2>4, <2>5
  <1>5. ASSUME NEW f \in Files, Unlink(k, f) PROVE FilesInv'
    <2>1. /\ f \in linked /\ linked' = linked \ {f}
          /\ call' = [call EXCEPT ![k] = [at |-> "unlinked", file |-> f]]
      BY <1>5 DEF Unlink
    <2>2. PICK memory \in CallMemory : memory = [at |-> "unlinked", file |-> f]  BY DEF CallMemory
    <2>3. /\ Others(k) /\ call'[k] = memory /\ call' \in [Callers -> {IdleCall} \cup CallMemory]
          /\ \A j \in Callers \ {k} : call'[j] = call[j]
      BY <2>1, <2>2, OwnMemory
    <2>4. call'[k].at = "unlinked" /\ call'[k].file = f  BY <2>2, <2>3
    <2>5. linked' \in SUBSET Files /\ \A g \in linked : fileStatus[g] \in {"completed", "deleted"}
      BY <2>1, SweepFields DEF Confirmed
    <2>6. RoomTrue'
      <3>1. Attached' \subseteq Attached  BY <1>1, <2>1 DEF Attached
      <3>2. \A j \in Callers : call'[j].at = "room" => call[j].at = "room"  BY <2>3, <2>4
      <3>  QED  BY <3>1, <3>2, RoomKept
    <2>  QED  BY <1>2, <2>1, <2>3, <2>4, <2>5, <2>6
  <1>  QED  BY <1>3, <1>4, <1>5

\* A call deletes its file: over the quota, or unlinked.
LEMMA DeleteInv ==
    ASSUME FilesInv, NEW k \in Callers, FindsNoRoom(k) \/ DeleteUnlinked(k)
    PROVE  FilesInv'
  <1>  USE DEF FilesInv
  <1>1. /\ UNCHANGED <<object, linked, old, sweep>> /\ call[k].at \in {"confirmed", "unlinked"}
        /\ call[k].file \in Files /\ DeleteFile(call[k].file) /\ call' = [call EXCEPT ![k] = IdleCall]
    BY FileCallFields DEF FindsNoRoom, DeleteUnlinked
  <1>2. PICK f \in Files : f = call[k].file  BY <1>1
  <1>3. /\ fileStatus' = [fileStatus EXCEPT ![f] = "deleted"] /\ deletes' = deletes \cup {f}
        /\ crossed' = crossed \cup ({f} \cap InVerification)
    BY <1>1, <1>2 DEF DeleteFile
  <1>4. /\ call'[k] = IdleCall /\ \A j \in Callers \ {k} : call'[j] = call[j]
        /\ call' \in [Callers -> {IdleCall} \cup CallMemory]
    BY <1>1, OwnMemory
  <1>5. call'[k].at = "idle"  BY <1>4 DEF IdleCall
  <1>6. fileStatus[f] \in {"completed", "deleted"}  BY <1>1, <1>2 DEF Confirmed
  <1>7. \A g \in Files : fileStatus'[g] = IF g = f THEN "deleted" ELSE fileStatus[g]
    BY <1>3 DEF FilesTypeOK
  <1>8. FilesTypeOK'
    <2>1. fileStatus' \in [Files -> {"none", "pending", "completed", "deleted"}]
      BY <1>3 DEF FilesTypeOK
    <2>2. old' \subseteq Pending'  BY <1>1, <1>6, <1>7 DEF FilesTypeOK, Pending
    <2>3. deletes' \in SUBSET Files /\ crossed' \in SUBSET Files  BY <1>3, SweepFields
    <2>  QED  BY <1>1, <1>4, <2>1, <2>2, <2>3 DEF FilesTypeOK, CallMemory
  <1>9. Confirmed'
    <2>1. \A g \in linked : fileStatus'[g] \in {"completed", "deleted"}
      BY <1>7, SweepFields DEF Confirmed
    <2>2. ASSUME NEW j \in Callers, call'[j].at \in {"confirmed", "room", "stale", "unlinked"}
          PROVE  fileStatus'[call'[j].file] \in {"completed", "deleted"}
      <3>1. call'[j] = call[j]  BY <1>4, <1>5, <2>2
      <3>2. call[j].file \in Files  BY <2>2, <3>1, FileCallFields
      <3>  QED  BY <1>7, <2>2, <3>1, <3>2 DEF Confirmed
    <2>  QED  BY <1>1, <2>1, <2>2 DEF Confirmed
  <1>10. VerifiedStays'
    <2>  SUFFICES ASSUME NEW j \in Callers, call'[j].at = "verified", call'[j].file \notin crossed'
                  PROVE  /\ object[call'[j].file] = "good"
                         /\ call'[j].file \notin deletes' \cup sweep.files
      BY <1>1 DEF VerifiedStays
    <2>1. call'[j] = call[j]  BY <1>4, <1>5
    <2>2. call[j].file \in InVerification  BY <2>1 DEF InVerification
    <2>3. call[j].file # f /\ call[j].file \notin crossed  BY <1>3, <2>1, <2>2
    <2>  QED  BY <1>3, <2>1, <2>3 DEF VerifiedStays
  <1>11. DeletesDeleted' /\ CompletedIsThere'
    BY <1>1, <1>3, <1>7, SweepFields DEF DeletesDeleted, CompletedIsThere
  <1>12. SweepSound'
    BY <1>1, <1>3, <1>7, SweepFields DEF SweepSound
  <1>13. RoomTrue'
    <2>1. Attached' \subseteq Attached  BY <1>1, <1>7, SweepFields DEF Attached
    <2>2. \A j \in Callers : call'[j].at = "room" => call[j].at = "room"  BY <1>4, <1>5
    <2>  QED  BY <2>1, <2>2, RoomKept
  <1>  QED  BY <1>8, <1>9, <1>10, <1>11, <1>12, <1>13

-----------------------------------------------------------------------------
(* Theorems                                                                *)

\* Every step keeps the invariant.
LEMMA NextFilesInv == FilesInv /\ [FilesNext]_fileVars => FilesInv'
  <1>  SUFFICES ASSUME FilesInv, [FilesNext]_fileVars PROVE FilesInv'  OBVIOUS
  <1>1. ASSUME NEW f \in Files, RefuseMismatch(f) PROVE FilesInv'
    <2>1. {f} \in SUBSET Pending  BY <1>1 DEF RefuseMismatch, Pending
    <2>2. fileStatus' = [g \in Files |-> IF g \in {f} THEN "deleted" ELSE fileStatus[g]]
      BY <1>1 DEF RefuseMismatch, FilesInv, FilesTypeOK
    <2>3. object[f] # "good" /\ old' = old \ {f} /\ UNCHANGED <<object, linked, call, deletes, sweep, crossed>>
      BY <1>1 DEF RefuseMismatch
    <2>  QED  BY <2>1, <2>2, <2>3, GivenUpInv
  <1>2. ASSUME MarkOrphans PROVE FilesInv'
    <2>1. Purgeable \in SUBSET Pending /\ Purgeable \subseteq sweep.files  BY DEF Purgeable
    <2>  QED  BY <1>2, <2>1, GivenUpInv DEF MarkOrphans
  <1>3. ASSUME NEW k \in Callers, CallStep(k) PROVE FilesInv'
    BY <1>3, VerifyInv, CompleteInv, LinkStepInv, DeleteInv DEF CallStep
  <1>4. CASE UNCHANGED fileVars
    <2>1. UNCHANGED <<fileStatus, object, linked, old, call, deletes, sweep, crossed>>
      BY <1>4 DEF fileVars
    <2>2. FilesTypeOK' /\ Confirmed' /\ VerifiedStays'
      BY <2>1 DEF FilesInv, FilesTypeOK, Pending, Confirmed, VerifiedStays
    <2>3. DeletesDeleted' /\ SweepSound' /\ CompletedIsThere' /\ RoomTrue'
      BY <2>1 DEF FilesInv, DeletesDeleted, SweepSound, CompletedIsThere, RoomTrue, Attached
    <2>  QED  BY <2>2, <2>3 DEF FilesInv
  <1>  QED  BY <1>1, <1>2, <1>3, <1>4, PresignInv, ObjectInv, SweepInv DEF FilesNext

\* storage.service.ts and its sweep keep what the calls remember true.
THEOREM FilesInvariance == FilesSpec => []FilesInv
  BY InitFilesInv, NextFilesInv, PTL DEF FilesSpec

\* The rows, the links, the objects and the calls have their types.
THEOREM FilesTypeCorrect == FilesSpec => []FilesTypeOK
  <1>1. FilesInv => FilesTypeOK  BY DEF FilesInv
  <1>  QED  BY <1>1, FilesInvariance, PTL

\* A completed file that nobody is deleting can be downloaded, and is what was
\* declared, unless its confirmation crossed a deletion or the sweep.
THEOREM CompletedFilesAreThere == FilesSpec => []CompletedIsThere
  <1>1. FilesInv => CompletedIsThere  BY DEF FilesInv
  <1>  QED  BY <1>1, FilesInvariance, PTL

\* Only a confirmation and a link make an attachment.
LEMMA NewAttachment ==
    ASSUME FilesInv, [FilesNext]_fileVars
    PROVE  Attached' \subseteq Attached \/ \E k \in Callers : CompleteUpload(k) \/ Link(k)
  <1>1. linked \subseteq Files /\ fileStatus = [f \in Files |-> fileStatus[f]]
    BY SweepFields DEF FilesInv, FilesTypeOK
  <1>2. ASSUME linked' \subseteq linked,
               \A f \in linked : fileStatus'[f] = "completed" => fileStatus[f] = "completed"
        PROVE  Attached' \subseteq Attached
    BY <1>2 DEF Attached
  <1>3. ASSUME NEW f \in Files, PresignUpload(f) \/ RefuseMismatch(f) PROVE Attached' \subseteq Attached
    BY <1>1, <1>2, <1>3 DEF PresignUpload, RefuseMismatch
  <1>4. ASSUME MarkOrphans PROVE Attached' \subseteq Attached
    BY <1>1, <1>2, <1>4 DEF MarkOrphans
  <1>5. ASSUME NEW k \in Callers, FindsNoRoom(k) \/ DeleteUnlinked(k) PROVE Attached' \subseteq Attached
    <2>1. PICK f : fileStatus' = [fileStatus EXCEPT ![f] = "deleted"] /\ linked' = linked
      BY <1>5 DEF FindsNoRoom, DeleteUnlinked, DeleteFile
    <2>  QED  BY <1>1, <1>2, <2>1
  <1>6. ASSUME fileStatus' = fileStatus, linked' \subseteq linked PROVE Attached' \subseteq Attached
    BY <1>2, <1>6
  <1>7. ASSUME NEW k \in Callers, FindsRoom(k) \/ \E f \in Files : VerifyUpload(k, f) \/ Unlink(k, f)
        PROVE  Attached' \subseteq Attached
    BY <1>6, <1>7 DEF FindsRoom, VerifyUpload, Unlink
  <1>8. ASSUME NEW f \in Files, S3Deletes(f) \/ S3Fails(f) \/ \E what \in {"good", "bad"} : Put(f, what)
        PROVE  Attached' \subseteq Attached
    BY <1>6, <1>8 DEF S3Deletes, S3Fails, Put
  <1>9. ASSUME SelectOrphans \/ SweepDies \/ DayPasses \/ (\E gone \in SUBSET Files : ClearOrphans(gone))
               \/ UNCHANGED fileVars
        PROVE  Attached' \subseteq Attached
    BY <1>6, <1>9 DEF SelectOrphans, SweepDies, DayPasses, ClearOrphans, fileVars
  <1>  QED  BY <1>3, <1>4, <1>5, <1>7, <1>8, <1>9 DEF FilesNext, CallStep

\* The quota of entity-attachments.service.ts is passed only by a link whose
\* count was stale or by a confirmation that completes a deleted row.
THEOREM QuotaIsHeld == FilesSpec => QuotaHeld
  <1>  DEFINE Excused ==
           \/ \E k \in Callers : call[k].at = "stale" /\ Link(k)
           \/ \E f \in Files : fileStatus[f] = "deleted" /\ fileStatus'[f] = "completed"
  <1>1. ASSUME FilesInv, [FilesNext]_fileVars, Cardinality(Attached') > Quota, ~(Attached' \subseteq Attached)
        PROVE  Excused
    <2>1. PICK k \in Callers : CompleteUpload(k) \/ Link(k)  BY <1>1, NewAttachment
    <2>2. FilesTypeOK /\ Attached \in SUBSET Files /\ linked \subseteq Files
      BY <1>1, SweepFields DEF FilesInv, Attached
    <2>3. CASE CompleteUpload(k)
      <3>1. /\ linked' = linked /\ call[k].file \in Files
            /\ fileStatus' = [fileStatus EXCEPT ![call[k].file] = "completed"]
        BY <2>2, <2>3, FileCallFields DEF CompleteUpload
      <3>2. PICK f \in linked : fileStatus'[f] = "completed" /\ fileStatus[f] # "completed"
        BY <1>1, <3>1 DEF Attached
      <3>3. fileStatus[f] = "deleted" /\ f \in Files
        BY <1>1, <2>2, <3>2 DEF FilesInv, Confirmed
      <3>  QED  BY <3>2, <3>3
    <2>4. CASE Link(k)
      <3>1. /\ linked' = linked \cup {call[k].file} /\ fileStatus' = fileStatus
            /\ call[k].at \in {"room", "stale"} /\ call[k].file \in Files
        BY <2>2, <2>4, FileCallFields DEF Link
      <3>2. CASE call[k].at = "room"
        <4>1. Cardinality(Attached) < Quota  BY <1>1, <3>2 DEF FilesInv, RoomTrue
        <4>2. Attached' \subseteq Attached \cup {call[k].file}  BY <3>1 DEF Attached
        <4>3. /\ Cardinality(Attached') <= Cardinality(Attached) + 1
              /\ Cardinality(Attached') \in Nat /\ Cardinality(Attached) \in Nat
          BY <2>2, <3>1, <4>2, FileAdded
        <4>  QED  BY <1>1, <4>1, <4>3
      <3>  QED  BY <2>4, <3>1, <3>2
    <2>  QED  BY <2>1, <2>3, <2>4
  <1>2. FilesInv /\ [FilesNext]_fileVars =>
            [Cardinality(Attached') > Quota /\ ~(Attached' \subseteq Attached) => Excused]_fileVars
    BY <1>1
  <1>  QED  BY <1>2, FilesInvariance, PTL DEF FilesSpec, QuotaHeld

\* An attachment goes only by a removal, or by its own confirmation at a full
\* quota: neither the sweep nor another upload of the entity takes it.
THEOREM AttachmentsStay == FilesSpec => AttachedStays
  <1>1. ASSUME FilesInv, [FilesNext]_fileVars, NEW f \in Attached \ Attached'
        PROVE  \E k \in Callers :
                   Unlink(k, f) \/ ((DeleteUnlinked(k) \/ FindsNoRoom(k)) /\ call[k].file = f)
    <2>1. f \in linked /\ f \in Files /\ fileStatus[f] = "completed"
      BY <1>1, SweepFields DEF Attached, FilesInv
    <2>2. fileStatus \in [Files -> {"none", "pending", "completed", "deleted"}]
      BY <1>1 DEF FilesInv, FilesTypeOK
    <2>3. f \notin linked' \/ fileStatus'[f] # "completed"  BY <1>1 DEF Attached
    <2>4. ASSUME fileStatus' = fileStatus, f \in linked' PROVE FALSE  BY <2>1, <2>3, <2>4
    <2>6. ASSUME NEW g \in Files, PresignUpload(g) \/ RefuseMismatch(g) PROVE FALSE
      BY <2>1, <2>2, <2>3, <2>6 DEF PresignUpload, RefuseMismatch
    <2>7. ASSUME MarkOrphans PROVE FALSE
      BY <2>1, <2>3, <2>7 DEF MarkOrphans, Purgeable, Pending
    <2>8. ASSUME NEW k \in Callers, CallStep(k)
          PROVE  Unlink(k, f) \/ ((DeleteUnlinked(k) \/ FindsNoRoom(k)) /\ call[k].file = f)
      <3>1. CASE CompleteUpload(k)  BY <2>1, <2>2, <2>3, <3>1 DEF CompleteUpload
      <3>2. CASE FindsNoRoom(k)
        BY <2>1, <2>2, <2>3, <3>2 DEF FindsNoRoom, DeleteFile
      <3>6. CASE DeleteUnlinked(k)
        BY <2>1, <2>2, <2>3, <3>6 DEF DeleteUnlinked, DeleteFile
      <3>3. CASE FindsRoom(k) \/ Link(k)  BY <2>1, <2>4, <3>3 DEF FindsRoom, Link
      <3>4. ASSUME NEW g \in Files, VerifyUpload(k, g) PROVE FALSE
        BY <2>1, <2>4, <3>4 DEF VerifyUpload
      <3>5. ASSUME NEW g \in Files, Unlink(k, g) PROVE g = f
        BY <2>1, <2>4, <3>5 DEF Unlink
      <3>  QED  BY <2>8, <3>1, <3>2, <3>3, <3>4, <3>5, <3>6 DEF CallStep
    <2>9. ASSUME NEW g \in Files, S3Deletes(g) \/ S3Fails(g) \/ \E what \in {"good", "bad"} : Put(g, what)
          PROVE  FALSE
      BY <2>1, <2>4, <2>9 DEF S3Deletes, S3Fails, Put
    <2>10. ASSUME SelectOrphans \/ SweepDies \/ DayPasses \/ (\E gone \in SUBSET Files : ClearOrphans(gone))
                  \/ UNCHANGED fileVars
           PROVE  FALSE
      BY <2>1, <2>4, <2>10 DEF SelectOrphans, SweepDies, DayPasses, ClearOrphans, fileVars
    <2>  QED  BY <1>1, <2>6, <2>7, <2>8, <2>9, <2>10 DEF FilesNext
  <1>2. FilesInv /\ [FilesNext]_fileVars =>
            [\A f \in Attached \ Attached' : \E k \in Callers :
                Unlink(k, f) \/ ((DeleteUnlinked(k) \/ FindsNoRoom(k)) /\ call[k].file = f)]_fileVars
    BY <1>1
  <1>  QED  BY <1>2, FilesInvariance, PTL DEF FilesSpec, AttachedStays

\* Objects outlive their rows only where S3 did not delete them or where a
\* confirmation refused them: what the sweep marks, it has cleared.
THEOREM ObjectsAreCollected == FilesSpec => NothingLeftBehind
  <1>1. ASSUME FilesInv, [FilesNext]_fileVars, NEW f \in LeftBehind' \ LeftBehind
        PROVE  RefuseMismatch(f) \/ S3Fails(f) \/ (MarkOrphans /\ f \in sweep.failed)
    <2>1. f \in Files /\ fileStatus'[f] = "deleted" /\ f \notin deletes' /\ object'[f] # "absent"
      BY <1>1 DEF LeftBehind
    <2>2. fileStatus[f] # "deleted" \/ f \in deletes \/ object[f] = "absent"
      BY <1>1 DEF LeftBehind
    <2>3. /\ fileStatus \in [Files -> {"none", "pending", "completed", "deleted"}]
          /\ object \in [Files -> {"absent", "good", "bad"}]
      BY <1>1 DEF FilesInv, FilesTypeOK
    <2>4. ASSUME fileStatus'[f] = fileStatus[f], deletes' = deletes, object'[f] = object[f] PROVE FALSE
      BY <2>1, <2>2, <2>4
    <2>5. ASSUME NEW g \in Files, PresignUpload(g) PROVE FALSE
      BY <2>1, <2>3, <2>4, <2>5 DEF PresignUpload
    <2>6. ASSUME NEW g \in Files, RefuseMismatch(g) PROVE g = f
      BY <2>1, <2>3, <2>4, <2>6 DEF RefuseMismatch
    <2>7. ASSUME NEW g \in Files, S3Fails(g) PROVE g = f
      BY <2>1, <2>2, <2>7 DEF S3Fails
    <2>8. ASSUME NEW g \in Files, S3Deletes(g) PROVE FALSE
      BY <2>1, <2>2, <2>3, <2>8 DEF S3Deletes
    <2>9. ASSUME NEW g \in Files, NEW what \in {"good", "bad"}, Put(g, what) PROVE FALSE
      BY <2>1, <2>3, <2>4, <2>9 DEF Put
    <2>10. ASSUME MarkOrphans PROVE f \in sweep.failed
      <3>1. /\ object' = object /\ deletes' = deletes /\ sweep.at = "cleared"
            /\ fileStatus'[f] = IF f \in Purgeable THEN "deleted" ELSE fileStatus[f]
        BY <2>1, <2>10 DEF MarkOrphans
      <3>2. fileStatus[f] = "pending" /\ f \in sweep.files
        BY <2>4, <3>1 DEF Purgeable, Pending
      <3>  QED  BY <1>1, <2>1, <3>1, <3>2 DEF FilesInv, SweepSound
    <2>11. ASSUME NEW gone \in SUBSET Files, ClearOrphans(gone) PROVE FALSE
      <3>1. /\ fileStatus' = fileStatus /\ deletes' = deletes
            /\ object'[f] = IF f \in gone THEN "absent" ELSE object[f]
        BY <2>1, <2>11 DEF ClearOrphans
      <3>  QED  BY <2>1, <2>4, <3>1
    <2>12. ASSUME NEW k \in Callers, CallStep(k) PROVE FALSE
      <3>1. CASE CompleteUpload(k)  BY <2>1, <2>3, <2>4, <3>1 DEF CompleteUpload
      <3>2. CASE FindsNoRoom(k) \/ DeleteUnlinked(k)
        <4>1. DeleteFile(call[k].file) /\ object' = object  BY <3>2 DEF FindsNoRoom, DeleteUnlinked
        <4>  QED  BY <2>1, <2>2, <2>3, <4>1 DEF DeleteFile
      <3>3. CASE FindsRoom(k) \/ Link(k)  BY <2>4, <3>3 DEF FindsRoom, Link
      <3>4. ASSUME NEW g \in Files, VerifyUpload(k, g) \/ Unlink(k, g) PROVE FALSE
        BY <2>4, <3>4 DEF VerifyUpload, Unlink
      <3>  QED  BY <2>12, <3>1, <3>2, <3>3, <3>4 DEF CallStep
    <2>13. ASSUME SelectOrphans \/ SweepDies \/ DayPasses \/ UNCHANGED fileVars PROVE FALSE
      BY <2>4, <2>13 DEF SelectOrphans, SweepDies, DayPasses, fileVars
    <2>  QED
      BY <1>1, <2>5, <2>6, <2>7, <2>8, <2>9, <2>10, <2>11, <2>12, <2>13 DEF FilesNext
  <1>2. FilesInv /\ [FilesNext]_fileVars =>
            [\A f \in LeftBehind' \ LeftBehind :
                \/ RefuseMismatch(f)
                \/ S3Fails(f)
                \/ MarkOrphans /\ f \in sweep.failed]_fileVars
    BY <1>1
  <1>  QED  BY <1>2, FilesInvariance, PTL DEF FilesSpec, NothingLeftBehind

=============================================================================
