---------------------------- MODULE BulkEnrollment ----------------------------
(***************************************************************************)
(* One bulk archive (BulkEnrollmentService.enroll_from_zip): every row is  *)
(* prepared, a problem in any of them rejects the batch, and otherwise the *)
(* rows are enrolled one after the other, each in commits and file         *)
(* operations of its own.  Each row is for another student and stages one  *)
(* file.  Meanwhile the single-sample endpoints serve the same students:   *)
(* what their uploads, replacements and deletions do to the batch's own    *)
(* row and file is taken apart here, what they do to samples of their own  *)
(* in BiometricEnrollment.                                                 *)
(***************************************************************************)
EXTENDS Naturals, Sequences, FiniteSets

CONSTANTS
    Rows,       \* the students of the archive's rows, in order, each once
    BulkFaults,     \* which failures may happen: "db", "io", "lost_ack", "crash"
    MaxDeletions    \* bound: deletions under way at once, one for a student

RowStudents == {Rows[i] : i \in DOMAIN Rows}

VARIABLES
    enrollment, \* status of the enrollment row of each student
    sample,     \* status of the row the batch inserted for each student
    rival,      \* students with an ACTIVE sample uploaded elsewhere
    staged,     \* students whose file of this batch is in the staging zone
    stored,     \* students whose file of this batch is in the active zone
    archive,    \* the uploaded archive is in the bulk staging zone
    batch,      \* the request: [pc, at, valid, found]
    report,     \* outcome reported for each row: "none", "enrolled", "failed"
    trail,      \* outcome of the batch in the audit trail
    spoiled,    \* students whose clean-up failed, or commit was not acknowledged
    removal,    \* the deletion elsewhere of each student: [pc, saw]
    overtaken   \* history: students whose row was activated under a deletion that had
                \* read it PENDING

database == <<enrollment, sample, rival>>
files    == <<staged, stored, archive>>
answer   == <<report, trail, spoiled>>
elsewhere == <<removal, overtaken>>
bulkVars     == <<enrollment, sample, rival, staged, stored, archive, batch, report, trail,
              spoiled, removal, overtaken>>

\* The status of the batch's row: REPLACEMENT_PENDING, DELETION_PENDING and QUARANTINED
\* are "retiring".
RowStatuses == {"absent", "pending", "active", "retiring", "deleted"}

NoRemoval == [pc |-> "none", saw |-> "absent"]

BulkPoints == {"idle", "archive", "prepare", "enroll", "insert", "promote", "drop_row",
           "activate", "undo_file", "undo_row", "rejected", "executed", "broken"}

BulkInit ==
    /\ enrollment \in [RowStudents -> {"absent", "active", "deletion_pending", "deleted"}]
    /\ rival \in SUBSET {s \in RowStudents : enrollment[s] = "active"}
    /\ sample = [s \in RowStudents |-> "absent"]
    /\ staged = {} /\ stored = {} /\ archive = FALSE
    /\ batch = [pc |-> "idle", at |-> 0, valid |-> TRUE, found |-> {}]
    /\ report = [s \in RowStudents |-> "none"] /\ trail = "none" /\ spoiled = {}
    /\ removal = [s \in RowStudents |-> NoRemoval] /\ overtaken = {}

CurrentStudent == Rows[batch.at]

NextPoint(pc) == batch' = [batch EXCEPT !.pc = pc]

Reported(outcome) == report' = [report EXCEPT ![CurrentStudent] = outcome]

(***************************************************************************)
(* Validation phase.                                                       *)
(***************************************************************************)
ReceiveArchive ==
    /\ batch.pc = "idle" /\ archive' = TRUE /\ NextPoint("archive")
    /\ UNCHANGED <<database, staged, stored, answer, elsewhere>>

\* The audit row is written when the database lets it.
Audit(outcome) ==
    \/ trail' = outcome
    \/ "db" \in BulkFaults /\ UNCHANGED trail

CheckArchive ==
    /\ batch.pc = "archive"
    /\ \/ /\ batch' = [pc |-> "prepare", at |-> 1, valid |-> TRUE, found |-> {}]
          /\ UNCHANGED <<files, answer>>
       \/ /\ NextPoint("broken") /\ Audit("blocked") /\ archive' = FALSE
          /\ UNCHANGED <<staged, stored, report, spoiled>>
    /\ UNCHANGED <<database, elsewhere>>

\* Every row is looked at, whatever was wrong with those before it.
RowDone(valid, found) ==
    batch' = [pc |-> "prepare", at |-> batch.at + 1, valid |-> (batch.valid /\ valid),
              found |-> batch.found \cup found]

\* The student may be missing or inactive, the member unreadable, the image
\* invalid or a duplicate: any row may have a problem, and its file is discarded.
PrepareRow ==
    /\ batch.pc = "prepare" /\ batch.at <= Len(Rows)
    /\ \/ RowDone(FALSE, {}) /\ UNCHANGED staged
       \/ /\ enrollment[CurrentStudent] # "deletion_pending" /\ CurrentStudent \notin rival
          /\ staged' = staged \cup {CurrentStudent}
          /\ RowDone(TRUE, IF enrollment[CurrentStudent] = "absent" THEN {} ELSE {CurrentStudent})
    /\ UNCHANGED <<database, stored, archive, answer, elsewhere>>

RejectArchive ==
    /\ batch.pc = "prepare" /\ batch.at > Len(Rows) /\ ~batch.valid
    /\ Audit("blocked") /\ staged' = {} /\ archive' = FALSE
    /\ report' = [s \in RowStudents |-> "failed"]
    /\ NextPoint("rejected")
    /\ UNCHANGED <<database, stored, spoiled, elsewhere>>

NextRow(n) ==
    [pc |-> IF n > Len(Rows) THEN "executed"
            ELSE IF Rows[n] \in batch.found THEN "insert" ELSE "enroll",
     at |-> n, valid |-> batch.valid, found |-> batch.found]

Accept ==
    /\ batch.pc = "prepare" /\ batch.at > Len(Rows) /\ batch.valid
    /\ batch' = NextRow(1)
    /\ UNCHANGED <<database, files, answer, elsewhere>>

(***************************************************************************)
(* Execution phase.                                                        *)
(***************************************************************************)
\* An exception ends the row: its staged file is discarded, the next row follows.
RowFailed ==
    /\ staged' = staged \ {CurrentStudent} /\ Reported("failed") /\ batch' = NextRow(batch.at + 1)

CreateEnrollment ==
    /\ batch.pc = "enroll"
    /\ IF enrollment[CurrentStudent] = "absent"
       THEN /\ enrollment' = [enrollment EXCEPT ![CurrentStudent] = "pending"]
            /\ NextPoint("insert") /\ UNCHANGED <<staged, report>>
       ELSE RowFailed /\ UNCHANGED enrollment
    /\ UNCHANGED <<sample, rival, stored, archive, trail, spoiled, elsewhere>>

\* Fails on the unique index over live samples with the same content.
InsertRow ==
    /\ batch.pc = "insert"
    /\ \/ /\ sample' = [sample EXCEPT ![CurrentStudent] = "pending"]
          /\ NextPoint("promote") /\ UNCHANGED <<staged, report>>
       \/ CurrentStudent \in rival /\ RowFailed /\ UNCHANGED sample
    /\ UNCHANGED <<enrollment, rival, stored, archive, trail, spoiled, elsewhere>>

\* Fails when a deletion has discarded the staged file.
Promote ==
    /\ batch.pc = "promote"
    /\ IF CurrentStudent \in staged
       THEN staged' = staged \ {CurrentStudent} /\ stored' = stored \cup {CurrentStudent} /\ NextPoint("activate")
       ELSE NextPoint("drop_row") /\ UNCHANGED <<staged, stored>>
    /\ UNCHANGED <<database, archive, answer, elsewhere>>

DropRow ==
    /\ batch.pc = "drop_row"
    /\ sample' = [sample EXCEPT ![CurrentStudent] = "absent"]
    /\ RowFailed
    /\ UNCHANGED <<enrollment, rival, stored, archive, trail, spoiled, elsewhere>>

\* The row becomes ACTIVE, also when a deletion that has read it PENDING is under way.
Activated ==
    /\ sample' = [sample EXCEPT ![CurrentStudent] = "active"]
    /\ enrollment' = [enrollment EXCEPT ![CurrentStudent] = "active"]
    /\ overtaken' = IF removal[CurrentStudent].saw = "pending"
                    THEN overtaken \cup {CurrentStudent} ELSE overtaken

\* The index on ACTIVE samples refuses a second one; the UPDATE of a row that a
\* deletion has dropped matches nothing and is an error.
ActivationRefused == CurrentStudent \in rival \/ sample[CurrentStudent] = "absent"

ActivateRow ==
    /\ batch.pc = "activate"
    /\ \/ ActivationRefused /\ NextPoint("undo_file") /\ UNCHANGED <<enrollment, sample, overtaken, report>>
       \/ ~ActivationRefused /\ Activated /\ Reported("enrolled") /\ batch' = NextRow(batch.at + 1)
    /\ UNCHANGED <<rival, files, trail, spoiled, removal>>

\* The promoted file is moved to quarantine and purged.
UndoFile ==
    /\ batch.pc = "undo_file"
    /\ stored' = stored \ {CurrentStudent} /\ NextPoint("undo_row")
    /\ UNCHANGED <<database, staged, archive, answer, elsewhere>>

\* Mutant: the row of a failed activation is left PENDING.
UndoNothing ==
    /\ batch.pc = "undo_row" /\ RowFailed
    /\ UNCHANGED <<database, stored, archive, trail, spoiled, elsewhere>>

\* The row is read again and removed if it is still PENDING.
UndoRow ==
    /\ batch.pc = "undo_row"
    /\ sample' = [sample EXCEPT ![CurrentStudent] = IF @ = "pending" THEN "absent" ELSE @]
    /\ RowFailed
    /\ UNCHANGED <<enrollment, rival, stored, archive, trail, spoiled, elsewhere>>

AllEnrolled == \A s \in RowStudents : report[s] = "enrolled"

Finish ==
    /\ batch.pc = "executed" /\ archive
    /\ Audit(IF AllEnrolled THEN "success" ELSE "blocked")
    /\ archive' = FALSE
    /\ UNCHANGED <<database, staged, stored, batch, report, spoiled, elsewhere>>

(***************************************************************************)
(* Failures.                                                               *)
(***************************************************************************)
\* The database fails a commit; an exception in the clean-up is logged and the
\* row is reported as failed all the same.
DatabaseError ==
    /\ "db" \in BulkFaults
    /\ CASE batch.pc \in {"enroll", "insert"} -> RowFailed /\ UNCHANGED spoiled
         [] batch.pc \in {"drop_row", "undo_row"} ->
                RowFailed /\ spoiled' = spoiled \cup {CurrentStudent}
         [] batch.pc = "activate" -> NextPoint("undo_file") /\ UNCHANGED <<staged, report, spoiled>>
         [] OTHER -> FALSE
    /\ UNCHANGED <<database, stored, archive, trail, elsewhere>>

\* Mutant: a rename that fails is taken for done.
FileErrorIgnored ==
    /\ "io" \in BulkFaults
    /\ \/ batch.pc = "promote" /\ NextPoint("activate") /\ UNCHANGED <<staged, report, spoiled>>
       \/ batch.pc = "undo_file" /\ RowFailed /\ spoiled' = spoiled \cup {CurrentStudent}
    /\ UNCHANGED <<database, stored, archive, trail, elsewhere>>

FileError ==
    /\ "io" \in BulkFaults
    /\ \/ batch.pc = "promote" /\ NextPoint("drop_row") /\ UNCHANGED <<staged, report, spoiled>>
       \/ batch.pc = "undo_file" /\ RowFailed /\ spoiled' = spoiled \cup {CurrentStudent}
    /\ UNCHANGED <<database, stored, archive, trail, elsewhere>>

\* A commit takes place and its acknowledgement is lost, which the batch takes for a
\* failure.  (In the clean-up the row is dropped and reported as failed either way.)
LostAcknowledgement ==
    /\ "lost_ack" \in BulkFaults
    /\ \/ /\ batch.pc = "enroll" /\ enrollment[CurrentStudent] = "absent"
          /\ enrollment' = [enrollment EXCEPT ![CurrentStudent] = "pending"]
          /\ RowFailed /\ UNCHANGED <<sample, spoiled, overtaken>>
       \/ /\ batch.pc = "insert"
          /\ sample' = [sample EXCEPT ![CurrentStudent] = "pending"]
          /\ RowFailed /\ spoiled' = spoiled \cup {CurrentStudent}
          /\ UNCHANGED <<enrollment, overtaken>>
       \/ /\ batch.pc = "activate" /\ ~ActivationRefused /\ Activated
          /\ NextPoint("undo_file") /\ spoiled' = spoiled \cup {CurrentStudent}
          /\ UNCHANGED <<staged, report>>
    /\ UNCHANGED <<rival, stored, archive, trail, removal>>

\* An unexpected error in the validation phase, or the process is lost before it has
\* answered: only an error removes the archive.
Break ==
    /\ \/ "crash" \in BulkFaults /\ archive /\ batch.pc # "broken" /\ UNCHANGED archive
       \/ BulkFaults \cap {"db", "io"} # {} /\ batch.pc = "prepare" /\ archive' = FALSE
    /\ NextPoint("broken") /\ spoiled' = RowStudents
    /\ UNCHANGED <<database, staged, stored, report, trail, elsewhere>>

(***************************************************************************)
(* The single-sample endpoints, for the same students.                     *)
(***************************************************************************)
\* create_sample, or replace_sample when the batch's sample is the ACTIVE one; the
\* status of the enrollment was looked at some time before.
UploadElsewhere(s) ==
    /\ s \notin rival
    /\ enrollment' = [enrollment EXCEPT ![s] = "active"] /\ rival' = rival \cup {s}
    /\ sample' = [sample EXCEPT ![s] = IF @ = "active" THEN "retiring" ELSE @]
    /\ UNCHANGED <<files, batch, answer, elsewhere>>

\* A replaced or deleted row loses its file before it is closed; each step may be
\* the last one its request takes.
RemoveRetiredFile(s) ==
    /\ sample[s] = "retiring" /\ s \in stored /\ stored' = stored \ {s}
    /\ UNCHANGED <<database, staged, archive, batch, answer, elsewhere>>

CloseRetiredRow(s) ==
    /\ sample[s] = "retiring" /\ s \notin stored
    /\ sample' = [sample EXCEPT ![s] = "deleted"]
    /\ UNCHANGED <<enrollment, rival, files, batch, answer, elsewhere>>

RemovalGoesOn(s, pc) == removal' = [removal EXCEPT ![s].pc = pc]

SampleDrained(s) == removal' = [removal EXCEPT ![s] = [pc |-> "drained", saw |-> "absent"]]

Live(s) == sample[s] \notin {"absent", "deleted"} \/ s \in rival

\* _advance_deletion: what it does to a row is decided by the status it reads first.
ReadForDeletion(s) ==
    /\ removal[s] = NoRemoval
    /\ Cardinality({x \in RowStudents : removal[x] # NoRemoval}) < MaxDeletions
    /\ enrollment[s] # "absent" /\ (enrollment[s] = "deleted" => Live(s))
    /\ removal' = [removal EXCEPT ![s] =
          [pc |-> IF enrollment[s] = "deletion_pending" THEN "marked" ELSE "read", saw |-> sample[s]]]
    /\ UNCHANGED <<database, files, batch, answer, overtaken>>

MarkDeletion(s) ==
    /\ removal[s].pc = "read" /\ RemovalGoesOn(s, "marked")
    /\ enrollment' = [enrollment EXCEPT ![s] = "deletion_pending"]
    /\ UNCHANGED <<sample, rival, files, batch, answer, overtaken>>

\* A row read PENDING: its staged file is discarded, then the row is dropped,
\* whatever it has become.
DiscardStaged(s) ==
    /\ removal[s] = [pc |-> "marked", saw |-> "pending"] /\ RemovalGoesOn(s, "discarded")
    /\ staged' = staged \ {s}
    /\ UNCHANGED <<database, stored, archive, batch, answer, overtaken>>

DropElsewhere(s) ==
    /\ removal[s].pc = "discarded" /\ SampleDrained(s)
    /\ sample' = [sample EXCEPT ![s] = "absent"]
    /\ UNCHANGED <<enrollment, rival, files, batch, answer, overtaken>>

\* A row read ACTIVE or in retirement is retired, if it is still a row; the samples
\* uploaded elsewhere are, if they were read.
RetireElsewhere(s) ==
    /\ removal[s].pc = "marked" /\ removal[s].saw # "pending" /\ SampleDrained(s)
    /\ sample' = [sample EXCEPT ![s] =
          IF removal[s].saw \in {"active", "retiring"} /\ @ # "absent" THEN "retiring" ELSE @]
    /\ rival' \in {rival, rival \ {s}}
    /\ UNCHANGED <<enrollment, files, batch, answer, overtaken>>

\* Nothing asks for the status of an enrollment between this look at the samples and
\* the commit.
CloseDeletion(s) ==
    /\ removal[s].pc = "drained" /\ removal' = [removal EXCEPT ![s] = NoRemoval]
    /\ enrollment' = [enrollment EXCEPT ![s] = IF Live(s) THEN @ ELSE "deleted"]
    /\ UNCHANGED <<sample, rival, files, batch, answer, overtaken>>

\* An error or a crash ends the deletion where it is; it may be asked for again.
DeletionFails(s) ==
    /\ BulkFaults # {} /\ removal[s] # NoRemoval
    /\ removal' = [removal EXCEPT ![s] = NoRemoval]
    /\ UNCHANGED <<database, files, batch, answer, overtaken>>

Elsewhere(s) ==
    \/ UploadElsewhere(s) \/ RemoveRetiredFile(s) \/ CloseRetiredRow(s)
    \/ ReadForDeletion(s) \/ MarkDeletion(s) \/ DiscardStaged(s) \/ DropElsewhere(s)
    \/ RetireElsewhere(s) \/ CloseDeletion(s) \/ DeletionFails(s)

BatchNext ==
    \/ ReceiveArchive \/ CheckArchive \/ PrepareRow \/ RejectArchive \/ Accept
    \/ CreateEnrollment \/ InsertRow \/ Promote \/ DropRow \/ ActivateRow
    \/ UndoFile \/ UndoRow \/ Finish
    \/ DatabaseError \/ FileError \/ LostAcknowledgement \/ Break

BulkNext == BatchNext \/ \E s \in RowStudents : Elsewhere(s)

BulkSpec == BulkInit /\ [][BulkNext]_bulkVars

(***************************************************************************)
(* Properties.                                                             *)
(***************************************************************************)
\* A row reported as enrolled has its ACTIVE row and its file until a replacement or a
\* deletion retires it, and a row that is closed has lost its file.  It is lost without
\* a trace only to a deletion that had read it PENDING before the batch activated it.
\* A batch audited as a success enrolled every row.
ReportHolds ==
    /\ \A s \in RowStudents : report[s] = "enrolled" =>
          \/ sample[s] = "active" /\ s \in stored
          \/ sample[s] = "retiring"
          \/ sample[s] = "deleted" /\ s \notin stored
          \/ sample[s] = "absent" /\ s \in overtaken
    /\ trail = "success" => AllEnrolled

\* What the answer calls failed has left nothing behind.  A rejected batch has
\* created no row and left no file, whatever the order and number of its invalid
\* rows; a row that failed later leaves neither a row nor a file, whichever steps of
\* an upload or a deletion of the same student came between its own.  The exception
\* is a row whose clean-up itself failed, or whose INSERT or activation was committed
\* without the batch being told.
FailureLeavesNothing ==
    /\ \A s \in RowStudents \ spoiled : report[s] = "failed" =>
          sample[s] = "absent" /\ s \notin staged \cup stored
    /\ batch.pc = "rejected" => ~archive /\ \A s \in RowStudents : sample[s] = "absent"
=============================================================================
