------------------------- MODULE BiometricEnrollment -------------------------
(***************************************************************************)
(* The biometric sample lifecycle of one student: the enrollment row, the  *)
(* sample rows, the three zones of the private file store and the requests *)
(* that work on them (BiometricEnrollmentService).  A SQL transaction      *)
(* cannot roll back a rename, so every request is a sequence of separate   *)
(* commits and file operations; each of them is one step here, and other   *)
(* requests, failures and crashes may come between any two.  A sample row  *)
(* is identified with the storage key it holds (both are fresh uuid4s).    *)
(***************************************************************************)
EXTENDS Naturals, FiniteSets

CONSTANTS
    Requests,    \* request slots: how many requests can be in flight at once
    Keys,        \* storage keys; a finite set bounds the number of uploads
    Contents,    \* the distinct images (sha256 values) an upload can carry
    Operations,  \* which endpoints are exercised
    Faults,      \* which failures the environment may inject
    None         \* no sample

ASSUME OperationsAssumption == Operations \subseteq {"create", "replace", "delete"}
ASSUME FaultsAssumption == Faults \subseteq {"crash", "db", "io", "lost_ack"}
ASSUME NoneAssumption == None \notin Keys /\ None \notin Contents
ASSUME KeysAssumption == IsFiniteSet(Keys)

VARIABLES
    enrollment,  \* status of the student's enrollment row
    status,      \* status of the sample row of each key
    content,     \* what the file written under each key contains
    created,     \* insertion order of the sample rows (created_at)
    staging,     \* keys with a file in the staging zone
    active,      \* keys with a file in the active zone
    quarantine,  \* keys with a file in the quarantine zone
    req          \* what each request slot is doing

rows  == <<enrollment, status>>
files == <<staging, active, quarantine>>
vars  == <<enrollment, status, content, created, staging, active, quarantine, req>>

(***************************************************************************)
(* Values.  "absent" stands for "there is no such row".                    *)
(***************************************************************************)
EnrollmentStatus == {"pending", "active", "deletion_pending", "deleted"}

SampleStatus == {"pending", "active", "replacement_pending", "deletion_pending",
                 "quarantined", "deleted"}

RowStatus == SampleStatus \cup {"absent"}

\* Program points, named after the step the request takes next.
UploadPoints == {"insert_enrollment", "read_active", "stage", "validate", "insert_row",
                 "promote", "activate", "undo_quarantine", "undo_purge", "undo_row"}
RemovalPoints == {"mark_deletion_pending", "quarantine", "mark_quarantined", "purge",
                  "mark_deleted"}
DeletionPoints == {"list_live", "request_deletion", "discard", "recheck", "finalize"}

Points == UploadPoints \cup RemovalPoints \cup DeletionPoints \cup {"idle", "drop_row"}

Nothing == [k \in Keys |-> "absent"]

Idle == [op |-> "none", pc |-> "idle", seen |-> "absent", sample |-> None,
         old |-> None, todo |-> Nothing]

Init ==
    /\ enrollment = "absent"
    /\ status = Nothing
    /\ content = [k \in Keys |-> None]
    /\ created = [k \in Keys |-> 0]
    /\ staging = {} /\ active = {} /\ quarantine = {}
    /\ req = [r \in Requests |-> Idle]

(***************************************************************************)
(* State formulae.                                                         *)
(***************************************************************************)
Live(s, k) == s[k] \notin {"absent", "deleted"}

AnyLive == \E k \in Keys : Live(status, k)

\* The partial unique indexes of the sample table, on the rows a statement leaves.
OneActive(s) == \A j, k \in Keys : s[j] = "active" /\ s[k] = "active" => j = k

UniqueContent(s) ==
    \A j, k \in Keys : Live(s, j) /\ Live(s, k) /\ content[j] = content[k] => j = k

\* Mutant: the table lacks the index on ACTIVE samples.
UpdatesWithoutActiveIndex(ks, s) == (\A k \in ks : status[k] # "absent") /\ UniqueContent(s)

\* An UPDATE of the rows in ks that leaves s: the ORM refuses one that finds
\* its row gone, the database one that breaks a unique index.
Updates(ks, s) == (\A k \in ks : status[k] # "absent") /\ OneActive(s) /\ UniqueContent(s)

At(r, op, pc) == req[r].op = op /\ req[r].pc = pc

(***************************************************************************)
(* What a request does next.                                               *)
(***************************************************************************)
Goto(r, pc) == req' = [req EXCEPT ![r].pc = pc]

Finish(r) == req' = [req EXCEPT ![r] = Idle]

\* Mutants: the dispatch has no branch for ACTIVE and REPLACEMENT_PENDING rows; it
\* restarts a QUARANTINED sample.
FirstStepFallingThrough(s) == CASE s = "pending"          -> "discard"
                                [] s = "deletion_pending" -> "quarantine"
                                [] s = "quarantined"      -> "purge"
                                [] OTHER                  -> s

FirstStepRestarting(s) == IF s = "pending" THEN "discard" ELSE "mark_deletion_pending"

FirstStep(s) == CASE s = "pending"          -> "discard"
                  [] s = "deletion_pending" -> "quarantine"
                  [] s = "quarantined"      -> "purge"
                  [] OTHER                  -> "mark_deletion_pending"

Oldest(K) == {k \in K : \A j \in K : created[k] <= created[j]}

\* Mutant: only the ACTIVE sample of the snapshot is drained before the enrollment is closed.
NextSampleActiveOnly(r, t) ==
    LET left == {k \in Keys : t[k] = "active"}
    IN  \/ left = {} /\ Goto(r, "finalize")
        \/ \E k \in Oldest(left) :
              req' = [req EXCEPT ![r] = [@ EXCEPT !.todo = t, !.sample = k,
                                                  !.pc = FirstStep(t[k])]]

\* The deletion loop turns to the oldest row left in its snapshot t.
NextSample(r, t) ==
    LET left == {k \in Keys : t[k] # "absent"}
    IN  \/ /\ left = {}
           /\ req' = [req EXCEPT ![r] = [@ EXCEPT !.todo = t, !.sample = None,
                                                  !.pc = "recheck"]]
        \/ \E k \in Oldest(left) :
              req' = [req EXCEPT ![r] = [@ EXCEPT !.todo = t, !.sample = k,
                                                  !.pc = FirstStep(t[k])]]

\* A removed sample ends an upload's own clean-up, but only one turn of the deletion loop.
SampleDone(r) ==
    IF req[r].op = "delete"
    THEN NextSample(r, [req[r].todo EXCEPT ![req[r].sample] = "absent"])
    ELSE Finish(r)

\* discard_staged is best effort: an unlink error is logged and swallowed.
DiscardStaged(k) ==
    /\ \/ staging' = staging \ {k}
       \/ "io" \in Faults /\ staging' = staging
    /\ UNCHANGED <<active, quarantine>>

\* Mutant: a failed activation is not compensated.
OnErrorUncompensated(r) ==
    CASE req[r].pc = "insert_row" -> DiscardStaged(req[r].sample) /\ Finish(r)
      [] req[r].pc = "promote"    -> Goto(r, "drop_row") /\ UNCHANGED files
      [] OTHER                    -> Finish(r) /\ UNCHANGED files

\* Where an exception at the request's current step leads.
OnError(r) ==
    CASE req[r].pc = "insert_row" -> DiscardStaged(req[r].sample) /\ Finish(r)
      [] req[r].pc = "promote"    -> Goto(r, "drop_row") /\ UNCHANGED files
      [] req[r].pc = "activate"   -> Goto(r, "undo_quarantine") /\ UNCHANGED files
      [] OTHER                    -> Finish(r) /\ UNCHANGED files

\* One service_transaction that would leave the sample rows s and the
\* enrollment row e.  The error path is taken when a constraint refuses it and,
\* with "lost_ack", when it committed but its acknowledgement was lost.
Transaction(r, allowed, s, e, then) ==
    \/ /\ allowed
       /\ status' = s /\ enrollment' = e
       /\ then /\ UNCHANGED files
    \/ /\ ~allowed
       /\ UNCHANGED rows
       /\ OnError(r)
    \/ /\ allowed /\ "lost_ack" \in Faults
       /\ status' = s /\ enrollment' = e
       /\ OnError(r)

(***************************************************************************)
(* create_sample and replace_sample: read, stage, validate, persist a      *)
(* PENDING row, promote the file, activate the row.                        *)
(***************************************************************************)
\* A refused request changes nothing and is not a step.
StartCreate(r) ==
    /\ "create" \in Operations /\ req[r].pc = "idle"
    /\ enrollment # "deletion_pending"
    /\ req' = [req EXCEPT ![r] =
         [Idle EXCEPT !.op = "create", !.seen = enrollment,
                      !.pc = IF enrollment = "absent" THEN "insert_enrollment"
                                                      ELSE "read_active"]]
    /\ UNCHANGED <<rows, files, content, created>>

StartReplace(r) ==
    /\ "replace" \in Operations /\ req[r].pc = "idle"
    /\ enrollment \notin {"absent", "deletion_pending"}
    /\ req' = [req EXCEPT ![r] = [Idle EXCEPT !.op = "replace", !.seen = enrollment,
                                              !.pc = "read_active"]]
    /\ UNCHANGED <<rows, files, content, created>>

\* The student's enrollment row is unique: the slower of two first uploads fails.
InsertEnrollment(r) ==
    /\ req[r].pc = "insert_enrollment"
    /\ Transaction(r, enrollment = "absent", status, "pending",
                   req' = [req EXCEPT ![r] = [@ EXCEPT !.pc = "read_active", !.seen = "pending"]])
    /\ UNCHANGED <<content, created>>

ReadActive(r) ==
    /\ req[r].pc = "read_active"
    /\ LET current == {k \in Keys : status[k] = "active"}
       IN  \/ /\ req[r].op = "create" /\ current = {}
              /\ Goto(r, "stage")
           \/ /\ req[r].op = "replace"
              /\ \E k \in current :
                    req' = [req EXCEPT ![r] = [@ EXCEPT !.old = k, !.pc = "stage"]]
           \/ /\ (req[r].op = "create") # (current = {})
              /\ Finish(r)
    /\ UNCHANGED <<rows, files, content, created>>

\* A fresh key each time; the file appears under it while the body streams in.
WriteStaged(r) ==
    /\ req[r].pc = "stage"
    /\ \E k \in Keys, c \in Contents :
          /\ content[k] = None
          /\ content' = [content EXCEPT ![k] = c]
          /\ staging' = staging \cup {k}
          /\ req' = [req EXCEPT ![r] = [@ EXCEPT !.sample = k, !.pc = "validate"]]
    /\ UNCHANGED <<rows, active, quarantine, created>>

\* The body is too large or breaks off: write_staged removes what it wrote.
AbortWrite(r) ==
    /\ req[r].pc = "stage"
    /\ Finish(r)
    /\ UNCHANGED <<rows, files, content, created>>

Validate(r) ==
    /\ req[r].pc = "validate"
    /\ \/ Goto(r, "insert_row") /\ UNCHANGED files
       \/ DiscardStaged(req[r].sample) /\ Finish(r)
    /\ UNCHANGED <<rows, content, created>>

NextStamp == 1 + Cardinality({k \in Keys : created[k] # 0})

\* Mutant: the row is activated before its file is promoted.
InsertRowActivating(r) ==
    /\ req[r].pc = "insert_row"
    /\ LET k == req[r].sample
           s == [status EXCEPT ![k] = "pending"]
       IN  /\ Transaction(r, UniqueContent(s), s, enrollment, Goto(r, "activate"))
           /\ created' = [created EXCEPT ![k] = IF status' = status THEN @ ELSE NextStamp]
    /\ UNCHANGED content

\* The duplicate check and the insert: the index refuses what the check missed.
InsertRow(r) ==
    /\ req[r].pc = "insert_row"
    /\ LET k == req[r].sample
           s == [status EXCEPT ![k] = "pending"]
       IN  /\ Transaction(r, UniqueContent(s), s, enrollment, Goto(r, "promote"))
           /\ created' = [created EXCEPT ![k] = IF status' = status THEN @ ELSE NextStamp]
    /\ UNCHANGED content

\* os.replace fails when the staged file is gone.
Promote(r) ==
    /\ req[r].pc = "promote"
    /\ LET k == req[r].sample
       IN  \/ /\ k \in staging
              /\ staging' = staging \ {k} /\ active' = active \cup {k}
              /\ Goto(r, "activate") /\ UNCHANGED quarantine
           \/ k \notin staging /\ OnError(r)
    /\ UNCHANGED <<rows, content, created>>

\* The status flip of the enrollment is an UPDATE only if it differs from the
\* value this request read.
ActivateCreated(r) ==
    /\ At(r, "create", "activate")
    /\ LET k == req[r].sample
           s == [status EXCEPT ![k] = "active"]
           e == IF req[r].seen = "active" THEN enrollment ELSE "active"
       IN  Transaction(r, Updates({k}, s), s, e, Finish(r))
    /\ UNCHANGED <<content, created>>

\* Mutant: the old sample leaves ACTIVE in a commit of its own.
ActivateReplacementOldOnly(r) ==
    /\ At(r, "replace", "activate")
    /\ LET o == req[r].old
           s == [status EXCEPT ![o] = "replacement_pending"]
       IN  Transaction(r, Updates({o}, s), s, enrollment,
                       req' = [req EXCEPT ![r] = [@ EXCEPT !.sample = o, !.pc = "quarantine"]])
    /\ UNCHANGED <<content, created>>

\* The old sample is flipped whatever its row says by now; its file is retired
\* after the commit.
ActivateReplacement(r) ==
    /\ At(r, "replace", "activate")
    /\ LET k == req[r].sample
           o == req[r].old
           s == [status EXCEPT ![o] = "replacement_pending", ![k] = "active"]
       IN  Transaction(r, Updates({k, o}, s), s, enrollment,
                       req' = [req EXCEPT ![r] = [@ EXCEPT !.sample = o, !.pc = "quarantine"]])
    /\ UNCHANGED <<content, created>>

(***************************************************************************)
(* Compensation.  drop_row follows a failed promote (and removes a PENDING *)
(* row during a deletion); undo_* follow a failed activation.              *)
(***************************************************************************)
DropRow(r) ==
    /\ req[r].pc = "drop_row"
    /\ Transaction(r, TRUE, [status EXCEPT ![req[r].sample] = "absent"], enrollment,
                   SampleDone(r))
    /\ UNCHANGED <<content, created>>

UndoQuarantine(r) ==
    /\ req[r].pc = "undo_quarantine"
    /\ LET k == req[r].sample
       IN  \/ /\ k \in active
              /\ active' = active \ {k} /\ quarantine' = quarantine \cup {k}
              /\ Goto(r, "undo_purge")
           \/ /\ k \notin active
              /\ Goto(r, "undo_row") /\ UNCHANGED <<active, quarantine>>
    /\ UNCHANGED <<rows, staging, content, created>>

UndoPurge(r) ==
    /\ req[r].pc = "undo_purge"
    /\ quarantine' = quarantine \ {req[r].sample}
    /\ Goto(r, "undo_row")
    /\ UNCHANGED <<rows, staging, active, content, created>>

\* The row is re-read and removed only while it is still PENDING.
UndoRow(r) ==
    /\ req[r].pc = "undo_row"
    /\ LET k == req[r].sample
           s == [status EXCEPT ![k] = IF @ = "pending" THEN "absent" ELSE @]
       IN  Transaction(r, TRUE, s, enrollment, Finish(r))
    /\ UNCHANGED <<content, created>>

(***************************************************************************)
(* request_deletion and finalize_deletion: one resumable state machine.    *)
(***************************************************************************)
\* Mutant: a deletion that was begun cannot be called again.
StartDeleteOnce(r) ==
    /\ "delete" \in Operations /\ req[r].pc = "idle"
    /\ enrollment \notin {"absent", "deletion_pending"}
    /\ req' = [req EXCEPT ![r] = [Idle EXCEPT !.op = "delete", !.seen = enrollment,
                                              !.pc = "list_live"]]
    /\ UNCHANGED <<rows, files, content, created>>

StartDelete(r) ==
    /\ "delete" \in Operations /\ req[r].pc = "idle"
    /\ enrollment # "absent"
    /\ req' = [req EXCEPT ![r] = [Idle EXCEPT !.op = "delete", !.seen = enrollment,
                                              !.pc = "list_live"]]
    /\ UNCHANGED <<rows, files, content, created>>

\* The loop works on the statuses read here, however long it takes.
ListLive(r) ==
    /\ req[r].pc = "list_live"
    /\ LET t == [k \in Keys |-> IF Live(status, k) THEN status[k] ELSE "absent"]
       IN  \/ /\ req[r].seen = "deleted" /\ ~AnyLive
              /\ Finish(r)
           \/ /\ ~(req[r].seen = "deleted" /\ ~AnyLive)
              /\ req[r].seen # "deletion_pending"
              /\ req' = [req EXCEPT ![r] = [@ EXCEPT !.todo = t, !.pc = "request_deletion"]]
           \/ /\ req[r].seen = "deletion_pending"
              /\ NextSample(r, t)
    /\ UNCHANGED <<rows, files, content, created>>

RequestDeletion(r) ==
    /\ req[r].pc = "request_deletion"
    /\ Transaction(r, TRUE, status, "deletion_pending", NextSample(r, req[r].todo))
    /\ UNCHANGED <<content, created>>

\* The branch for a sample whose snapshot says PENDING.
DiscardPending(r) ==
    /\ req[r].pc = "discard"
    /\ DiscardStaged(req[r].sample)
    /\ Goto(r, "drop_row")
    /\ UNCHANGED <<rows, content, created>>

MarkDeletionPending(r) ==
    /\ req[r].pc = "mark_deletion_pending"
    /\ LET k == req[r].sample
           s == [status EXCEPT ![k] = "deletion_pending"]
       IN  Transaction(r, Updates({k}, s), s, enrollment, Goto(r, "quarantine"))
    /\ UNCHANGED <<content, created>>

(***************************************************************************)
(* The removal of one sample, shared by deletion and by the retirement of  *)
(* a replaced sample.                                                      *)
(***************************************************************************)
Quarantine(r) ==
    /\ req[r].pc = "quarantine"
    /\ LET k == req[r].sample
       IN  \/ /\ k \in active
              /\ active' = active \ {k} /\ quarantine' = quarantine \cup {k}
           \/ k \notin active /\ UNCHANGED <<active, quarantine>>
    /\ Goto(r, "mark_quarantined")
    /\ UNCHANGED <<rows, staging, content, created>>

\* Mutant: the sample is closed without the purge.
MarkQuarantinedSkippingPurge(r) ==
    /\ req[r].pc = "mark_quarantined"
    /\ LET k == req[r].sample
           s == [status EXCEPT ![k] = "quarantined"]
       IN  Transaction(r, Updates({k}, s), s, enrollment, Goto(r, "mark_deleted"))
    /\ UNCHANGED <<content, created>>

MarkQuarantined(r) ==
    /\ req[r].pc = "mark_quarantined"
    /\ LET k == req[r].sample
           s == [status EXCEPT ![k] = "quarantined"]
       IN  Transaction(r, Updates({k}, s), s, enrollment, Goto(r, "purge"))
    /\ UNCHANGED <<content, created>>

\* Retryable: a file that is already gone is not an error.
Purge(r) ==
    /\ req[r].pc = "purge"
    /\ quarantine' = quarantine \ {req[r].sample}
    /\ Goto(r, "mark_deleted")
    /\ UNCHANGED <<rows, staging, active, content, created>>

MarkDeleted(r) ==
    /\ req[r].pc = "mark_deleted"
    /\ LET k == req[r].sample
           s == [status EXCEPT ![k] = "deleted"]
       IN  Transaction(r, Updates({k}, s), s, enrollment, SampleDone(r))
    /\ UNCHANGED <<content, created>>

\* Live rows left over keep the enrollment in DELETION_PENDING.
Recheck(r) ==
    /\ req[r].pc = "recheck"
    /\ IF AnyLive THEN Finish(r) ELSE Goto(r, "finalize")
    /\ UNCHANGED <<rows, files, content, created>>

Finalize(r) ==
    /\ req[r].pc = "finalize"
    /\ Transaction(r, TRUE, status, "deleted", Finish(r))
    /\ UNCHANGED <<content, created>>

(***************************************************************************)
(* Failures.                                                               *)
(***************************************************************************)
DatabasePoints == {"insert_enrollment", "read_active", "insert_row", "activate", "drop_row",
                   "undo_row", "list_live", "request_deletion", "mark_deletion_pending",
                   "mark_quarantined", "mark_deleted", "recheck", "finalize"}

FilePoints == {"promote", "undo_quarantine", "undo_purge", "quarantine", "purge"}

\* A read fails or a transaction rolls back.
DatabaseError(r) ==
    /\ "db" \in Faults /\ req[r].pc \in DatabasePoints
    /\ OnError(r)
    /\ UNCHANGED <<rows, content, created>>

\* A rename or an unlink fails.
FileError(r) ==
    /\ "io" \in Faults /\ req[r].pc \in FilePoints
    /\ OnError(r)
    /\ UNCHANGED <<rows, content, created>>

\* The process dies, or the request is cancelled: no exception handler runs.
Crash(r) ==
    /\ "crash" \in Faults /\ req[r].pc # "idle"
    /\ Finish(r)
    /\ UNCHANGED <<rows, files, content, created>>

(***************************************************************************)
(* The specification.                                                      *)
(***************************************************************************)
Start(r) == StartCreate(r) \/ StartReplace(r) \/ StartDelete(r)

UploadStep(r) ==
    \/ InsertEnrollment(r) \/ ReadActive(r) \/ WriteStaged(r) \/ AbortWrite(r)
    \/ Validate(r) \/ InsertRow(r) \/ Promote(r)
    \/ ActivateCreated(r) \/ ActivateReplacement(r)
    \/ UndoQuarantine(r) \/ UndoPurge(r) \/ UndoRow(r)

RemovalStep(r) ==
    \/ ListLive(r) \/ RequestDeletion(r) \/ DiscardPending(r) \/ DropRow(r)
    \/ MarkDeletionPending(r) \/ Quarantine(r) \/ MarkQuarantined(r)
    \/ Purge(r) \/ MarkDeleted(r) \/ Recheck(r) \/ Finalize(r)

Failure(r) == DatabaseError(r) \/ FileError(r) \/ Crash(r)

Next == \E r \in Requests : Start(r) \/ UploadStep(r) \/ RemovalStep(r) \/ Failure(r)

Spec == Init /\ [][Next]_vars

(***************************************************************************)
(* Properties.                                                             *)
(***************************************************************************)
Request == [op : {"none", "create", "replace", "delete"}, pc : Points,
            seen : EnrollmentStatus \cup {"absent"},
            sample : Keys \cup {None}, old : Keys \cup {None}, todo : [Keys -> RowStatus]]

\* Every variable has the shape the declarations above describe.
TypeOK ==
    /\ enrollment \in EnrollmentStatus \cup {"absent"}
    /\ status \in [Keys -> RowStatus]
    /\ content \in [Keys -> Contents \cup {None}]
    /\ created \in [Keys -> Nat]
    /\ staging \subseteq Keys /\ active \subseteq Keys /\ quarantine \subseteq Keys
    /\ req \in [Requests -> Request]

\* A row says ACTIVE only while its file is in the active zone: promotion comes
\* before the activation commit, and whoever moves the file away commits another
\* status first, also when requests on the student overlap, fail or die.
ActiveSampleHasFile == \A k \in Keys : status[k] = "active" => k \in active

\* A row says DELETED only after its file is gone from every zone, whichever of
\* several overlapping removals of the sample wrote it: the record is never
\* closed over an image that is still on disk.
DeletedSampleHasNoFile ==
    \A k \in Keys : status[k] = "deleted" => k \notin staging \cup active \cup quarantine

Rank(s) == CASE s = "absent" -> 0 [] s = "pending" -> 1 [] s = "active" -> 2
             [] s = "replacement_pending" -> 3 [] s = "deletion_pending" -> 4
             [] s = "quarantined" -> 5 [] s = "deleted" -> 6

\* delete_row is used on PENDING rows only; the history of a sample that was
\* ever ACTIVE is kept.
OnlyPendingRowsDropped ==
    [][\A k \in Keys : status[k] # "absent" /\ status'[k] = "absent"
                          => status[k] = "pending"]_vars

\* A sample never moves back along its lifecycle, and a row vanishes only while PENDING:
\* stale snapshots held by an upload that lost a race never revive a retired sample.
LifecycleForward ==
    [][\A k \in Keys : \/ Rank(status[k]) <= Rank(status'[k])
                       \/ status[k] = "pending" /\ status'[k] = "absent"]_vars

\* An enrollment is marked DELETED only when no sample of it is live.
DeletionDrains ==
    [][enrollment # "deleted" /\ enrollment' = "deleted" => ~AnyLive]_vars

\* ... and no promoted file of it is left in the active zone.
DeletionClearsActiveZone ==
    [][enrollment # "deleted" /\ enrollment' = "deleted" => active = {}]_vars

(***************************************************************************)
(* The abstract register: the image in force is the one the ACTIVE row     *)
(* stands for.                                                             *)
(***************************************************************************)
CurrentImage ==
    IF \E k \in Keys : status[k] = "active"
    THEN content[CHOOSE k \in Keys : status[k] = "active"]
    ELSE None

Register == INSTANCE EnrollmentRegister WITH phase <- enrollment, image <- CurrentImage

\* Every step of create, replace and delete is one atomic change of the register
\* or invisible in it: the student is never between two images, never served by
\* a half-finished upload, and loses the image only to a requested deletion.
ImplementsRegister == Register!Spec
=============================================================================
