# Shiksha Sathi: TLA+ models of the school attendance backend

Shiksha Sathi records school attendance, by hand or by face recognition. The program
modelled here is the FastAPI/SQLAlchemy/PostgreSQL backend under `src/backend_v2/app`
(`B` below) and the session client of the web frontend (`src/frontend/src`);
`src/backend` is the superseded Flask prototype. `PROJECT.json` maps every definition to
its source lines, lists the runs with their mutants, and names every hazard at its line.

## Inventory

The backend is a set of stateless async services. All shared state is in PostgreSQL, read
and written at READ COMMITTED through `service_transaction` (`B/db/transaction.py`), and in
a private directory tree for biometric images. Any number of requests run at once: one
event loop switches between them at every `await`, several server processes run side by
side, and ORM objects keep the values they were read with (`expire_on_commit=False`), so a
request acts on what it read earlier. Few statements lock rows.

| component | state | operations | what is hard | what makes it correct |
| --- | --- | --- | --- | --- |
| biometric enrollment (`biometric_enrollment/service.py`, `storage.py`, `repository.py`) | one enrollment row per student, sample rows, files in staging/active/quarantine | create, replace, request/finalize deletion | each request is a series of commits and renames without a common transaction; overlapping requests, stale snapshots, crashes, failed compensation, lost acknowledgements | rows and files agree; at most one image represents a student; deletion drains and finishes |
| reconciliation (`reconciliation.py`) | none, reads rows and directories | report | must know every leftover | no silent drift |
| bulk enrollment (`bulk_service.py`) | the same rows and files, archives | validate, import | many rows, each may fail; uploads and deletions of the same students meanwhile | a row fails alone and leaves nothing; the report is true, but for failures and stale deletions that are named |
| archive and image validation (`zip_security.py`, `image_validation.py`) | none | accept or refuse | limits checked on declared and on real sizes | what is accepted is bounded and has one member per row |
| auth sessions (`auth/service.py`, `repository.py`) | refresh sessions with lineage | login, refresh (rotation), logout, reuse detection | concurrent refreshes, logout against refresh, revocation by snapshot | a token is exchanged once; a closed family stays closed |
| attendance (`attendance/service.py`, `repository.py`) | attendance records, audit log | mark batch | authorization and membership read before the write; insert races; opposite lock orders; a second connection for the audit of a denial | one record per key; every creation audited once; a mark stands as sent |
| attendance reads and reports (`attendance/read_service.py`, `reports/service.py`) | none | lists, daily sheet, statistics, export, leaderboard, defaulters | several statements that must count alike | the views agree |
| recognition attendance (`face_recognition/recognition_attendance_service.py`) | recognition attempts linked to records | attempt, confirm | three commits in two connections, pool exhaustion, repeated confirmation | an attempt is settled once, on a student it marked; every request ends |
| sample processing (`face_recognition/processing_service.py`) | embeddings, processing state | process one, retry, process batch | two processors, stale loads, lock held during inference | the state of a sample agrees with its embedding |
| matching and pipeline (`providers/similarity_matcher.py`, `evaluation.py`, `pipeline.py`) | none | match, rates, detect-align-embed | thresholds, ambiguous scores, coordinates that are not finite | a unique best student; rates that describe the matcher |
| providers (`provider_factory.py`, `providers/*.py`) | one cached detector and embedder with native models | get, load, infer, health | worker threads share a native object with an input size | one thread at a time, at the size of its image |
| academics, profiles, announcements | rows | create, update, deactivate, assign; lists and reads by id | validation before the write, stale partial updates, scopes written twice | no double booking; lists show what can be opened |
| CSV imports (`bulk_imports/`) | rows | import | one transaction per row, repeated after an interruption | repeating creates nothing twice |
| session client (`src/frontend/src/api/client.ts`, `auth/`) | access token, cookie, one refresh in flight | request, refresh, retry, restore, login, logout | calls that fail together, lost answers, reload, requests that arrive after they were given up | no refresh token is presented twice unless the answer to a refresh did not arrive |
| users, HTTP layer, password primitives, legacy backend | | | | not modelled, see the end |

The services meet in the database and in the connection pool: attendance reads memberships,
recognition attendance calls the attendance service on a second session, processing and
matching read the sample rows and files that enrollment writes, and every writer appends to
the audit log.

## Plan

1. **Enrollment** (done): the core, its abstract register, report, liveness, proofs.
2. **Refresh sessions** (done), and the client in front of them (done, `WebClient`).
3. **Attendance batches** and, composed with them and the pool, **recognition attendance**
   with the abstract `RecognitionAttempts` (done, with proofs).
4. **Sample processing**, **bulk enrollment**, **providers** (done, with proofs).
5. **School records** and views, matching, validation, imports, read side and reports (done,
   with proofs).
6. Left: a report taken while requests run, several pages of one browser sharing the cookie.

## Modules

### Enrollment

**`BiometricEnrollment`** is the core. It models one student; students share neither rows
nor files. `enrollment` is the status of the student's row, `status[k]` that of the sample
row holding storage key `k` ("absent" when there is none), `content[k]` the image written
under it (the sha256 value), `created[k]` the insertion order. `staging`, `active` and
`quarantine` are the keys with a file in each zone. `req[r]` is what request slot `r` is
doing: `op`, the program point `pc`, the enrollment status it read (`seen`), the sample at
hand, the sample it replaces (`old`) and the deletion loop's snapshot (`todo`). An action
is one read, one commit, or one file operation, because between two of them another
request may run or the process may die.

| code | actions |
| --- | --- |
| `create_sample`, `replace_sample` | `StartCreate`/`StartReplace`, `InsertEnrollment`, `ReadActive`, `WriteStaged` or `AbortWrite`, `Validate`, `InsertRow`, `Promote`, `ActivateCreated`/`ActivateReplacement` |
| `_compensate_failed_promote` | `DropRow` |
| `_compensate_promoted_file_after_activation_failure` | `UndoQuarantine`, `UndoPurge`, `UndoRow` |
| `_retire_old_sample_best_effort` | `Quarantine`, `MarkQuarantined`, `Purge`, `MarkDeleted` |
| `_advance_deletion`, `_advance_sample_deletion` | `StartDelete`, `ListLive`, `RequestDeletion`, `DiscardPending` and `DropRow`, `MarkDeletionPending`, the four removal actions, `Recheck`, `Finalize` |
| a failing statement, a failing rename or unlink, the death of the process | `DatabaseError`, `FileError`, `Crash` |

`Transaction` is `service_transaction`: the commit happens; or a constraint refuses it and
the caller's exception handler runs (`OnError`); or, with the fault "lost_ack", it happens
and the handler runs all the same. `Updates` gives an ORM UPDATE its three ways to fail: a
row that is gone (StaleDataError) and the two partial unique indexes. A DELETE of a row
that is gone only warns, so `DropRow` has no such guard.

Bodies, image checks, audit rows, timestamps and authorization are abstracted: an upload
carries one of `Contents`, and validation may accept or reject it. `request_deletion` and
`finalize_deletion` differ only in the audit action and are one operation.

**`EnrollmentRegister`** is the abstract specification: a phase and an image, changed
atomically by `Open`, `Enroll`, `Replace`, `RequestDeletion`, `Forget`, `Close`. The refinement
mapping takes the phase from the enrollment row and the image from the ACTIVE sample row.

**`EnrollmentReconciliation`** extends the core with the report: one operator per finding
type of `generate_report`, and the properties about it.

**`EnrollmentLiveness`** adds a flag `calm`, set at an arbitrary moment, after which the
environment injects no failure. **`EnrollmentHistory`** adds a history flag `disturbed`: some
step so far was a failure. `MCBiometricEnrollment` and `MCEnrollmentHistory` instantiate them
for TLC; keys, images and request slots are symmetric. **`EnrollmentProofs`** holds the theorems.

**`BulkEnrollment`** models one archive from upload to answer. `batch` is the request, `report`
the outcome it will give for each row, `sample[s]` the row the batch inserted for student `s`,
`staged` and `stored` the files. The single-sample endpoints serve the same students meanwhile. Of
an upload or a replacement the batch notices one commit (`UploadElsewhere`); `rival` holds the
students with an ACTIVE sample of such an upload, which the unique index lets win. A deletion is
taken apart (`removal`), because what it does to the batch's row is decided by the status it read
first: it drops a row it read PENDING, whatever the row has become. `overtaken` remembers the
students for whom that happened after the row was activated. The last look at the samples and the commit that
closes the enrollment are one step, since the batch reads no enrollment status in
between that it has not read before; a row inserted after it is in the model as an insert after the close.

| code | actions |
| --- | --- |
| `enroll_from_zip` up to the validation | `ReceiveArchive`, `CheckArchive`, `PrepareRow`, `RejectArchive` or `Accept` |
| `_execute_one_row` | `CreateEnrollment`, `InsertRow`, `Promote`, `DropRow`, `ActivateRow` |
| `_compensate_promoted_file_after_activation_failure` | `UndoFile`, `UndoRow` |
| `_execute_rows`, the batch audit | `Finish` |
| failures | `DatabaseError`, `FileError`, `LostAcknowledgement` (of any commit), `Break` |
| `create_sample`, `replace_sample` of others, the retirement of a row | `UploadElsewhere`, `RemoveRetiredFile`, `CloseRetiredRow` |
| `_advance_deletion` | `ReadForDeletion`, `MarkDeletion`, `CloseDeletion`, `DeletionFails` |
| `_advance_sample_deletion` | `DiscardStaged`, `DropElsewhere`, `RetireElsewhere` |

`MCDecisions` holds its instance.

**`UploadRules`** has the decisions of the image validator and of `validate_archive` as operators
in the order of the code's checks: an image is what Pillow says of it at each stage (declared
and decoded size, each stage failing or not), a member is its directory entry and what it holds.
An image comes in by one of three ways, each with a limit on the bytes it reads: `UploadSample`,
`StageMember` (of an archive), `ReceiveProbe` (for matching and attendance).
The first check that fails decides the answer, so a chain of checks is a chain of IF: a TLA+ CASE
leaves open which of several true guards is taken, and a proof may not assume the first.

### Sessions

**`RefreshSessions`** models the sessions of one user as PostgreSQL transactions. The
variables are the committed rows: `issued` tokens, `revoked` (revoked_at), `replacedBy`,
and whether `expires_at` has passed. `req[r]` is a request: its program point, its token, the rows its
transaction has locked and, for a mass revocation, the rows its UPDATE selected. What a
transaction writes appears when it commits, which is when the request ends; `Abort` ends
it without a trace.

| code | actions |
| --- | --- |
| `login` | `StartLogin` (the user is read), `IssueFirst` (the row is committed) |
| `refresh` | `Lookup` (SELECT FOR UPDATE: waits for the row, then sees its latest version), `ReadUser`, `Rotate` |
| `refresh` of a rotated token | `Lookup`, `RevokeScan` (snapshot of the UPDATE), `RevokeRow` (one row after the other, waiting for its lock, skipping it if it is revoked by then), `RevokeCommit` |
| `logout` | `StartLogout` (plain read), `LogoutUpdate` (by primary key, waits, does not look again) |

Whoever was ever given a token may present it at any time, so retries after lost responses
and several tabs are included. A refused request changes nothing and is not a step.

**`SessionFamilies`** is its abstract specification: every login opens one session, its token
is exchanged for one successor at a time, closing is final. The refinement takes the live
rows for the current tokens, and the tokens no rotation produced for the logins.
**`MCRefreshSessions`** is its instance; its theorems are in **`SessionProofs`**.

**`WebClient`** is one page of the frontend against a server that rotates. The server is
reduced to what the page can tell apart (`live`, `exchanged`, `valid`); the messages in flight
are `refresh` (the one request that waiting calls share), `sign` (login or logout) and `call[i]`.
A request the page gives up, by a network error or a reload, is either lost or joins `late`, from
where the server may serve it at any later moment, its answer reaching nobody. Of an answer that
arrives too late for the page the browser may have kept the cookie (`Cookies`). Calls that are given
up need no place in `late`: serving them changes nothing the page or the server remembers.

| code | actions |
| --- | --- |
| `ApiClient.request`, its one retry after 401 | `Send`, `Receive`, `Reject`, `JoinRefresh` |
| `refreshAccessToken`, `performRefresh`: answered, refused, failed | `FinishRefresh`, `RefuseRefresh`, `FailRefresh` |
| `AuthProvider`: restore, login, logout | `Restore`, `SignIn`, `SignedIn`, `SignOut`, `SignedOut` |
| the server, an access token that expires | `ServeRefresh`, `ServeLogin`, `ServeLogout`, `ServeLate`, `ServeCall`, `ExpireAccess` |
| the network and the user | `LoseRefresh`, `LoseCall`, `LoseSign`, `Reload` |

### Attendance

**`AttendanceBatches`** models `bulk_save` for one classroom, subject and date. `record` and
`created` are committed rows and the sum of the audited counts; `teaches`, `roster` and `open`
are the scope the administrator may withdraw at any moment; `out` holds the connections checked
out of the pool. A request keeps the rows it `loaded`; what its transaction has written is
computed from the marks it has passed (`Locks`), and appears in `record` at the commit.

| code | actions |
| --- | --- |
| `bulk_save`: the first statement, scope and members | `Submit`, `Connect`, `Authorize`, `Validate` |
| `BlockedAuditWriter.write` on a session of its own | `OpenAudit`, `AuditDenial` |
| `_write_attendance_records`: one SELECT and one flush per mark | `Read`, `Write` |
| commit with the success audit; the answer | `Commit`, `Reply` |
| pool_timeout, PostgreSQL's deadlock victim, a dropped request | `PoolTimeout`, `DeadlockVictim`, `Abort` |
| the administrator | `Unassign`, `Remove`, `Close` |

`Write` waits for the row lock, or for the index entry an uncommitted insert holds, and fails on
the unique constraint once that insert is committed. `Result` writes the columns that differ
from the loaded ones into the row's latest version, as the ORM's UPDATE does.

**`RecognitionAttendance`** EXTENDS it. `flow[r]` is what the slot does beyond its batch, which
is the very `req[r]` of `AttendanceBatches`: a found student is marked by a batch of one mark.

| code | actions |
| --- | --- |
| `create_attempt`: scope and roster, the attempt, the mark, the link | `StartAttempt`, `Open`, `ResolveScope`, `CreateAttempt`, (batch), `Link` |
| `confirm_attempt`: row lock, checks, the mark on a second session, the result | `StartConfirm`, `Open`, `Lock`, `CheckConfirm`, (batch), `RecordConfirmation` |
| the batch's exception, pool_timeout, a dropped request | `Propagate`, `FlowTimeout`, `Drop` |

**`RecognitionAttempts`** is its abstract specification: `Decide` once with a roster, `Settle`
at most once on a student of it who has a row, `Attend`. The refinement reads roster, matched
student and link from the attempt's row and the attending students from the register.

**`AttendanceReads`** gives each query of the read service and of the reports as a set or a
number over one state of the tables, each from its own statement: the `WHERE` clauses are
`Matching`, an `ORDER BY` with `LIMIT` and `OFFSET` is the set of rows with so many before them
(`Page`), a `GROUP BY` is a function on the groups (`ByStudent`, `ByClassroom`, `RosterCounts`).

### Recognition

**`SampleProcessing`** models the calls on sample rows. A call loads its samples once (`LoadRows`)
and then works through them: `MarkStarted` is the flushed stamp, which locks the row until the
commit; `Embed` is the inference in a worker thread; `PersistSuccess` and `PersistFailure` are the commits,
with the audit row; `AbortCall` is any error or death before one. `Written` is the ORM's rule that
an attribute is written only when it differs from what was loaded, which is what makes stale
loads visible. `Lifecycle` is what enrollment and deletion do to the same rows meanwhile.

**`RecognitionProviders`** models the threads on the cached detector and embedder: `EnterCache`,
`Look`, `Make` (get-or-create under the cache lock), `Enter`, `LoadModel`, `Resize`, `Record`,
`Infer`, `Leave` (under the instance's lock), `FailTask`. The native detector's input size and the
size the instance remembers are two fields, written one after the other.

**`FaceMatching`** is the matcher's decision and the offline rates over integer similarities;
**`FacePipeline`** the conversion of a detector row (Python's rounding, clamping, values that are
not finite), and which outcome or reason code a chain of model answers leads to.

### School

**`SchoolRecords`** has the administrators' writes on classrooms, subjects, profiles,
assignments, timetable entries and announcements: `Create`, `Update`, `AssignClassroom`,
`Deactivate` read and validate, `Save` flushes later under the unique constraints (`Allowed`),
`FailWrite` ends without a trace. Between the two, the other request may save. The columns an update
writes are those that differ from its load. It EXTENDS **`SchoolViews`**, which gives the lists
and the reads by id of every role over the same tables.

**`BulkImports`** has the parser's decisions on rows of cells, and `import_file` as a recursive
function: one transaction per row (`CreateRow`) over the committed table, up to the row at which
the import is interrupted.

### Instances

`MCRecognitionAttendance` instantiates recognition. `MCMachines` EXTENDS the five components that
share no state, under names of their own (`sampleVars`, `SchoolNext`, ...), and checks them in one
run: a behaviour chooses its machine at the start and the variables of the others keep their first
value, so the states are the sum, not the product, of the five. **`Decisions`** gathers the pure
decisions of matching, pipeline, validation, imports and the read side: a behaviour is one input,
tagged with its kind and of the type its caller hands over, a register with its roster among them.
`MCDecisions` EXTENDS it, `SchoolViews` and `BulkEnrollment`, enumerates the inputs and adds the
school tables; under the input "batch" the rows of an accepted archive are enrolled step by step,
under any other nothing changes.

## Runs

| run | instance | properties | distinct states |
| --- | --- | --- | --- |
| `EnrollmentSequential` | 1 request, 3 keys, 2 images, crash/db/io until calm | `TypeOK`, `OtherDriftReported`, `LifecycleForward`, `DeletionDrains`, `ImplementsRegister`, `DeletionCompletes` | 987,000 |
| `EnrollmentUploads` | 2 requests, 3 keys, 3 images, no deletion, crash/db | `ActiveSampleHasFile`, `CleanWhenQuiet`, `LifecycleForward` | 38,700 |
| `EnrollmentConcurrent` | 2 requests, 2 keys, 2 images, all operations, crash/db/io/lost_ack | `DeletedSampleHasNoFile` | 521,000 |
| `SessionConcurrent` | 3 requests, 4 tokens | `TypeOK`, `SessionsNeverMultiply`, `ImplementsFamilies`, `LineageKept` | 170,000 |
| `RecognitionConcurrent` | 2 slots, 2 students, 1 teacher, 1 attempt, pool of 2, batches in both orders, teacher and student may be withdrawn | `RecognitionTypeOK`, `CreationsAuditedOnce`, `LinksAreMarks`, `ImplementsAttempts` | 1,390,000 |
| `RequestsComplete` | the same with nothing withdrawn and one status | `RequestsEnd` | 127,000 |
| `Machines` | see below | `SampleTypeOK`, `StateJustified`, `RemovedGainsNoEmbedding`, `UncontendedMarksStand`, `TablesConsistent`, `UncontendedSavesCohere`, `InferenceIsolated`, `OnlyMissedAnswersLookStolen` | 1,145,000 |
| `Decisions` | see below | `MatchIsSafe`, `RatesDescribeMatcher`, `DetectionsFitImage`, `StoredEmbeddingsComparable`, `AcceptedImageBounded`, `AcceptedArchiveSound`, `ListsMatchGets`, `ScopesAgree`, `StatisticsAgree`, `ReportsAgree`, `ImportsRepeatable`, `ReportHolds`, `FailureLeavesNothing` | 772,000 |

All runs bound the requests in flight; a slot is reused without limit. Deadlock is checked in
every run but `Machines` and `Decisions`, whose components stop at a bound: the archive is answered,
the tasks, the token pairs and the validated requests are used up.

**Enrollment.** `Keys` bounds the uploads whose file is written over the whole behaviour. Three
keys are the least with which a stalled replacement, its successor and a fresh upload exist
together; two suffice for two removals of one sample next to an upload. Two images are needed
to tell a replacement from a re-upload of the same image, and a third for a late replacement
that the index on live content would otherwise refuse whatever else it does. Two requests
overlap every pair of steps; the invariants of the concurrent runs are proved for every number
of either. `EnrollmentUploads` leaves "io" out because
`discard_staged` swallows an unlink error in the ordinary refusal of an upload, which
is not a failure step, and then leaves its staged file to the report; file errors are in the
other two runs.

**Sessions.** `Tokens` bounds the rows ever issued: four allow a family of three next to a
second login. Three requests allow a rotation and a logout to overlap a mass revocation.

**Recognition.** Two slots give every pair of overlapping flows and batches, and a pool of two
is the smallest in which both hold a connection and wait for a second one. Batches that mark
both students in both orders deadlock on rows. One attempt suffices because two share only the register.

**Machines**, with two interchangeable requests: two processing calls on two samples; two
attendance batches of an administrator and a teacher, of either pupil or of both, in a class that
may be closed; two racing
writes of the school's tables (two classrooms, one lesson, two pupils, one roll number);
two threads, three tasks, images of two sizes other than the default; a page with two calls and
three token pairs. Three tasks are the least with which a thread returns to
a model another has resized, three pairs the least for a rotation after a rotation. `MaxLate` = 1
keeps one given-up request of each kind and token: one late refresh next to the page's own with
the same token is what looks like theft.

**Decisions**, its batch of two rows with every failure: two rows are the least with which one
row of an archive succeeds and another fails. Other requests serve one of the two students
(`contested`, either of them), with one deletion under way (`MaxDeletions`) and any number of
uploads and retirements: the rows of different students share only the batch's place in the
archive, so this meets every step of a row. A student never has two deletions at once in the
model. The theorems hold for any number of rows and with every student contested.

Its other inputs, with which nothing changes: up to three candidates of three students with
similarities on both sides of threshold and margin; one axis of a box with every coordinate
around an image of up to three pixels; up to two faces with descriptors that are short, zero or
not finite; images at, below and beyond each limit, of bytes too; archives with every kind of
member next to a good one, and every archive of up to three plain images of one or two bytes around a
manifest of two, with all pairings of up to three rows: two images are the limit on files and
five bytes the limit on the total, so that archives of two images and two rows are accepted, and one
that is a file, a byte, a repeated student, a repeated file or a missing row too much is not; school tables with every mixture
of active rows; registers of up to five rows with every filter; import files of up to three rows
(one beyond the limit). The properties compare the code's definition with a reference stated
otherwise: the counts of one view with those of another, a list with the reads by id, an import
repeated after any prefix with the import done once.

### What they show

Enrollment requests taken one at a time keep every promise through any sequence of
crashes and errors: later calls cope with whatever was left, the student has at most one
image, which changes atomically and disappears only after a deletion was requested, a
closed enrollment has no live row. Overlapping uploads keep them too: the partial unique
indexes and the ORM's row-count check make the loser fail, and its compensation removes
exactly its own file. With deletions overlapping as well, the agreement of rows and files
still holds: `DeletedSampleHasNoFile` whatever fails or is lost, and `ActiveSampleHasFile`
where no acknowledgement is lost: after a commit whose
acknowledgement is lost, the compensation purges the file before it re-reads the row, which is
ACTIVE by then.

An archive's rows fail alone, and its report is true with three exceptions, which the properties name.
A row reported as enrolled has its row and its file until it is replaced or deleted, unless
a deletion had read it PENDING (`overtaken`): then the row is dropped and the file
stays, which is the finding of `StaleSnapshotDropsActive` met by a batch. A row reported as failed
has left nothing unless its clean-up failed, or its INSERT or its activation was committed and
the acknowledgement was lost (`spoiled`): then a PENDING row, or an ACTIVE row without its file, is left.

Rotation is safe under every overlap: the row lock and the re-read behind it exchange a token
once. The client presents a token twice only if the server serves a refresh whose answer does not
reach the page, before or after the page has given it up, which no client can avoid; several waiting
calls, a login or a logout at the same time, a reload, or a refresh lost on its way do not cause it.

Attendance batches count each row once although two may find it absent, because the index lock
lets one of them through. The recognition flows keep their attempts straight across three
commits, and no pair of requests waits forever, although a confirmation holds one connection and a row lock
while it waits for another connection of the same pool: `pool_timeout` and the deadlock
detector break every circle.

Four promises of the comments and documents do not hold; each has a run that ends in a counterexample:

| run | promise | what happens |
| --- | --- | --- |
| `DeletionLeavesActiveFile` | no enrollment is DELETED while a file of it exists (`biometric_enrollment/service.py:488`) | a crash after `promote` leaves a PENDING row whose file is in the active zone; deletion discards the staged file only |
| `StaleSnapshotDropsActive` | `delete_row` is never used on an ACTIVE sample (`biometric_enrollment/repository.py:229`) | the loop's snapshot said PENDING; the upload activated the row meanwhile |
| `ReuseMissesRotation` | reuse detection forces "a fresh login everywhere" (`auth/service.py:97`) | a rotation commits its successor after the UPDATE took its snapshot; the old row is skipped as revoked, the new one was never selected |
| `RetryMarksAnother` | a confirmation can be retried safely after a crash (`recognition_attendance_service.py:321`) | the batch committed, the attempt did not; the retry may name another student, and both stay marked |

`ReuseForcesLogin` allows for a new login next to the revocation, which is legitimate; it is
the successor of a rotation that breaks it. The models also show, without a run of their own, an
upload that commits its row between a deletion's re-check and its last commit, a removal that
failed after `mark_quarantined` and that no finding names, and a refresh that survives
the logout of the same token; they are among the hazards in `PROJECT.json`. `DeletionDrains` is
checked with one request at a time and says nothing of the first of these. Nor does any
property notice that a batch authorized before a withdrawal still commits.

Some properties are claimed only without contention, because READ COMMITTED does not give more
and the code does not promise more: `UncontendedMarksStand` and `UncontendedSavesCohere`
exclude a write whose row another one committed after it was read. The second also excludes a
row that an earlier race left incoherent: a deactivation, which validates nothing, keeps it so.
With two requests no such row can be written a third time; the proof for any number of them
needed the condition, and TLC finds the counterexample to the statement without it at three.

Every property of a passing run has a mutant: a plausible wrong version of one definition
(a dropped index, a file moved before its row is marked, a skipped purge, a missing
compensation, a lock not taken, a size recorded before it is set), under which TLC reports the
property violated.

### Fairness

Safety runs assume none.

`DeletionCompletes` (in `EnrollmentSequential`) assumes weak fairness of the steps
of a running request (the event loop does not abandon one), that failures stop at some
point (`calm`), and strong fairness of `StartDelete`: the administrator repeats a deletion, as the
docstring "Idempotent retry: safe to call again after a partial deletion attempt" invites.
Strong, because the one slot is occupied again and again by other calls. It is checked
with one request at a time; with uploads overlapping, an upload that sets the enrollment
back to ACTIVE (a hazard in `PROJECT.json`) ends a deletion otherwise.

`RequestsEnd` assumes strong fairness of each request's steps: PostgreSQL grants a row lock and
the pool a connection in the order of the requests for them, so a waiter is not passed over
forever. A dropped request, a new request and the administrator are not fair, and nothing is
assumed of them.

## Proofs

Eight modules hold the theorems of one component each. The argument is the same in all: an
inductive invariant, its initial and its step lemma with one step per action, and the property
as a consequence.

`EnrollmentProofs` proves, for every set of requests, every finite set of keys and every
set of images, operations and faults:

- `TypeCorrect`: `Spec => []TypeOK`, and from it `DriftIsReported`: `Spec => []OtherDriftReported`;
- `ActiveSamplesHaveFiles`: `Spec => []ActiveSampleHasFile`, if no acknowledgement is lost;
- `DeletedSamplesHaveNoFile`: `Spec => []DeletedSampleHasNoFile`, with all faults;
- `SamplesMoveForward`, `DeletionsDrain`, `EnrollmentImplementsRegister`: `Spec => LifecycleForward`,
  `DeletionDrains` and `ImplementsRegister` if there is one request slot, under all faults;
- `OverlappingUploadsMoveForward`, `OverlappingUploadsImplementRegister`: `Spec => LifecycleForward`
  and `Spec => ImplementsRegister` for any number of overlapping uploads and replacements, under all
  faults, if nobody deletes;
- `UploadsLeaveNothing`: `HistorySpec => []CleanWhenQuiet` for them, if no acknowledgement is lost
  and no file operation fails.

The assumptions are needed; the properties are false without them:
`ActiveSampleHasFile` where an acknowledgement is lost, the lifecycle and the register where a
deletion overlaps an upload (`StaleSnapshotDropsActive`) or an upload cancels it,
`CleanWhenQuiet` where an unlink fails in the ordinary refusal of an upload, or where a commit
that seemed to fail leaves a PENDING row.
`DeletedSampleHasNoFile` needs none of them.

**Files.** Neither file property is inductive. A file may be moved by a request that is at some point of
its removal, so the point must say something about the row; the row may be changed by
another removal of the same sample, so what the point says must be stable under whatever
others do; and a removal starts from a snapshot, so what a snapshot still tells must be
known. The inductive invariant `IInv` is the conjunction of

- `UploadsExclusive`: a key that a request is uploading is known to no other upload, and
  its row is absent or PENDING;
- `RowsTruthful`: a row beyond PENDING has an upload that is over; ACTIVE has its file in the
  active zone, QUARANTINED and DELETED have none there, DELETED has none in quarantine;
- `SampleInHand(r)`: what the program point of `r` says of its sample (past
  `mark_deletion_pending` the row is no longer ACTIVE and never will be, past `quarantine` the
  file is out of the active zone for good; an activation is taken back by its upload alone or
  after the upload is over);
- `SnapshotsBounded(r)`: what a snapshot still tells (a sample once seen beyond PENDING never
  returns to it, one seen on its way out is not ACTIVE).

`IInv` claims less where acknowledgements can be lost (`UploadingPoints`, `RowsTruthful`). An
activation that is being taken back may then have happened, so its row can be ACTIVE without a
file, others may know its key and remove the sample, and its compensation overlaps theirs. It
still only takes the file out of zones, so a row that says DELETED stays without one.

The proof is a rely-guarantee argument. Every step of a request keeps `Guarantee(r)`: it
claims fresh keys only, changes rows in an order (nothing becomes ACTIVE but the sample its own
upload activates) and moves files in an order. `Guarantee...` lemmas show that the other
requests' parts of the invariant survive any step that keeps it, once and for all actions;
the action lemmas (`UploadStepInOrder`, `RemovalStepInOrder`, `StartStep`, `FailureStep`)
show the guarantee and the request's own part, one step per action. `IInvStep` combines them.

**One request at a time.** What holds between calls (`RowsAndEnrollmentAgree`: an enrollment row for
every sample row, at most one ACTIVE sample, none behind a closed enrollment) is broken by nobody
while a call is under way but the call itself, so the invariant `AInv` adds only what the program
point of that call says (`Alone`): the rows it read are still what it read. The actions then fall into
a few kinds of row change (`RowsChange`: nothing, a new PENDING row, an activation, a replacement, a
removal step, a dropped PENDING row, a closing), one lemma per action puts it in its kind, and the
three theorems follow from the kinds: each goes forward in the lifecycle, closes only what is
drained, and is a step of the register or none. Lost acknowledgements are included, because a call
that undoes what did happen does it before anyone else looks.

**Overlapping uploads.** Nothing an upload read need be true any more when it commits, so `Alone`
is of no use. What remains without deletions is little: the enrollment, once read, stays, and
once ACTIVE stays ACTIVE (`UploadView`); a replacement that found an ACTIVE sample still finds one,
though perhaps another (`UndeletedView`); a sample is retired by one request only, the one whose
activation replaced it (`RetirementsExclusive`). With `IInv` and `RowsAndEnrollmentAgree` this makes
`OverlapInv`, and it is enough because the activation commit re-checks what it needs: the index on
ACTIVE rows lets a first activation through only while there is none, and a replacement only if the
sample it flips is the ACTIVE one; the index on live content makes the two images differ; the
row-count check wants the new row to be there, and it is PENDING then. So each step is again one of the kinds of
row change, also when its acknowledgement is lost, and the lemmas about them give both theorems.
`Changed(r)` says that a step of `r` is such a change and spares the rows that others have in hand,
`Left(r)` where it leaves `r`.

`UploadsLeaveNothing` has an invariant of its own, `UInv` (the indexes, `RowsIndexed`, in place of
the enrollment), and `NothingLost`, which follows each key from its upload to its
end: while nothing was disturbed, a file in a zone and a PENDING or retiring row have a request
that is still going to deal with it; so when no request runs, there is none.

The assumptions on the constants are those declared in `BiometricEnrollment`: known operation
and fault names, `None` is neither key nor image, finitely many keys (`NextStamp` counts rows).

`SessionProofs` proves, for every set of requests and every finite set of tokens:

- `SessionsTypeCorrect`, `LineageIsKept`: `TypeOK`, and a successor on record is never overwritten;
- `SessionsImplementFamilies`: `Spec => Families!Spec`;
- `SessionsDoNotMultiply`: there are never more live tokens than logins.

The invariant: no row is locked twice; only a revoked row has a successor; a request
between `Lookup` and `Rotate` holds the lock of its token, which is live. The last part is what
the others' steps could disturb, and cannot, because whatever revokes a row needs its lock
(`CommitStep`, `OthersKept`). `StepImplements` maps `IssueFirst` to Open, `Rotate` to Advance,
`RevokeCommit` and `LogoutUpdate` to Close or a stutter, every other step to a stutter; the
count follows from the abstract step. The assumptions: `None` is no token, tokens are finite.

`ProcessingProofs` proves `ProcessingTypeCorrect`, `StatesAreJustified` and
`RemovedSamplesGainNothing` for every finite set of samples and every set of calls. A row may
get its columns from two calls that had loaded different versions of it, so the invariant says
what a call's loaded version still tells of the row (`LoadedRows`: whoever loaded a failure
knows that the row never waits for processing again), that a row waiting for processing has no failure reason
(`PendingClean`), that a failing call has a code, and that the row of a call about to store an
embedding is in the active zone while the call holds its lock (`FilesInZone`, `SuccessInZone`).

`RecognitionAttendanceProofs` proves first, of the batches alone, `BatchesTypeCorrect` and
`RowsAreCountedOnce` for any students, callers, batches and pool. `created` changes at a commit only, by the number of
inserts; the invariant `BatchInv` says that no two requests have uncommitted inserts of one
student (`Exclusive`), that no uncommitted insert has a committed row (`Uncommitted`), and that
the marks of a batch name different students (`Distinct`), so that the inserted marks are in
bijection with the new rows. `SavedMarksStand` (`UncontendedMarksStand`) follows from the same
invariant at the commit: what the request wrote differs from its load only in the columns sent.

It then extends this to the composition: `RecognitionTypeCorrect`,
`RecognizedRowsAreCountedOnce`, `LinksPointAtMarks`, and the refinement `FlowsImplementAttempts`
(`RecognitionSpec => ImplementsAttempts`). `RecInv` adds to `BatchInv` what an attempt's row may
say (`AttemptSound`), that the batch of a flow is about the flow's student and that what the
flow has read of its attempt still holds (`FlowSound`), and that an attempt has one
creator and one holder of its lock (`Alone`). `CreateAttempt` maps to `Decide`,
`Link` and `RecordConfirmation` to `Settle`, the commit of a batch to `Attend`, the rest to stutters.

`BulkEnrollmentProofs` proves `ReportsHold` and `FailuresLeaveNothing` for an archive of any
length, any failures and any number of deletions, one of a student at a time. The invariant follows
the batch through its rows: those ahead are untouched, the row at hand has what its program point
says, those behind have what was reported, and what a deletion read PENDING is still PENDING, gone
or overtaken (`SinceRead`).
Its hypothesis `RowsOnce` is what the manifest validation ensures: a student has one row.

`ProcessingProofs` also proves `ThreadsAreIsolated` for any number of threads and sizes:
one instance of each provider is ever made, whoever is past `Enter` holds its lock, and
the native size is the recorded one except between the two assignments of the holder. The
hypothesis `Distinguished` says that `Nobody` is no thread and no instance.

`SessionProofs` also proves `OnlyTheMissedLookStolen` for any number of calls and token pairs and
any of the faults: as long as no answer was missed, the token in the cookie has been exchanged
only while its successor is on the way, and no refresh is sent then. Late logins and logouts keep
this; a late refresh that is served is an answer missed.

`SchoolRecordsProofs` proves, for any tables and any number of requests,
`TablesStayConsistent` (rows keep their types, `Distinct` under every interleaving) and `SavesCohere`
(`UncontendedSavesCohere`). The invariant `SchoolInv` says of every pending write (`WriteSound`) that
it has a table and a key, that the columns it sends fit the table, and that over the row it was
validated against they give a coherent one; `Allowed` is evaluated at the flush and carries the
uniqueness. `ListsShowWhatOpens` and `ScopesStayInAgreement` hold of all typed tables, and so of all reachable
ones: the lists and the reads by id are set equations, one lemma for each role and kind of row.

`DecisionsProofs` proves the pure decisions for all inputs of their types, of any length and size,
not only the enumerated ones: `MatchesAreSafe`, `RatesAreTheMatchers`, `DetectionsAlwaysFit`,
`StoredEmbeddingsAreComparable`, `AcceptedImagesAreBounded`, `AcceptedArchivesAreSound`. Where a
lemma needs induction on a natural number (the best of finitely many scores, the running total of an
archive, the squared norm of a descriptor), it takes a least counterexample (`LeastOf`) and
contradicts it, which needs no theorem with an operator parameter.

`ViewsAndImportsProofs` proves the read side and the imports, for any register with one row per
student and day, any roster and period, any file and any saved table:

- `StatisticsAlwaysAgree` (`StatisticsAgree`). Groups are parts of a finite set, so their counts add
  up to those of the whole (`PartsAddUp`, `CountsAddUp`); under a total order every row of the
  set has its own number of rows before it, and these numbers are an interval (`RankIs`), so the
  pages cover the set and none is longer than its limit;
- `ReportsAlwaysAgree` (`ReportsAgree`). The summary, the details and the leaderboard count the
  same rows, those of the roster; the ranks are an interval by the same lemma, and since the
  order starts with the percentage, those below a threshold are its end (`LastOnesAre`);
- `ImportsAlwaysRepeatable` (`ImportsRepeatable`). The recursion of `Import` has a value
  (`RecursionExists`, `ImportRuns`) and its prefixes are the interrupted imports. The table
  only grows (`Extends`), a longer table refuses more (`LongerRefusesMore`), and a row that was
  created conflicts with itself; so every row before the interruption is refused when the import is
  repeated (`RefusedAgain`), and the rest goes as if nothing had happened (`RepeatedRuns`).

That induction is over a natural number again (`EveryIndex`). The hypotheses are
`RegisterAssumption` (finitely many students; ids and dates are ordered), `ImportAssumption` and
`InputsAssumption`, which gives every kind of input its type and the register its unique constraint.

The assumptions on constants are the `ASSUME`s of the modules, as weak as the code justifies
(finite sets where rows are counted, special values that are no row), and TLC evaluates them.

Only model-checked: liveness (`DeletionCompletes`, `RequestsEnd`), because fairness and ENABLED
are out of the proof system's reach.

## Not modelled

- Users, password and token primitives, HTTP layer, configuration, logging: no state of their
  own that the properties are about, or values without structure in the modelled parts.
- The frontend's views, and several pages of one browser that share a cookie.
- The Flask prototype `src/backend`, which nothing runs any more.
- Within enrollment: the read endpoint and its blocked-audit write, audit rows, and
  `restore_from_quarantine`, which nothing calls. A power loss that undoes a completed rename:
  a crash here is the death of the process.
- A report taken while requests are running: reconciliation and attendance reports are
  evaluated in one state, while the code reads in several statements and claims no snapshot.
- The numerical work of the models and the decoding of images are outcomes, not computations;
  export formats are layout.
- Two imports of one kind at the same time.
