------------------------ MODULE RecognitionAttendance ------------------------
(***************************************************************************)
(* Attendance by face recognition (RecognitionAttendanceService) on top of *)
(* the attendance batches.  Creating an attempt is up to three             *)
(* transactions: the attempt with its decision, the batch that marks a     *)
(* found student present, the link from the attempt to the row.            *)
(* Confirming an undecided attempt holds the attempt's row lock in one     *)
(* session while the batch runs in a second session from the same pool.    *)
(* A slot works on one flow; req[r] is the flow's own call of bulk_save.   *)
(***************************************************************************)
EXTENDS AttendanceBatches

CONSTANTS
    Attempts,  \* attempt rows; bounds the number of attempts ever made
    Present    \* the status a recognition marks

ASSUME PresentAssumption == Present \in Statuses
ASSUME AttemptsAssumption == None \notin Attempts /\ None \notin Students

VARIABLES
    attempt,  \* the row of each attempt
    flow,     \* what each slot is doing beyond its batch
    marked    \* history: students a batch has marked on behalf of each attempt

recognitionVars == <<attendanceVars, attempt, flow, marked>>

NoAttempt == [roster |-> {}, matched |-> None, confirmed |-> None, linked |-> None]

FlowPoints == {"idle", "scope", "create", "marking", "lock", "check", "confirming", "refused", "denied"}

NoFlow == [pc |-> "idle", user |-> None, attempt |-> None, student |-> None, roster |-> {}]

RecognitionInit ==
    /\ AttendanceInit
    /\ attempt = [a \in Attempts |-> NoAttempt]
    /\ flow = [r \in Requests |-> NoFlow]
    /\ marked = [a \in Attempts |-> {}]

Exists(a) == attempt[a].roster # {}

Locked(a, r) ==
    \E q \in Requests \ {r} : flow[q].attempt = a /\ flow[q].pc \in {"check", "confirming", "refused"}

Connected(r) == <<r, "request">> \in out

Authorized(r) == flow[r].user \in Admins \/ flow[r].user \in teaches

At(r, pc) == flow[r].pc = pc /\ UNCHANGED <<denied, record, created, school>>

Become(r, pc) == flow' = [flow EXCEPT ![r].pc = pc]

\* The response: both sessions are closed, the slot is free.
Finish(r) ==
    /\ flow' = [flow EXCEPT ![r] = NoFlow]
    /\ req' = [req EXCEPT ![r] = Idle]
    /\ out' = {c \in out : c[1] # r}

\* The call of bulk_save with one mark, and the audit of a refusal, which is
\* written like the one of a batch and given up the same way.
MarkPresent(r, s) ==
    req' = [req EXCEPT ![r] = [Idle EXCEPT !.pc = "connect", !.user = flow[r].user,
                                           !.batch = <<[student |-> s, status |-> Present]>>]]

Refuse(r, pc) ==
    /\ Become(r, pc)
    /\ req' = [req EXCEPT ![r] = [Idle EXCEPT !.pc = "deny", !.user = flow[r].user]]

(***************************************************************************)
(* Sessions take a connection when a transaction begins.                   *)
(***************************************************************************)
Open(r) ==
    /\ \/ flow[r].pc \in {"scope", "create", "lock"}
       \/ flow[r].pc = "marking" /\ req[r].pc = "saved"
    /\ ~Connected(r) /\ Acquire(r, "request")
    /\ UNCHANGED <<register, school, req, attempt, flow, marked>>

Disconnect(r) == out' = out \ {<<r, "request">>}

(***************************************************************************)
(* create_attempt.                                                         *)
(***************************************************************************)
\* The attempt's id is a fresh uuid4.
StartAttempt(r, u, a) ==
    /\ flow[r].pc = "idle" /\ req[r].pc = "idle"
    /\ ~Exists(a) /\ \A q \in Requests : flow[q].attempt = a => flow[q].pc \notin {"scope", "create"}
    /\ flow' = [flow EXCEPT ![r].pc = "scope", ![r].user = u, ![r].attempt = a]
    /\ UNCHANGED <<attendanceVars, attempt, marked>>

\* resolve_authorized_scope: the roster is read once, before the inference.
ResolveScope(r) ==
    /\ At(r, "scope") /\ Connected(r)
    /\ IF ~Authorized(r) THEN Refuse(r, "denied") /\ UNCHANGED out
       ELSE IF ~open THEN Finish(r)
       ELSE IF roster = {} THEN Refuse(r, "denied") /\ Disconnect(r)
       ELSE /\ flow' = [flow EXCEPT ![r].pc = "create", ![r].roster = roster]
            /\ Disconnect(r) /\ UNCHANGED req
    /\ UNCHANGED <<attempt, marked>>

\* The matcher names a student of the roster, or nobody (UNKNOWN, AMBIGUOUS).
CreateAttempt(r, s) ==
    /\ At(r, "create") /\ Connected(r)
    /\ s \in flow[r].roster \cup {None}
    /\ attempt' = [attempt EXCEPT ![flow[r].attempt].roster = flow[r].roster,
                                  ![flow[r].attempt].matched = s]
    /\ \/ Finish(r)  \* an undecided attempt, or an acknowledgement lost
       \/ /\ s # None
          /\ flow' = [flow EXCEPT ![r].pc = "marking", ![r].student = s]
          /\ MarkPresent(r, s) /\ Disconnect(r)
    /\ UNCHANGED marked

Link(r) ==
    /\ At(r, "marking") /\ req[r].pc = "saved" /\ Connected(r)
    /\ ~Locked(flow[r].attempt, r)
    /\ attempt' = [attempt EXCEPT ![flow[r].attempt].linked = flow[r].student]
    /\ Finish(r) /\ UNCHANGED marked

(***************************************************************************)
(* confirm_attempt.                                                        *)
(***************************************************************************)
StartConfirm(r, u, a, s) ==
    /\ flow[r].pc = "idle" /\ req[r].pc = "idle"
    /\ flow' = [flow EXCEPT ![r].pc = "lock", ![r].user = u, ![r].attempt = a, ![r].student = s]
    /\ UNCHANGED <<attendanceVars, attempt, marked>>

\* Mutant: the attempt is read without FOR UPDATE.
LockNothing(r) ==
    /\ At(r, "lock") /\ Connected(r)
    /\ IF Exists(flow[r].attempt) THEN Become(r, "check") /\ UNCHANGED req
       ELSE Refuse(r, "denied")
    /\ UNCHANGED <<out, attempt, marked>>

\* SELECT ... FOR UPDATE.
Lock(r) ==
    /\ At(r, "lock") /\ Connected(r)
    /\ IF Exists(flow[r].attempt)
       THEN ~Locked(flow[r].attempt, r) /\ Become(r, "check") /\ UNCHANGED req
       ELSE Refuse(r, "denied")
    /\ UNCHANGED <<out, attempt, marked>>

Confirmable(r) ==
    LET a == attempt[flow[r].attempt]
    IN  /\ a.matched = None
        /\ flow[r].student \in a.roster \cap roster
        /\ a.confirmed \in {None, flow[r].student}

CheckConfirm(r) ==
    /\ At(r, "check")
    /\ IF ~Authorized(r) THEN Refuse(r, "refused") /\ UNCHANGED out
       ELSE IF ~open THEN Finish(r)
       ELSE IF ~Confirmable(r) THEN Refuse(r, "refused") /\ UNCHANGED out
       ELSE IF attempt[flow[r].attempt].confirmed # None THEN Finish(r)
       ELSE Become(r, "confirming") /\ MarkPresent(r, flow[r].student) /\ UNCHANGED out
    /\ UNCHANGED <<attempt, marked>>

\* Mutants: the confirmation does not point at its row; it is recorded although
\* the batch failed.
RecordUnlinked(r) ==
    /\ At(r, "confirming") /\ req[r].pc = "saved"
    /\ attempt' = [attempt EXCEPT ![flow[r].attempt].confirmed = flow[r].student]
    /\ Finish(r) /\ UNCHANGED marked

RecordUnsaved(r) ==
    /\ At(r, "confirming") /\ req[r].pc \in {"saved", "failed"}
    /\ attempt' = [attempt EXCEPT ![flow[r].attempt].confirmed = flow[r].student,
                                  ![flow[r].attempt].linked = flow[r].student]
    /\ Finish(r) /\ UNCHANGED marked

RecordConfirmation(r) ==
    /\ At(r, "confirming") /\ req[r].pc = "saved"
    /\ attempt' = [attempt EXCEPT ![flow[r].attempt].confirmed = flow[r].student,
                                  ![flow[r].attempt].linked = flow[r].student]
    /\ Finish(r) /\ UNCHANGED marked

(***************************************************************************)
(* Failures of a flow.                                                     *)
(***************************************************************************)
\* The batch of the flow failed, or the audit of its refusal is done.
Propagate(r) ==
    /\ flow[r].pc # "idle" /\ req[r].pc = "failed"
    /\ Finish(r)
    /\ UNCHANGED <<register, school, attempt, marked>>

FlowTimeout(r) ==
    /\ flow[r].pc \in {"scope", "create", "lock", "marking"}
    /\ req[r].pc \in {"idle", "saved"} /\ ~Connected(r) /\ ~Free
    /\ Finish(r)
    /\ UNCHANGED <<register, school, attempt, marked>>

\* A failed statement or a crash, between any two steps; what is committed stays.
Drop(r) ==
    /\ flow[r].pc # "idle"
    /\ Finish(r)
    /\ UNCHANGED <<register, school, attempt, marked>>

FlowStep(r) ==
    \/ Open(r) \/ ResolveScope(r) \/ Link(r) \/ Lock(r) \/ CheckConfirm(r)
    \/ RecordConfirmation(r) \/ Propagate(r) \/ FlowTimeout(r)
    \/ \E s \in Students \cup {None} : CreateAttempt(r, s)

\* The steps of the flow's batch, or of a batch sent as such.
BatchStep(r) ==
    /\ \/ (Proceed(r) \/ GiveUp(r)) /\ UNCHANGED marked
       \/ /\ Commit(r)
          /\ marked' = IF flow[r].attempt = None THEN marked
                       ELSE [marked EXCEPT ![flow[r].attempt] = @ \cup {flow[r].student}]
    /\ UNCHANGED <<attempt, flow>>

Start(r) ==
    \/ \E u \in Users, a \in Attempts : StartAttempt(r, u, a)
    \/ \E u \in Users, a \in Attempts, s \in Students : StartConfirm(r, u, a, s)
    \/ /\ flow[r].pc = "idle" /\ \E u \in Users, b \in Batches : Submit(r, u, b)
       /\ UNCHANGED <<attempt, flow, marked>>

Answer(r) == flow[r].pc = "idle" /\ Reply(r) /\ UNCHANGED <<attempt, flow, marked>>

RecognitionNext ==
    \/ Administration /\ UNCHANGED <<attempt, flow, marked>>
    \/ \E r \in Requests :
          \/ Start(r) \/ FlowStep(r) \/ BatchStep(r) \/ Answer(r) \/ Drop(r)
          \/ Abort(r) /\ UNCHANGED <<attempt, flow, marked>>

\* Row locks and pooled connections are granted in the order of the requests for
\* them, so a step that is enabled again and again is taken (strong fairness).
RecognitionSpec ==
    /\ RecognitionInit /\ [][RecognitionNext]_recognitionVars
    /\ \A r \in Requests :
          SF_recognitionVars(FlowStep(r)) /\ SF_recognitionVars(BatchStep(r) \/ Answer(r))

(***************************************************************************)
(* Properties.                                                             *)
(***************************************************************************)
\* Every variable keeps its type, and an attempt the shape its check constraints
\* give it.
RecognitionTypeOK ==
    /\ TypeOK
    /\ attempt \in [Attempts -> [roster : SUBSET Students, matched : Students \cup {None},
                                 confirmed : Students \cup {None}, linked : Students \cup {None}]]
    /\ flow \in [Requests -> [pc : FlowPoints, user : Users \cup {None}, student : Students \cup {None},
                              attempt : Attempts \cup {None}, roster : SUBSET Students]]
    /\ marked \in [Attempts -> SUBSET Students]
    /\ \A a \in Attempts :
          attempt[a].confirmed # None => /\ attempt[a].matched = None
                                         /\ attempt[a].linked = attempt[a].confirmed

\* An attempt points only at the row of a student it has itself marked, out of
\* the roster it was decided for.
LinksAreMarks ==
    \A a \in Attempts :
        /\ attempt[a].linked # None => attempt[a].linked \in marked[a]
        /\ marked[a] \subseteq attempt[a].roster

\* An attempt marks one student (docs/HANDOVER_PHASE_5_STAGE_4.md, "idempotent").
AttemptMarksOneStudent == \A a \in Attempts : Cardinality(marked[a]) <= 1

Promise == INSTANCE RecognitionAttempts WITH
    roster   <- [a \in Attempts |-> attempt[a].roster],
    found    <- [a \in Attempts |-> attempt[a].matched],
    settled  <- [a \in Attempts |-> attempt[a].linked],
    attended <- {s \in Students : record[s] # None}

\* Interleaved and interrupted flows of any number of users keep the promise of
\* an attempt: decided once, settled once, on a student of its roster who has a row.
ImplementsAttempts == Promise!Spec

\* Every request comes to its end: lock waits and the wait of a confirmation for
\* its second connection are broken by the other side's end, by PostgreSQL's
\* deadlock detection or by pool_timeout.
RequestsEnd == \A r \in Requests : (req[r].pc # "idle" \/ flow[r].pc # "idle")
                                     ~> (req[r].pc = "idle" /\ flow[r].pc = "idle")
=============================================================================
