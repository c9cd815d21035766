-------------------------- MODULE AttendanceBatches --------------------------
(***************************************************************************)
(* Saving attendance batches for one classroom, subject and date           *)
(* (AttendanceService.bulk_save): each batch is one READ COMMITTED         *)
(* transaction that authorizes the caller, validates the students, then    *)
(* reads and writes one row per mark, in the order of the request.  The    *)
(* variables hold committed rows; a transaction's own writes are those of  *)
(* the marks it has passed, and they lock their rows until it ends.        *)
(* Connections come from one pool and a denied teacher needs a second one  *)
(* for the audit row of the denial.                                        *)
(***************************************************************************)
EXTENDS Naturals, Sequences, FiniteSets

CONSTANTS
    Requests,  \* request slots: how many requests can be in flight at once
    Students,
    Admins,
    Teachers,
    Statuses,  \* present, absent, late, ...
    Batches,   \* the bodies a client may send: sequences of marks
    MaxRows,   \* MAX_BULK_ATTENDANCE_ROWS
    PoolSize,  \* connections in the pool: pool_size + max_overflow
    Withdrawn, \* what the administrator may withdraw: "teacher", "student", "class"
    None       \* no row

Users == Admins \cup Teachers

Row == [status : Statuses, by : Users]

ASSUME PoolAssumption == PoolSize \in Nat \ {0}
ASSUME BatchesAssumption == Batches \subseteq Seq([student : Students, status : Statuses])
ASSUME FiniteAssumption == IsFiniteSet(Requests) /\ IsFiniteSet(Students)
ASSUME NoneAssumption == None \notin Row /\ None \notin Users

VARIABLES
    record,   \* the attendance row of each student
    created,  \* sum of created_count over the success audit rows
    denied,   \* callers with a blocked audit row
    teaches,  \* teachers with an active profile and an active assignment
    roster,   \* active students whose profile names the classroom
    open,     \* the classroom and the subject are active
    out,      \* connections checked out of the pool, with their use
    req       \* what each request slot is doing

register == <<record, created, denied>>
school   == <<teaches, roster, open>>
attendanceVars     == <<record, created, denied, teaches, roster, open, out, req>>

(***************************************************************************)
(* A request: its program point, the caller, the batch, the position in    *)
(* it and the rows its session loaded (what an update is compared with).   *)
(***************************************************************************)
Points == {"idle", "connect", "authorize", "deny", "audit_denial", "validate",
           "read", "write", "commit", "saved", "failed"}

Unread == [s \in Students |-> None]

Idle == [pc |-> "idle", user |-> None, batch |-> <<>>, at |-> 0, loaded |-> Unread]

AttendanceInit ==
    /\ record = Unread /\ created = 0 /\ denied = {}
    /\ teaches = Teachers /\ roster = Students /\ open = TRUE
    /\ out = {}
    /\ req = [r \in Requests |-> Idle]

Marks(r) == {req[r].batch[i] : i \in DOMAIN req[r].batch}

Mark(r) == req[r].batch[req[r].at]

\* Marks whose statement has been flushed.
Passed(r) ==
    CASE req[r].pc = "commit" -> Marks(r)
      [] req[r].pc \in {"read", "write"} -> {req[r].batch[i] : i \in 1 .. req[r].at - 1}
      [] OTHER -> {}

Wanted(r, m) == [status |-> m.status, by |-> req[r].user]

Inserts(r) == {m \in Marks(r) : req[r].loaded[m.student] = None}

\* The ORM writes an attribute only when it differs from the loaded one, and
\* issues no statement when none does.
Writes(r, m) == req[r].loaded[m.student] # Wanted(r, m)

Locks(r) == {m.student : m \in {n \in Passed(r) : Writes(r, n)}}

Waits(r, q) ==
    /\ q # r /\ req[r].pc = "write"
    /\ Writes(r, Mark(r)) /\ Mark(r).student \in Locks(q)

Deadlocked(r) ==
    \E C \in SUBSET Requests :
        r \in C /\ \A q \in C : (\E p \in C : Waits(q, p)) /\ (\E p \in C : Waits(p, q))

\* Mutant: an update does not say who made it.
ResultUnsigned(r, m) ==
    LET was == req[r].loaded[m.student]
        now == record[m.student]
    IN  IF was = None THEN Wanted(r, m)
        ELSE [now EXCEPT !.status = IF was.status = m.status THEN @ ELSE m.status]

\* The row a mark leaves at commit: the inserted one, or the current one with
\* the columns the session saw change.
Result(r, m) ==
    LET was == req[r].loaded[m.student]
        now == record[m.student]
    IN  IF was = None THEN Wanted(r, m)
        ELSE [status |-> IF was.status = m.status THEN now.status ELSE m.status,
              by     |-> IF was.by = req[r].user THEN now.by ELSE req[r].user]

Goto(r, pc) == req' = [req EXCEPT ![r].pc = pc]

(***************************************************************************)
(* The connection pool.                                                    *)
(***************************************************************************)
Free == Cardinality(out) < PoolSize

Acquire(r, use) == Free /\ out' = out \cup {<<r, use>>}

\* Rolls the transaction back; its session and an audit session are closed.
End(r, pc) == Goto(r, pc) /\ out' = out \ {<<r, "batch">>, <<r, "audit">>}

Fail(r) == End(r, "failed") /\ UNCHANGED <<register, school>>

(***************************************************************************)
(* bulk_save.                                                              *)
(***************************************************************************)
ValidShape(b) ==
    /\ Len(b) \in 1 .. MaxRows
    /\ \A i, j \in DOMAIN b : b[i].student = b[j].student => i = j

\* Other roles and malformed batches are refused before the database is used.
Submit(r, u, b) ==
    /\ req[r].pc = "idle" /\ ValidShape(b)
    /\ req' = [req EXCEPT ![r] = [Idle EXCEPT !.pc = "connect", !.user = u, !.batch = b]]
    /\ UNCHANGED <<register, school, out>>

Connect(r) ==
    /\ req[r].pc = "connect"
    /\ Acquire(r, "batch") /\ Goto(r, "authorize")
    /\ UNCHANGED <<register, school>>

Authorize(r) ==
    /\ req[r].pc = "authorize"
    /\ IF req[r].user \in Admins \/ req[r].user \in teaches
       THEN IF open THEN Goto(r, "validate") /\ UNCHANGED <<register, school, out>>
            ELSE Fail(r)
       ELSE Goto(r, "deny") /\ UNCHANGED <<register, school, out>>

\* BlockedAuditWriter: a session and a transaction of its own.
OpenAudit(r) ==
    /\ req[r].pc = "deny"
    /\ Acquire(r, "audit") /\ Goto(r, "audit_denial")
    /\ UNCHANGED <<register, school>>

AuditDenial(r) ==
    /\ req[r].pc = "audit_denial"
    /\ denied' = denied \cup {req[r].user}
    /\ End(r, "failed")
    /\ UNCHANGED <<record, created, school>>

Validate(r) ==
    /\ req[r].pc = "validate"
    /\ IF \A m \in Marks(r) : m.student \in roster
       THEN /\ req' = [req EXCEPT ![r].pc = "read", ![r].at = 1]
            /\ UNCHANGED <<register, school, out>>
       ELSE Fail(r)

Read(r) ==
    /\ req[r].pc = "read"
    /\ req' = [req EXCEPT ![r].pc = "write",
                          ![r].loaded[Mark(r).student] = record[Mark(r).student]]
    /\ UNCHANGED <<register, school, out>>

\* Mutant: the unique index on student, classroom, subject and date is missing.
WriteUnindexed(r) ==
    /\ req[r].pc = "write"
    /\ \A q \in Requests : ~Waits(r, q)
    /\ IF req[r].at < Len(req[r].batch)
       THEN req' = [req EXCEPT ![r].pc = "read", ![r].at = @ + 1]
       ELSE Goto(r, "commit")
    /\ UNCHANGED <<register, school, out>>

\* One flush.  It waits for a lock on the row or on the index entry; an INSERT
\* that finds the row committed in the meantime rolls the batch back.
Write(r) ==
    /\ req[r].pc = "write"
    /\ \A q \in Requests : ~Waits(r, q)
    /\ IF Mark(r) \in Inserts(r) /\ record[Mark(r).student] # None
       THEN Fail(r)
       ELSE /\ IF req[r].at < Len(req[r].batch)
               THEN req' = [req EXCEPT ![r].pc = "read", ![r].at = @ + 1]
               ELSE Goto(r, "commit")
            /\ UNCHANGED <<register, school, out>>

\* The success audit row is part of the transaction.  The client may lose the
\* acknowledgement of a commit that took place.
Commit(r) ==
    /\ req[r].pc = "commit"
    /\ record' = [s \in Students |->
          IF \E m \in Marks(r) : m.student = s
          THEN Result(r, CHOOSE m \in Marks(r) : m.student = s) ELSE record[s]]
    /\ created' = created + Cardinality(Inserts(r))
    /\ \E pc \in {"saved", "failed"} : End(r, pc)
    /\ UNCHANGED <<denied, school>>

Reply(r) ==
    /\ req[r].pc \in {"saved", "failed"}
    /\ req' = [req EXCEPT ![r] = Idle]
    /\ UNCHANGED <<register, school, out>>

(***************************************************************************)
(* What ends a request early.                                              *)
(***************************************************************************)
\* Mutant: a batch waits for its connection without a timeout.
PoolTimeoutOfAudits(r) == req[r].pc = "deny" /\ ~Free /\ Fail(r)

\* pool_timeout; an audit that cannot be written is given up.
PoolTimeout(r) == req[r].pc \in {"connect", "deny"} /\ ~Free /\ Fail(r)

\* PostgreSQL aborts one transaction of a cycle.
DeadlockVictim(r) == Deadlocked(r) /\ Fail(r)

\* A statement fails, or the process or its connection is lost.
Abort(r) ==
    /\ req[r].pc \in Points \ {"idle", "connect", "saved", "failed"}
    /\ Fail(r)

(***************************************************************************)
(* The administrator withdraws what the requests rely on, in any order.    *)
(* Bound: nothing is given back.                                           *)
(***************************************************************************)
Unassign(u) ==
    /\ teaches' = teaches \ {u}
    /\ UNCHANGED <<register, roster, open, out, req>>

Remove(s) ==
    /\ roster' = roster \ {s}
    /\ UNCHANGED <<register, teaches, open, out, req>>

Close ==
    /\ open' = FALSE
    /\ UNCHANGED <<register, teaches, roster, out, req>>

Administration ==
    \/ "teacher" \in Withdrawn /\ \E u \in teaches : Unassign(u)
    \/ "student" \in Withdrawn /\ \E s \in roster : Remove(s)
    \/ "class" \in Withdrawn /\ open /\ Close

Proceed(r) ==
    \/ Connect(r) \/ Authorize(r) \/ OpenAudit(r) \/ AuditDenial(r) \/ Validate(r)
    \/ Read(r) \/ Write(r)

GiveUp(r) == PoolTimeout(r) \/ DeadlockVictim(r)

AttendanceNext ==
    \/ Administration
    \/ \E r \in Requests :
          \/ \E u \in Users, b \in Batches : Submit(r, u, b)
          \/ Proceed(r) \/ Commit(r) \/ GiveUp(r) \/ Abort(r) \/ Reply(r)

AttendanceSpec == AttendanceInit /\ [][AttendanceNext]_attendanceVars

(***************************************************************************)
(* Properties.                                                             *)
(***************************************************************************)
\* Every variable keeps its type, and a request its position in its batch.
TypeOK ==
    /\ record \in [Students -> Row \cup {None}]
    /\ created \in Nat /\ denied \subseteq Users
    /\ teaches \subseteq Teachers /\ roster \subseteq Students /\ open \in BOOLEAN
    /\ out \subseteq Requests \X {"request", "batch", "audit"}
    /\ req \in [Requests -> [pc : Points, user : Users \cup {None},
                             batch : Seq([student : Students, status : Statuses]),
                             at : Nat, loaded : [Students -> Row \cup {None}]]]
    /\ \A r \in Requests : req[r].pc \in {"read", "write"} => req[r].at \in DOMAIN req[r].batch

\* The audit trail counts every row exactly once: two batches that both found
\* no row for a student never both report having created it
\* (created_count of _write_attendance_records).
CreationsAuditedOnce == created = Cardinality({s \in Students : record[s] # None})

\* A saved mark stands as it was sent, by the caller who sent it, unless another
\* batch committed the same row after this one had read it.
UncontendedMarksStand ==
    [][\A r \in Requests : req[r].pc = "commit" /\ req'[r].pc = "saved" =>
          \A m \in Marks(r) :
              record[m.student] = req[r].loaded[m.student] => record'[m.student] = Wanted(r, m)]_attendanceVars
=============================================================================
