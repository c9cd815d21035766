----------------------- MODULE EnrollmentReconciliation -----------------------
(***************************************************************************)
(* The reconciliation report: the drift between the sample rows and the    *)
(* file zones that generate_report names.  The report only reads; here it  *)
(* is the set of findings it would give in the current state.              *)
(***************************************************************************)
EXTENDS BiometricEnrollment

RowsIn(s) == {k \in Keys : status[k] = s}

ActiveRecordMissingFile == RowsIn("active") \ active

ActiveFileMissingRecord ==
    active \ (RowsIn("active") \cup RowsIn("deletion_pending") \cup RowsIn("replacement_pending"))

QuarantinedRecordMissingFile == RowsIn("quarantined") \ quarantine

QuarantinedFileMissingRecord ==
    quarantine \ (RowsIn("quarantined") \cup RowsIn("deletion_pending"))

\* Mutant: the report takes every row in replacement for one in flight.
ReplacementsInFlight == {}

StagedFileMissingRecord == staging \ RowsIn("pending")

\* PENDING and DELETION_PENDING rows are findings once older than the staging
\* timeout; "expired" are the rows that are.
PendingSampleStale(expired) == RowsIn("pending") \cap expired

DeletionPendingStale(expired) == RowsIn("deletion_pending") \cap expired

ReplacementPendingIncomplete == RowsIn("replacement_pending")

Findings(expired) ==
    UNION {ActiveRecordMissingFile, ActiveFileMissingRecord, QuarantinedRecordMissingFile,
           QuarantinedFileMissingRecord, StagedFileMissingRecord, PendingSampleStale(expired),
           DeletionPendingStale(expired), ReplacementPendingIncomplete}

(***************************************************************************)
(* Properties.  The report is meaningful once the requests are over and    *)
(* the staging timeout has passed.                                         *)
(***************************************************************************)
Quiet == \A r \in Requests : req[r].pc = "idle"

OnDisk(k) == k \in staging \cup active \cup quarantine

\* Nothing remains to be done about k.
Settled(k) ==
    \/ status[k] = "active" /\ k \in active /\ k \notin staging \cup quarantine
    \/ status[k] \in {"absent", "deleted"} /\ ~OnDisk(k)

\* The one kind of drift the report is silent about: a QUARANTINED row whose
\* file was moved to quarantine and never purged.
Unpurged(k) == status[k] = "quarantined" /\ k \in quarantine

\* Whatever else a failure or a crash at any step leaves unfinished is in the
\* report.
OtherDriftReported ==
    Quiet => \A k \in Keys : Settled(k) \/ Unpurged(k) \/ k \in Findings(Keys)
=============================================================================
