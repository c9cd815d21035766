-------------------------- MODULE SampleProcessing ---------------------------
(***************************************************************************)
(* Turning enrolled samples into embeddings (SampleProcessingService).  A  *)
(* call loads its samples once, then for each of them stamps the row,      *)
(* which locks it, runs detection and embedding in a thread, and commits   *)
(* either a new active embedding or a failure reason.  Other calls, and    *)
(* the deletion of a sample, run meanwhile.  A row's attribute is written  *)
(* only when it differs from what the session loaded.                      *)
(***************************************************************************)
EXTENDS Naturals, FiniteSets

CONSTANTS
    Processors,  \* request slots: how many calls can be in flight at once
    Samples,   \* sample rows; their order is that of created_at
    Reasons,   \* failure reason codes besides the missing file
    Ceiling,   \* FACE_PROCESSING_BATCH_LIMIT
    NoReason       \* no failure reason

ASSUME SamplesAssumption == Samples \subseteq Nat /\ IsFiniteSet(Samples)
ASSUME CeilingAssumption == Ceiling \in Nat \ {0}
ASSUME ReasonsAssumption == NoReason \notin Reasons \cup {"file_missing"}

VARIABLES
    status,     \* lifecycle status of each sample
    file,       \* samples whose file is in the active zone
    state,      \* processing_state of each sample
    reason,     \* processing_failure_reason_code of each sample
    embedding,  \* samples with an active embedding row
    audited,    \* samples with an audit row of a success, of a failure
    work         \* what each request slot is doing

sampleRows == <<status, state, reason>>
sampleVars       == <<status, file, state, reason, embedding, audited, work>>

Codes == Reasons \cup {"file_missing"}

SampleStatuses == {"pending", "active", "deletion_pending", "quarantined", "deleted"}
States   == {"pending_processing", "processed", "processing_failed"}

CallPoints == {"idle", "start", "embed", "succeed", "fail"}

NoCall == [pc |-> "idle", todo |-> {}, code |-> NoReason,
         state |-> [k \in Samples |-> "pending_processing"],
         reason |-> [k \in Samples |-> NoReason]]

SampleInit ==
    /\ status = [k \in Samples |-> "pending"]
    /\ file = {}
    /\ state = [k \in Samples |-> "pending_processing"]
    /\ reason = [k \in Samples |-> NoReason]
    /\ embedding = {}
    /\ audited = [success |-> {}, failure |-> {}]
    /\ work = [r \in Processors |-> NoCall]

\* The oldest n of a set of samples.
Oldest(S, n) == {k \in S : Cardinality({j \in S : j < k}) < n}

CurrentSample(r) == CHOOSE k \in work[r].todo : \A j \in work[r].todo : k <= j

\* Mutant: the stamp is not flushed and locks nothing.
HoldsNothing(r, k) == FALSE

\* The row of the sample a call works on stays locked from its stamp to the commit.
Holds(r, k) == work[r].pc \in {"embed", "succeed", "fail"} /\ CurrentSample(r) = k

Unlocked(k, r) == \A q \in Processors \ {r} : ~Holds(q, k)

MoveTo(r, pc) == work' = [work EXCEPT ![r].pc = pc]

(***************************************************************************)
(* The calls.                                                              *)
(***************************************************************************)
\* What a session loads stays as it was read: sessions do not expire on commit.
LoadRows(r, S) ==
    IF S = {} THEN UNCHANGED work
    ELSE work' = [work EXCEPT ![r] = [NoCall EXCEPT !.pc = "start", !.todo = S,
                                                !.state = state, !.reason = reason]]

ProcessSample(r, k) ==
    /\ work[r].pc = "idle"
    /\ status[k] = "active" /\ state[k] = "pending_processing"
    /\ LoadRows(r, {k})
    /\ UNCHANGED <<sampleRows, file, embedding, audited>>

RetrySample(r, k) ==
    /\ work[r].pc = "idle"
    /\ status[k] = "active" /\ state[k] = "processing_failed"
    /\ LoadRows(r, {k})
    /\ UNCHANGED <<sampleRows, file, embedding, audited>>

Awaiting == {k \in Samples : status[k] = "active" /\ state[k] = "pending_processing"}

Bounded(limit) == IF limit < Ceiling THEN limit ELSE Ceiling

ProcessPendingBatch(r, limit) ==
    /\ work[r].pc = "idle"
    /\ LoadRows(r, Oldest(Awaiting, Bounded(limit)))
    /\ UNCHANGED <<sampleRows, file, embedding, audited>>

\* The UPDATE of processing_started_at.
MarkStarted(r) ==
    /\ work[r].pc = "start" /\ Unlocked(CurrentSample(r), r)
    /\ MoveTo(r, "embed")
    /\ UNCHANGED <<sampleRows, file, embedding, audited>>

\* Exactly one face, aligned and embedded, or one of the reasons.
Embed(r) ==
    /\ work[r].pc = "embed"
    /\ IF CurrentSample(r) \in file
       THEN \/ MoveTo(r, "succeed")
            \/ \E c \in Reasons : work' = [work EXCEPT ![r].pc = "fail", ![r].code = c]
       ELSE work' = [work EXCEPT ![r].pc = "fail", ![r].code = "file_missing"]
    /\ UNCHANGED <<sampleRows, file, embedding, audited>>

\* Mutant: a call that has worked through its samples takes the next all the same.
AdvanceAlways(r) ==
    work' = [work EXCEPT ![r].pc = "start", ![r].code = NoReason,
                       ![r].todo = @ \ {CurrentSample(r)}]

\* The next sample of the call, or its answer.
Advance(r) ==
    IF work[r].todo = {CurrentSample(r)} THEN work' = [work EXCEPT ![r] = NoCall]
    ELSE work' = [work EXCEPT ![r].pc = "start", ![r].code = NoReason,
                            ![r].todo = @ \ {CurrentSample(r)}]

\* A column as it is after an UPDATE that wants a value and had loaded another.
Written(column, k, was, value) ==
    IF was = value THEN column ELSE [column EXCEPT ![k] = value]

\* Mutant: the new embedding is inserted first and superseded with the old one.
PersistSuperseded(r) ==
    LET k == CurrentSample(r)
    IN  /\ work[r].pc = "succeed"
        /\ embedding' = embedding \ {k}
        /\ state' = Written(state, k, work[r].state[k], "processed")
        /\ reason' = Written(reason, k, work[r].reason[k], NoReason)
        /\ audited' = [audited EXCEPT !.success = @ \cup {k}]
        /\ Advance(r)
        /\ UNCHANGED <<status, file>>

\* The active embedding is superseded and the new one inserted.
PersistSuccess(r) ==
    LET k == CurrentSample(r)
    IN  /\ work[r].pc = "succeed"
        /\ embedding' = embedding \cup {k}
        /\ state' = Written(state, k, work[r].state[k], "processed")
        /\ reason' = Written(reason, k, work[r].reason[k], NoReason)
        /\ audited' = [audited EXCEPT !.success = @ \cup {k}]
        /\ Advance(r)
        /\ UNCHANGED <<status, file>>

PersistFailure(r) ==
    LET k == CurrentSample(r)
    IN  /\ work[r].pc = "fail"
        /\ state' = Written(state, k, work[r].state[k], "processing_failed")
        /\ reason' = Written(reason, k, work[r].reason[k], work[r].code)
        /\ audited' = [audited EXCEPT !.failure = @ \cup {k}]
        /\ Advance(r)
        /\ UNCHANGED <<status, file, embedding>>

\* A failed statement or a crash ends the whole call; its open transaction is
\* rolled back, the samples it has committed stay processed.
AbortCall(r) ==
    /\ work[r].pc # "idle"
    /\ work' = [work EXCEPT ![r] = NoCall]
    /\ UNCHANGED <<sampleRows, file, embedding, audited>>

(***************************************************************************)
(* The lifecycle of a sample, as far as the processing reads it.           *)
(***************************************************************************)
ActivateSample(k) ==
    /\ status[k] = "pending"
    /\ status' = [status EXCEPT ![k] = "active"] /\ file' = file \cup {k}
    /\ UNCHANGED <<state, reason, embedding, audited, work>>

RequestRemoval(k) ==
    /\ status[k] = "active" /\ \A r \in Processors : ~Holds(r, k)
    /\ status' = [status EXCEPT ![k] = "deletion_pending"]
    /\ UNCHANGED <<file, state, reason, embedding, audited, work>>

QuarantineFile(k) ==
    /\ status[k] = "deletion_pending" /\ k \in file
    /\ file' = file \ {k}
    /\ UNCHANGED <<sampleRows, embedding, audited, work>>

FinishRemoval(k) ==
    /\ k \notin file /\ \A r \in Processors : ~Holds(r, k)
    /\ \/ status[k] = "deletion_pending" /\ status' = [status EXCEPT ![k] = "quarantined"]
       \/ status[k] = "quarantined" /\ status' = [status EXCEPT ![k] = "deleted"]
    /\ UNCHANGED <<file, state, reason, embedding, audited, work>>

Lifecycle(k) == ActivateSample(k) \/ RequestRemoval(k) \/ QuarantineFile(k) \/ FinishRemoval(k)

Call(r) ==
    \/ \E k \in Samples : ProcessSample(r, k) \/ RetrySample(r, k)
    \/ \E limit \in 1 .. Ceiling + 1 : ProcessPendingBatch(r, limit)

Work(r) == MarkStarted(r) \/ Embed(r) \/ PersistSuccess(r) \/ PersistFailure(r)

SampleNext ==
    \/ \E k \in Samples : Lifecycle(k)
    \/ \E r \in Processors : Call(r) \/ Work(r) \/ AbortCall(r)

SampleSpec == SampleInit /\ [][SampleNext]_sampleVars

(***************************************************************************)
(* Properties.                                                             *)
(***************************************************************************)
\* Every variable keeps its type; a call that works has a sample to work on.
SampleTypeOK ==
    /\ status \in [Samples -> SampleStatuses] /\ file \subseteq Samples
    /\ state \in [Samples -> States] /\ reason \in [Samples -> Codes \cup {NoReason}]
    /\ embedding \subseteq Samples
    /\ audited \in [success : SUBSET Samples, failure : SUBSET Samples]
    /\ work \in [Processors -> [pc : CallPoints, todo : SUBSET Samples, code : Codes \cup {NoReason},
                             state : [Samples -> States], reason : [Samples -> Codes \cup {NoReason}]]]
    /\ \A r \in Processors : work[r].pc # "idle" => work[r].todo # {}

\* The processing state of a row is always justified, whatever other calls found
\* out about the same sample and although one row may get its columns from two
\* calls that had loaded different versions of it: a PROCESSED sample has the
\* active embedding it is matched by and a success in the audit trail, a failed
\* one says why and was audited as a failure.
StateJustified ==
    \A k \in Samples :
        /\ state[k] = "processed" => k \in embedding \cap audited.success
        /\ state[k] = "processing_failed" => reason[k] # NoReason /\ k \in audited.failure

\* A sample that has left the active zone for good gains no biometric data: no
\* embedding is stored for it once its row says QUARANTINED or DELETED.
RemovedGainsNoEmbedding ==
    [][\A k \in embedding' \ embedding : status[k] \in {"active", "deletion_pending"}]_sampleVars
=============================================================================
