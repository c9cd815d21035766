--------------------------- MODULE EnrollmentProofs ---------------------------
(***************************************************************************)
(* For every number of requests, keys and images: the rows of              *)
(* BiometricEnrollment never say more than the file zones hold.            *)
(***************************************************************************)
EXTENDS EnrollmentHistory, FiniteSetTheorems, TLAPS

\* The points at which a request takes back a failed activation.
UndoPoints == {"undo_quarantine", "undo_purge", "undo_row"}

USE DEF UndoPoints

\* The points at which a request holds a key that only it knows how to finish.
\* Where acknowledgements are lost, an activation that is taken back may have
\* happened, and others may know the key.
UploadingPoints ==
    {"validate", "insert_row", "promote", "activate"}
        \cup (IF "lost_ack" \in Faults THEN {} ELSE UndoPoints)

Uploading(r, k) ==
    /\ req[r].sample = k
    /\ \/ req[r].pc \in UploadingPoints
       \/ req[r].pc = "drop_row" /\ req[r].op # "delete"

\* The upload of k is over: k is used and nobody is uploading it; it stays so.
Uploaded(k) == content[k] # None /\ \A r \in Requests : ~Uploading(r, k)

\* An upload has its key for itself, and its row is not beyond PENDING.
UploadsExclusive ==
    \A r \in Requests, k \in Keys :
        Uploading(r, k) => /\ content[k] # None
                           /\ status[k] \in {"absent", "pending"}
                           /\ \A q \in Requests : Uploading(q, k) => q = r

\* What the status of a row says about the file.
RowsTruthful ==
    \A k \in Keys :
        /\ status[k] \notin {"absent", "pending"} => Uploaded(k) /\ k \notin staging
        /\ status[k] = "active" /\ "lost_ack" \notin Faults => k \in active
        /\ status[k] = "quarantined" => k \notin active
        /\ status[k] = "deleted" => k \notin active \cup quarantine

\* What the point of a request says about the sample it works on.
SampleInHand(r) ==
    LET k == req[r].sample
    IN  /\ req[r].pc \in UploadingPoints \cup UndoPoints \cup RemovalPoints
                             \cup {"discard", "drop_row"}
              => k \in Keys
        /\ req[r].pc \in UndoPoints => Uploading(r, k) \/ Uploaded(k)
        /\ req[r].pc = "activate" => k \in active /\ k \notin staging
        /\ req[r].pc \in RemovalPoints => Uploaded(k) /\ status[k] # "pending"
        /\ req[r].pc \in RemovalPoints \ {"mark_deletion_pending"} => status[k] # "active"
        /\ req[r].pc \in {"mark_quarantined", "purge", "mark_deleted"} => k \notin active
        /\ req[r].pc = "mark_deleted" => k \notin quarantine
        /\ req[r].pc \in {"list_live", "request_deletion", "discard"} => req[r].op = "delete"

\* What a snapshot saying t still tells of the sample k.
Bounds(t, k) ==
    /\ t \notin {"absent", "pending"} => Uploaded(k) /\ status[k] # "pending"
    /\ t \in {"deletion_pending", "quarantined"} => status[k] # "active"
    /\ t = "quarantined" => k \notin active
    /\ t # "deleted"

\* What a request may still believe of the samples it read earlier.
SnapshotsBounded(r) ==
    /\ At(r, "replace", "stage") \/ (req[r].op = "replace" /\ req[r].pc \in UploadingPoints)
          => req[r].old \in Keys
    /\ req[r].old # None => Uploaded(req[r].old) /\ status[req[r].old] # "pending"
    /\ \A k \in Keys : Bounds(req[r].todo[k], k)

IInv ==
    /\ TypeOK
    /\ UploadsExclusive
    /\ RowsTruthful
    /\ \A r \in Requests : SampleInHand(r) /\ SnapshotsBounded(r)

(***************************************************************************)
(* Type correctness.                                                       *)
(***************************************************************************)
\* The record of a request has its type, so it may be updated field by field.
LEMMA FinishType ==
    ASSUME TypeOK, NEW r \in Requests, Finish(r)
    PROVE  req' \in [Requests -> Request]
  BY DEF TypeOK, Finish, Idle, Nothing, Request, RowStatus, SampleStatus, Points,
         UploadPoints, RemovalPoints, DeletionPoints

LEMMA GotoType ==
    ASSUME TypeOK, NEW r \in Requests, NEW pc \in Points, Goto(r, pc)
    PROVE  req' \in [Requests -> Request]
  <1>1. req \in [Requests -> Request] /\ req[r] \in Request
    BY DEF TypeOK
  <1>2. [req[r] EXCEPT !.pc = pc] \in Request
    BY <1>1 DEF Request
  <1>3. req' = [req EXCEPT ![r] = [req[r] EXCEPT !.pc = pc]]
    BY <1>1 DEF Goto
  <1>4. QED  BY <1>1, <1>2, <1>3

LEMMA NextSampleType ==
    ASSUME TypeOK, NEW r \in Requests, NEW STATE t, t \in [Keys -> RowStatus], NextSample(r, t)
    PROVE  req' \in [Requests -> Request]
  <1> DEFINE left == {k \in Keys : t[k] # "absent"}
  <1>1. req \in [Requests -> Request] /\ req[r] \in Request
    BY DEF TypeOK
  <1>2. ASSUME NEW k \in Keys \cup {None}, NEW pc \in Points
        PROVE  [req[r] EXCEPT !.todo = t, !.sample = k, !.pc = pc] \in Request
    BY <1>1 DEF Request
  <1>3. CASE /\ left = {}
             /\ req' = [req EXCEPT ![r] = [@ EXCEPT !.todo = t, !.sample = None,
                                                    !.pc = "recheck"]]
    <2>1. "recheck" \in Points
      BY DEF Points, DeletionPoints
    <2>2. QED  BY <1>1, <1>2, <1>3, <2>1
  <1>4. ASSUME NEW k \in Oldest(left),
               req' = [req EXCEPT ![r] = [@ EXCEPT !.todo = t, !.sample = k,
                                                   !.pc = FirstStep(t[k])]]
        PROVE  req' \in [Requests -> Request]
    <2>1. FirstStep(t[k]) \in Points
      BY DEF FirstStep, Points, RemovalPoints, DeletionPoints
    <2>2. k \in Keys
      BY DEF Oldest
    <2>3. QED  BY <1>1, <1>2, <1>4, <2>1, <2>2
  <1>5. QED  BY <1>3, <1>4 DEF NextSample

LEMMA SampleDoneType ==
    ASSUME TypeOK, NEW r \in Requests, SampleDone(r)
    PROVE  req' \in [Requests -> Request]
  <1>1. CASE req[r].op = "delete"
    <2>1. [req[r].todo EXCEPT ![req[r].sample] = "absent"] \in [Keys -> RowStatus]
      BY DEF TypeOK, Request, RowStatus
    <2>2. QED  BY <1>1, <2>1, NextSampleType DEF SampleDone
  <1>2. CASE req[r].op # "delete"
    BY <1>2, FinishType DEF SampleDone
  <1>3. QED  BY <1>1, <1>2

LEMMA OnErrorType ==
    ASSUME TypeOK, NEW r \in Requests, OnError(r)
    PROVE  /\ req' \in [Requests -> Request]
           /\ staging' \subseteq staging /\ active' = active /\ quarantine' = quarantine
  <1>1. "drop_row" \in Points /\ "undo_quarantine" \in Points
    BY DEF Points, UploadPoints
  <1>2. QED
    BY <1>1, FinishType, GotoType DEF OnError, DiscardStaged, files

LEMMA TransactionType ==
    ASSUME TypeOK, NEW r \in Requests, NEW STATE allowed, NEW ACTION then,
           NEW STATE s, s \in [Keys -> RowStatus], NEW STATE e, e \in EnrollmentStatus \cup {"absent"},
           then => req' \in [Requests -> Request],
           Transaction(r, allowed, s, e, then),
           UNCHANGED content, created' \in [Keys -> Nat]
    PROVE  TypeOK'
  BY OnErrorType DEF Transaction, TypeOK, rows, files

\* A record of req with some fields replaced is again of type Request.
LEMMA RequestType ==
    ASSUME TypeOK, NEW r \in Requests, NEW STATE pc, pc \in Points
    PROVE  /\ \A e \in EnrollmentStatus \cup {"absent"} :
                [req[r] EXCEPT !.pc = pc, !.seen = e] \in Request
           /\ \A k \in Keys \cup {None} :
                /\ [req[r] EXCEPT !.old = k, !.pc = pc] \in Request
                /\ [req[r] EXCEPT !.sample = k, !.pc = pc] \in Request
           /\ \A t \in [Keys -> RowStatus] :
                [req[r] EXCEPT !.todo = t, !.pc = pc] \in Request
           /\ \A op \in {"create", "replace", "delete"}, e \in EnrollmentStatus \cup {"absent"} :
                [Idle EXCEPT !.op = op, !.seen = e, !.pc = pc] \in Request
  <1>1. req[r] \in Request
    BY DEF TypeOK
  <1>2. "absent" \in RowStatus
    BY DEF RowStatus
  <1>3. QED  BY <1>1, <1>2 DEF Request, Idle, Nothing

\* Every step keeps the type of every variable.
LEMMA TypeStep ==
    ASSUME TypeOK, [Next]_vars
    PROVE  TypeOK'
  <1>a. UploadPoints \cup RemovalPoints \cup DeletionPoints \cup {"idle", "drop_row"} \subseteq Points
    BY DEF Points
  <1>b. /\ "insert_enrollment" \in Points /\ "read_active" \in Points /\ "stage" \in Points
        /\ "validate" \in Points /\ "insert_row" \in Points /\ "promote" \in Points
        /\ "activate" \in Points /\ "undo_purge" \in Points /\ "undo_row" \in Points /\ "drop_row" \in Points
    BY <1>a DEF UploadPoints
  <1>c. /\ "list_live" \in Points /\ "request_deletion" \in Points /\ "finalize" \in Points
        /\ "quarantine" \in Points /\ "mark_quarantined" \in Points
        /\ "purge" \in Points /\ "mark_deleted" \in Points
    BY <1>a DEF RemovalPoints, DeletionPoints
  <1>d. {"pending", "active", "deletion_pending", "deleted"} \subseteq EnrollmentStatus
    BY DEF EnrollmentStatus
  <1>e. \A k \in Keys \cup {None}, x \in RowStatus :
           [status EXCEPT ![k] = x] \in [Keys -> RowStatus]
    BY DEF TypeOK
  <1>f. {"pending", "active", "replacement_pending", "deletion_pending", "quarantined",
         "deleted", "absent"} \subseteq RowStatus
    BY DEF RowStatus, SampleStatus
  <1> SUFFICES ASSUME NEW r \in Requests,
                      Start(r) \/ UploadStep(r) \/ RemovalStep(r) \/ Failure(r)
               PROVE  TypeOK'
    BY DEF Next, vars, TypeOK
  <1>1. CASE StartCreate(r)
    BY <1>1, <1>b, RequestType DEF TypeOK, StartCreate, rows, files
  <1>2. CASE StartReplace(r)
    BY <1>2, <1>b, RequestType DEF TypeOK, StartReplace, rows, files
  <1>3. CASE StartDelete(r)
    BY <1>3, <1>c, RequestType DEF TypeOK, StartDelete, rows, files
  <1>4. CASE InsertEnrollment(r)
    <2>1. req' = [req EXCEPT ![r] = [@ EXCEPT !.pc = "read_active", !.seen = "pending"]]
             => req' \in [Requests -> Request]
      <3>1. [req[r] EXCEPT !.pc = "read_active", !.seen = "pending"] \in Request
        BY <1>b, <1>d, RequestType
      <3>2. QED  BY <3>1 DEF TypeOK
    <2>2. QED
      BY <1>4, <1>d, <2>1, TransactionType DEF InsertEnrollment, TypeOK
  <1>5. CASE ReadActive(r)
    <2>1. req' \in [Requests -> Request]
      <3>1. \A k \in Keys : [req[r] EXCEPT !.old = k, !.pc = "stage"] \in Request
        BY <1>b, RequestType
      <3>2. QED  BY <1>5, <1>b, <3>1, GotoType, FinishType DEF ReadActive, TypeOK
    <2>2. QED  BY <1>5, <2>1 DEF ReadActive, TypeOK, rows, files
  <1>6. CASE WriteStaged(r)
    <2>1. \A k \in Keys : [req[r] EXCEPT !.sample = k, !.pc = "validate"] \in Request
      BY <1>b, RequestType
    <2>2. QED  BY <1>6, <2>1 DEF WriteStaged, TypeOK, rows
  <1>7. CASE AbortWrite(r)
    BY <1>7, FinishType DEF AbortWrite, TypeOK, rows, files
  <1>8. CASE Validate(r)
    BY <1>8, <1>b, FinishType, GotoType DEF Validate, DiscardStaged, TypeOK, rows, files
  <1>9. CASE InsertRow(r)
    <2>1. Goto(r, "promote") => req' \in [Requests -> Request]
      BY <1>b, GotoType
    <2>2. NextStamp \in Nat
      BY KeysAssumption, FS_Subset, FS_CardinalityType DEF NextStamp
    <2>3. created' \in [Keys -> Nat]
      BY <1>9, <2>2 DEF InsertRow, TypeOK
    <2>4. [status EXCEPT ![req[r].sample] = "pending"] \in [Keys -> RowStatus]
      BY <1>f DEF TypeOK
    <2>5. QED
      BY <1>9, <2>1, <2>3, <2>4, TransactionType DEF InsertRow, TypeOK
  <1>10. CASE Promote(r)
    <2>1. CASE req[r].sample \in staging /\ Goto(r, "activate")
      <3>1. req' \in [Requests -> Request]
        BY <2>1, <1>b, GotoType
      <3>2. staging' \subseteq Keys /\ active' \subseteq Keys /\ quarantine' \subseteq Keys
        BY <1>10, OnErrorType DEF Promote, TypeOK
      <3>3. QED  BY <1>10, <3>1, <3>2 DEF Promote, TypeOK, rows
    <2>2. CASE OnError(r)
      BY <1>10, <2>2, OnErrorType DEF Promote, TypeOK, rows
    <2>3. QED  BY <1>10, <2>1, <2>2 DEF Promote
  <1>11. CASE ActivateCreated(r)
    <2> DEFINE s == [status EXCEPT ![req[r].sample] = "active"]
               e == IF req[r].seen = "active" THEN enrollment ELSE "active"
    <2>1. s \in [Keys -> RowStatus]
      BY <1>f DEF TypeOK
    <2>2. e \in EnrollmentStatus \cup {"absent"}
      BY <1>d DEF TypeOK
    <2>3. Finish(r) => req' \in [Requests -> Request]
      BY FinishType
    <2>4. Transaction(r, Updates({req[r].sample}, s), s, e, Finish(r))
      BY <1>11 DEF ActivateCreated
    <2>5. content' = content /\ created' \in [Keys -> Nat]
      BY <1>11 DEF ActivateCreated, TypeOK
    <2> HIDE DEF s, e
    <2>6. QED
      BY <2>1, <2>2, <2>3, <2>4, <2>5, TransactionType
  <1>12. CASE ActivateReplacement(r)
    <2> DEFINE o == req[r].old
               s == [status EXCEPT ![o] = "replacement_pending", ![req[r].sample] = "active"]
    <2>1. s \in [Keys -> RowStatus]
      BY <1>f DEF TypeOK
    <2>2. req' = [req EXCEPT ![r] = [@ EXCEPT !.sample = o, !.pc = "quarantine"]]
             => req' \in [Requests -> Request]
      <3>1. o \in Keys \cup {None}
        BY DEF TypeOK, Request
      <3>2. [req[r] EXCEPT !.sample = o, !.pc = "quarantine"] \in Request
        BY <1>c, <3>1, RequestType
      <3>3. QED  BY <3>2 DEF TypeOK
    <2>3. QED
      BY <1>12, <2>1, <2>2, TransactionType DEF ActivateReplacement, TypeOK
  <1>13. CASE DropRow(r)
    <2>1. [status EXCEPT ![req[r].sample] = "absent"] \in [Keys -> RowStatus]
      BY <1>f DEF TypeOK
    <2>2. QED
      BY <1>13, <2>1, SampleDoneType, TransactionType DEF DropRow, TypeOK
  <1>14. CASE UndoQuarantine(r)
    BY <1>14, <1>b, GotoType DEF UndoQuarantine, TypeOK, rows
  <1>15. CASE UndoPurge(r)
    BY <1>15, <1>b, GotoType DEF UndoPurge, TypeOK, rows
  <1>16. CASE UndoRow(r)
    <2> DEFINE s == [status EXCEPT ![req[r].sample] = IF @ = "pending" THEN "absent" ELSE @]
    <2>1. s \in [Keys -> RowStatus]
      BY <1>f DEF TypeOK
    <2>2. QED
      BY <1>16, <2>1, FinishType, TransactionType DEF UndoRow, TypeOK
  <1>17. CASE ListLive(r)
    <2> DEFINE t == [k \in Keys |-> IF Live(status, k) THEN status[k] ELSE "absent"]
    <2>1. t \in [Keys -> RowStatus]
      BY <1>f DEF TypeOK
    <2>2. [req[r] EXCEPT !.todo = t, !.pc = "request_deletion"] \in Request
      BY <1>c, <2>1, RequestType
    <2>3. req' \in [Requests -> Request]
      BY <1>17, <2>1, <2>2, FinishType, NextSampleType DEF ListLive, TypeOK
    <2>4. QED  BY <1>17, <2>3 DEF ListLive, TypeOK, rows, files
  <1>18. CASE RequestDeletion(r)
    <2>1. req[r].todo \in [Keys -> RowStatus]
      BY DEF TypeOK, Request
    <2>2. NextSample(r, req[r].todo) => req' \in [Requests -> Request]
      BY <2>1, NextSampleType
    <2>3. QED
      BY <1>18, <1>d, <2>2, TransactionType DEF RequestDeletion, TypeOK
  <1>19. CASE DiscardPending(r)
    BY <1>19, <1>b, GotoType DEF DiscardPending, DiscardStaged, TypeOK, rows
  <1>20. CASE MarkDeletionPending(r)
    <2>1. [status EXCEPT ![req[r].sample] = "deletion_pending"] \in [Keys -> RowStatus]
      BY <1>f DEF TypeOK
    <2>2. Goto(r, "quarantine") => req' \in [Requests -> Request]
      BY <1>c, GotoType
    <2>3. QED
      BY <1>20, <2>1, <2>2, TransactionType DEF MarkDeletionPending, TypeOK
  <1>21. CASE Quarantine(r)
    BY <1>21, <1>c, GotoType DEF Quarantine, TypeOK, rows
  <1>22. CASE MarkQuarantined(r)
    <2>1. [status EXCEPT ![req[r].sample] = "quarantined"] \in [Keys -> RowStatus]
      BY <1>f DEF TypeOK
    <2>2. Goto(r, "purge") => req' \in [Requests -> Request]
      BY <1>c, GotoType
    <2>3. QED
      BY <1>22, <2>1, <2>2, TransactionType DEF MarkQuarantined, TypeOK
  <1>23. CASE Purge(r)
    BY <1>23, <1>c, GotoType DEF Purge, TypeOK, rows
  <1>24. CASE MarkDeleted(r)
    <2>1. [status EXCEPT ![req[r].sample] = "deleted"] \in [Keys -> RowStatus]
      BY <1>f DEF TypeOK
    <2>2. SampleDone(r) => req' \in [Requests -> Request]
      BY SampleDoneType
    <2>3. QED
      BY <1>24, <2>1, <2>2, TransactionType DEF MarkDeleted, TypeOK
  <1>25. CASE Recheck(r)
    BY <1>25, <1>c, FinishType, GotoType DEF Recheck, TypeOK, rows, files
  <1>26. CASE Finalize(r)
    BY <1>26, <1>d, FinishType, TransactionType DEF Finalize, TypeOK
  <1>27. CASE Failure(r)
    BY <1>27, FinishType, OnErrorType
       DEF Failure, DatabaseError, FileError, Crash, TypeOK, rows, files
  <1>28. QED
    BY <1>1, <1>2, <1>3, <1>4, <1>5, <1>6, <1>7, <1>8, <1>9, <1>10, <1>11, <1>12, <1>13, <1>14,
       <1>15, <1>16, <1>17, <1>18, <1>19, <1>20, <1>21, <1>22, <1>23, <1>24, <1>25, <1>26, <1>27
       DEF Start, UploadStep, RemovalStep

\* Every reachable state is well typed: no step mixes up a status, a program
\* point or a snapshot.
THEOREM TypeCorrect == Spec => []TypeOK
  <1>1. Init => TypeOK
    BY DEF Init, TypeOK, Request, Idle, Nothing, RowStatus, Points
  <1>2. TypeOK /\ [Next]_vars => TypeOK'
    BY TypeStep
  <1>3. QED  BY <1>1, <1>2, PTL DEF Spec

(***************************************************************************)
(* The inductive invariant, in rely-guarantee style: a step of r           *)
(* guarantees the others what Guarantee(r) says, and whatever keeps that   *)
(* guarantee keeps what the other requests and the rows rely on.           *)
(***************************************************************************)

\* Other requests are left alone; only fresh keys are claimed, and for good.
ClaimsOnlyFreshKeys(r) ==
    /\ \A q \in Requests \ {r} : req'[q] = req[q]
    /\ \A k \in Keys :
         /\ content[k] # None => content'[k] = content[k]
         /\ Uploading(r, k)' => /\ content'[k] # None
                                /\ Uploading(r, k) \/ content[k] = None
         /\ k \in staging' \ staging => content[k] = None

\* A row changes only in the ways its sample's files have been prepared for.
ChangesRowsInOrder(r) ==
    \A k \in Keys : status'[k] # status[k] =>
        /\ active' = active /\ quarantine' = quarantine
        /\ \/ status'[k] = "absent"
           \/ status'[k] = "pending" /\ Uploading(r, k)
           \/ /\ status'[k] = "active" /\ Uploading(r, k) /\ ~Uploading(r, k)'
              /\ k \in active /\ k \notin staging /\ staging' \subseteq staging
           \/ /\ Uploaded(k) /\ status[k] \notin {"absent", "pending"}
              /\ \/ status'[k] \in {"replacement_pending", "deletion_pending"}
                 \/ status'[k] = "quarantined" /\ k \notin active
                 \/ status'[k] = "deleted" /\ k \notin active \cup quarantine

\* Only its uploader promotes a file; a file leaves the active zone for quarantine,
\* through its uploader or when its row is past ACTIVE, unless an acknowledgement
\* was lost.
MovesFilesInOrder(r) ==
    \A k \in Keys :
        /\ k \in active' \ active => Uploading(r, k) /\ Uploading(r, k)'
        /\ k \in active \ active' => /\ Uploading(r, k) \/ Uploaded(k)
                                     /\ status[k] # "active" \/ "lost_ack" \in Faults
        /\ k \in quarantine' \ quarantine => k \in active

Guarantee(r) == ClaimsOnlyFreshKeys(r) /\ ChangesRowsInOrder(r) /\ MovesFilesInOrder(r)

\* An upload that is over is never resumed.
LEMMA UploadedStable ==
    ASSUME NEW r \in Requests, ClaimsOnlyFreshKeys(r), NEW k \in Keys, Uploaded(k)
    PROVE  Uploaded(k)'
  <1>1. content'[k] = content[k] /\ content[k] # None
    BY DEF ClaimsOnlyFreshKeys, Uploaded
  <1>2. ASSUME NEW q \in Requests, Uploading(q, k)'
        PROVE  FALSE
    <2>1. CASE q = r
      BY <1>2, <2>1 DEF ClaimsOnlyFreshKeys, Uploaded
    <2>2. CASE q # r
      BY <1>2, <2>2 DEF ClaimsOnlyFreshKeys, Uploaded, Uploading
    <2>3. QED  BY <2>1, <2>2
  <1>3. QED  BY <1>1, <1>2 DEF Uploaded

LEMMA GuaranteeKeepsUploads ==
    ASSUME IInv, NEW r \in Requests, Guarantee(r)
    PROVE  UploadsExclusive'
  <1> SUFFICES ASSUME NEW q \in Requests, NEW k \in Keys, Uploading(q, k)'
               PROVE  /\ content'[k] # None
                      /\ status'[k] \in {"absent", "pending"}
                      /\ \A p \in Requests : Uploading(p, k)' => p = q
    BY DEF UploadsExclusive
  <1>1. ASSUME NEW p \in Requests, p # r, Uploading(p, k)'
        PROVE  Uploading(p, k) /\ content[k] # None
    BY <1>1 DEF Guarantee, ClaimsOnlyFreshKeys, Uploading, IInv, UploadsExclusive
  <1>2. content'[k] # None
    BY <1>1 DEF Guarantee, ClaimsOnlyFreshKeys
  <1>3. status[k] \in {"absent", "pending"}
    BY <1>1 DEF Guarantee, ClaimsOnlyFreshKeys, IInv, UploadsExclusive, RowsTruthful, Uploaded
  <1>4. ~Uploaded(k)
    BY <1>1 DEF Guarantee, ClaimsOnlyFreshKeys, Uploaded
  <1>5. status'[k] \in {"absent", "pending"}
    <2>1. ~(Uploading(r, k) /\ ~Uploading(r, k)')
      BY <1>1 DEF IInv, UploadsExclusive
    <2>2. QED  BY <1>3, <1>4, <2>1 DEF Guarantee, ChangesRowsInOrder
  <1>6. ASSUME NEW p \in Requests, Uploading(p, k)'
        PROVE  p = q
    BY <1>1, <1>6 DEF Guarantee, ClaimsOnlyFreshKeys, IInv, UploadsExclusive
  <1>7. QED  BY <1>2, <1>5, <1>6

LEMMA GuaranteeKeepsRows ==
    ASSUME IInv, NEW r \in Requests, Guarantee(r)
    PROVE  RowsTruthful'
  <1> SUFFICES ASSUME NEW k \in Keys
               PROVE  /\ status'[k] \notin {"absent", "pending"} => Uploaded(k)' /\ k \notin staging'
                      /\ status'[k] = "active" /\ "lost_ack" \notin Faults => k \in active'
                      /\ status'[k] = "quarantined" => k \notin active'
                      /\ status'[k] = "deleted" => k \notin active' \cup quarantine'
    BY DEF RowsTruthful
  <1>1. Uploaded(k) => Uploaded(k)'
    BY UploadedStable DEF Guarantee
  <1>2. CASE status'[k] = status[k]
    <2>1. Uploaded(k) => content[k] # None /\ ~Uploading(r, k)
      BY DEF Uploaded
    <2>2. QED
      BY <1>1, <1>2, <2>1
         DEF IInv, RowsTruthful, Guarantee, ClaimsOnlyFreshKeys, MovesFilesInOrder
  <1>3. CASE status'[k] # status[k] /\ status'[k] = "active"
    <2>1. /\ Uploading(r, k) /\ ~Uploading(r, k)'
          /\ k \in active' /\ k \notin staging'
      BY <1>3 DEF Guarantee, ChangesRowsInOrder
    <2>2. content[k] # None /\ \A q \in Requests : Uploading(q, k) => q = r
      BY <2>1 DEF IInv, UploadsExclusive
    <2>3. \A q \in Requests : ~Uploading(q, k)'
      BY <2>1, <2>2 DEF Guarantee, ClaimsOnlyFreshKeys, Uploading
    <2>4. Uploaded(k)'
      BY <2>2, <2>3 DEF Guarantee, ClaimsOnlyFreshKeys, Uploaded
    <2>5. QED  BY <1>3, <2>1, <2>4
  <1>4. CASE status'[k] # status[k] /\ status'[k] \notin {"active", "absent", "pending"}
    <2>1. /\ Uploaded(k) /\ status[k] \notin {"absent", "pending"}
          /\ status'[k] = "quarantined" => k \notin active'
          /\ status'[k] = "deleted" => k \notin active' \cup quarantine'
      BY <1>4 DEF Guarantee, ChangesRowsInOrder
    <2>2. k \notin staging /\ content[k] # None
      BY <2>1 DEF IInv, RowsTruthful, Uploaded
    <2>3. k \notin staging'
      BY <2>2 DEF Guarantee, ClaimsOnlyFreshKeys
    <2>4. QED  BY <1>1, <1>4, <2>1, <2>3
  <1>5. QED  BY <1>2, <1>3, <1>4

\* What stays true of a sample whose upload is over.
LEMMA GuaranteeKeepsUploaded ==
    ASSUME NEW r \in Requests, Guarantee(r), NEW k \in Keys, Uploaded(k)
    PROVE  /\ Uploaded(k)'
           /\ status[k] # "pending" => status'[k] # "pending"
           /\ status[k] # "active" => status'[k] # "active"
           /\ k \notin active => k \notin active' /\ (k \notin quarantine => k \notin quarantine')
  <1>1. Uploaded(k)'
    BY UploadedStable DEF Guarantee
  <1>2. ~Uploading(r, k) /\ ~Uploading(r, k)'
    BY <1>1 DEF Uploaded
  <1>3. QED
    BY <1>1, <1>2 DEF Guarantee, ChangesRowsInOrder, MovesFilesInOrder

LEMMA GuaranteeKeepsBounds ==
    ASSUME NEW r \in Requests, Guarantee(r), NEW k \in Keys, NEW t, Bounds(t, k)
    PROVE  Bounds(t, k)'
  BY GuaranteeKeepsUploaded DEF Bounds

LEMMA GuaranteeKeepsOthers ==
    ASSUME IInv, NEW r \in Requests, Guarantee(r), NEW q \in Requests \ {r}
    PROVE  SampleInHand(q)' /\ SnapshotsBounded(q)'
  <1>1. req'[q] = req[q]
    BY DEF Guarantee, ClaimsOnlyFreshKeys
  <1>2. ASSUME NEW k \in Keys, Uploaded(k)
        PROVE  /\ Uploaded(k)'
               /\ status[k] # "pending" => status'[k] # "pending"
               /\ status[k] # "active" => status'[k] # "active"
               /\ k \notin active => k \notin active' /\ (k \notin quarantine => k \notin quarantine')
    BY <1>2, GuaranteeKeepsUploaded
  <1>3. ASSUME req[q].pc = "activate"
        PROVE  req[q].sample \in active' /\ req[q].sample \notin staging'
    <2>1. /\ req[q].sample \in Keys /\ req[q].sample \in active /\ req[q].sample \notin staging
          /\ Uploading(q, req[q].sample)
      BY <1>3 DEF IInv, SampleInHand, Uploading, UploadingPoints
    <2>2. /\ content[req[q].sample] # None
          /\ ~Uploading(r, req[q].sample) /\ ~Uploaded(req[q].sample)
      BY <2>1 DEF IInv, UploadsExclusive, Uploaded
    <2>3. QED
      BY <2>1, <2>2 DEF Guarantee, ClaimsOnlyFreshKeys, MovesFilesInOrder
  <1>4. SampleInHand(q) /\ SnapshotsBounded(q)
    BY DEF IInv
  <1>5. SampleInHand(q)'
    <2>1. CASE req[q].pc \in RemovalPoints
      BY <1>1, <1>2, <1>4, <2>1 DEF SampleInHand, RemovalPoints
    <2>2. CASE req[q].pc \in UndoPoints
      <3>1. PICK k \in Keys : k = req[q].sample /\ (Uploading(q, k) \/ Uploaded(k))
        BY <1>4, <2>2 DEF SampleInHand
      <3>2. Uploading(q, k)' \/ Uploaded(k)'
        BY <1>1, <1>2, <3>1 DEF Uploading
      <3>3. QED  BY <1>1, <2>2, <3>1, <3>2 DEF SampleInHand, RemovalPoints
    <2>3. CASE req[q].pc \notin RemovalPoints \cup UndoPoints
      BY <1>1, <1>3, <1>4, <2>3 DEF SampleInHand, RemovalPoints
    <2>4. QED  BY <2>1, <2>2, <2>3
  <1>6. req[q].old # None => req[q].old \in Keys
    BY DEF IInv, TypeOK, Request
  <1>7. SnapshotsBounded(q)'
    <2>1. ASSUME NEW k \in Keys
          PROVE  Bounds(req[q].todo[k], k)'
      <3>1. PICK t : t = req[q].todo[k]
        OBVIOUS
      <3>2. Bounds(t, k)'
        BY <1>4, <3>1, GuaranteeKeepsBounds DEF SnapshotsBounded
      <3>3. QED  BY <1>1, <3>1, <3>2
    <2>2. QED  BY <1>1, <1>2, <1>4, <1>6, <2>1 DEF SnapshotsBounded, At
  <1>8. QED  BY <1>5, <1>7

(***************************************************************************)
(* Every step keeps the guarantee and what its own request relies on.      *)
(***************************************************************************)
Own(r) == SampleInHand(r) /\ SnapshotsBounded(r)

\* A step that leaves rows and files alone, but for staged or quarantined files removed.
LEMMA StillGuarantee ==
    ASSUME IInv, NEW r \in Requests,
           \A q \in Requests \ {r} : req'[q] = req[q],
           \A k \in Keys : Uploading(r, k)' => Uploading(r, k),
           UNCHANGED <<status, content, active>>,
           staging' \subseteq staging, quarantine' \subseteq quarantine
    PROVE  Guarantee(r)
  <1>1. ClaimsOnlyFreshKeys(r)
    BY DEF ClaimsOnlyFreshKeys, IInv, UploadsExclusive
  <1>2. QED
    BY <1>1 DEF Guarantee, ChangesRowsInOrder, MovesFilesInOrder

\* An idle request holds nothing.
LEMMA FinishOwn ==
    ASSUME TypeOK, NEW r \in Requests, Finish(r)
    PROVE  /\ Own(r)'
           /\ \A q \in Requests \ {r} : req'[q] = req[q]
           /\ \A k \in Keys : ~Uploading(r, k)'
  <1>1. req'[r] = Idle /\ \A q \in Requests \ {r} : req'[q] = req[q]
    BY DEF TypeOK, Finish
  <1>2. QED
    BY <1>1, NoneAssumption
       DEF Own, SampleInHand, SnapshotsBounded, Bounds, At, Uploading, Idle, Nothing,
           UploadingPoints, RemovalPoints

\* The shape of a request after it turned to the next sample of t.
LEMMA NextSampleShape ==
    ASSUME TypeOK, NEW r \in Requests, NEW STATE t, t \in [Keys -> RowStatus], NextSample(r, t)
    PROVE  /\ \A q \in Requests \ {r} : req'[q] = req[q]
           /\ req'[r].op = req[r].op /\ req'[r].old = req[r].old /\ req'[r].todo = t
           /\ \/ req'[r].pc = "recheck"
              \/ /\ req'[r].sample \in Keys /\ t[req'[r].sample] # "absent"
                 /\ req'[r].pc = FirstStep(t[req'[r].sample])
           /\ \A k \in Keys : ~Uploading(r, k)'
  <1> DEFINE left == {k \in Keys : t[k] # "absent"}
  <1>1. req \in [Requests -> Request] /\ req[r] \in Request
    BY DEF TypeOK
  <1>2. CASE /\ left = {}
             /\ req' = [req EXCEPT ![r] = [@ EXCEPT !.todo = t, !.sample = None,
                                                    !.pc = "recheck"]]
    BY <1>1, <1>2 DEF Request, Uploading, UploadingPoints
  <1>3. ASSUME NEW k \in Oldest(left),
               req' = [req EXCEPT ![r] = [@ EXCEPT !.todo = t, !.sample = k,
                                                   !.pc = FirstStep(t[k])]]
        PROVE  /\ \A q \in Requests \ {r} : req'[q] = req[q]
               /\ req'[r].op = req[r].op /\ req'[r].old = req[r].old /\ req'[r].todo = t
               /\ req'[r].sample \in Keys /\ t[req'[r].sample] # "absent"
               /\ req'[r].pc = FirstStep(t[req'[r].sample])
               /\ \A j \in Keys : ~Uploading(r, j)'
    <2>1. k \in Keys /\ t[k] # "absent"
      BY DEF Oldest
    <2>2. FirstStep(t[k]) \notin UploadingPoints \cup {"drop_row"}
      BY DEF FirstStep, UploadingPoints
    <2>3. QED
      BY <1>1, <1>3, <2>1, <2>2 DEF Request, Uploading
  <1>4. QED  BY <1>2, <1>3 DEF NextSample

\* ... and what it then relies on, if the statuses of t may be relied on.
LEMMA NextSampleOwn ==
    ASSUME TypeOK, NEW r \in Requests, NEW t \in [Keys -> RowStatus], NextSample(r, t),
           req[r].op = "delete",
           \A k \in Keys : Bounds(t[k], k)',
           req[r].old # None => Uploaded(req[r].old)' /\ status'[req'[r].old] # "pending"
    PROVE  Own(r)'
  <1>1. /\ req'[r].op = "delete" /\ req'[r].old = req[r].old /\ req'[r].todo = t
        /\ \/ req'[r].pc = "recheck"
           \/ /\ req'[r].sample \in Keys /\ t[req'[r].sample] # "absent"
              /\ req'[r].pc = FirstStep(t[req'[r].sample])
    BY NextSampleShape
  <1>2. SnapshotsBounded(r)'
    <2>1. req'[r].pc \notin UploadingPoints \cup {"stage"}
      BY <1>1 DEF FirstStep, UploadingPoints
    <2>2. QED  BY <1>1, <2>1 DEF SnapshotsBounded, At
  <1>3. SampleInHand(r)'
    <2>1. CASE req'[r].pc = "recheck"
      BY <1>1, <2>1 DEF SampleInHand, UploadingPoints, RemovalPoints
    <2>2. CASE /\ req'[r].sample \in Keys /\ t[req'[r].sample] # "absent"
               /\ req'[r].pc = FirstStep(t[req'[r].sample])
      <3>1. PICK k \in Keys : k = req'[r].sample
        BY <2>2
      <3>2. Bounds(t[k], k)'
        OBVIOUS
      <3>3. QED
        BY <1>1, <2>2, <3>1, <3>2 DEF SampleInHand, Bounds, FirstStep, UploadingPoints, RemovalPoints
    <2>3. QED  BY <1>1, <2>1, <2>2
  <1>4. QED  BY <1>2, <1>3 DEF Own
LEMMA GotoShape ==
    ASSUME TypeOK, NEW r \in Requests, NEW pc, Goto(r, pc)
    PROVE  /\ \A q \in Requests \ {r} : req'[q] = req[q]
           /\ req'[r].pc = pc /\ req'[r].op = req[r].op /\ req'[r].sample = req[r].sample
           /\ req'[r].old = req[r].old /\ req'[r].todo = req[r].todo
           /\ req'[r].seen = req[r].seen
  BY DEF TypeOK, Goto, Request

\* The sample an upload replaces is no longer being uploaded.
LEMMA OldStaysUploaded ==
    ASSUME IInv, NEW r \in Requests, Guarantee(r), req[r].old # None,
           req'[r].old = req[r].old
    PROVE  /\ Uploaded(req[r].old)'
           /\ status'[req'[r].old] # "pending"
  <1>1. PICK o \in Keys : o = req[r].old
    BY DEF IInv, TypeOK, Request
  <1>2. Uploaded(o)' /\ status'[o] # "pending"
    BY <1>1, GuaranteeKeepsUploaded DEF IInv, SnapshotsBounded
  <1>3. QED  BY <1>1, <1>2

\* Snapshots that are carried along remain as good as they were.
LEMMA KeepsSnapshots ==
    ASSUME IInv, NEW r \in Requests, Guarantee(r),
           req'[r].old = req[r].old, req'[r].todo = req[r].todo,
           \/ req'[r].op # "replace"
           \/ req'[r].pc \notin UploadingPoints \cup {"stage"}
           \/ req'[r].old \in Keys
    PROVE  SnapshotsBounded(r)'
  <1>1. SnapshotsBounded(r)
    BY DEF IInv
  <1>2. req[r].old # None => Uploaded(req[r].old)' /\ status'[req'[r].old] # "pending"
    BY OldStaysUploaded
  <1>3. ASSUME NEW k \in Keys
        PROVE  Bounds(req[r].todo[k], k)'
    <2>1. PICK t : t = req[r].todo[k]
      OBVIOUS
    <2>2. Bounds(t, k)'
      BY <1>1, <2>1, GuaranteeKeepsBounds DEF SnapshotsBounded
    <2>3. QED  BY <2>1, <2>2
  <1>4. QED  BY <1>2, <1>3 DEF SnapshotsBounded, At

\* A step to the point pc that leaves rows alone and moves no file forward.
LEMMA QuietGoto ==
    ASSUME IInv, NEW r \in Requests, NEW pc, Goto(r, pc),
           UNCHANGED <<status, content, active>>,
           staging' \subseteq staging, quarantine' \subseteq quarantine,
           pc \in UploadingPoints => req[r].pc \in UploadingPoints,
           pc = "drop_row" => req[r].pc \in UploadingPoints \/ req[r].op = "delete",
           pc = "stage" => req[r].op = "create"
    PROVE  Guarantee(r) /\ SnapshotsBounded(r)'
  <1>1. /\ \A q \in Requests \ {r} : req'[q] = req[q]
        /\ req'[r].pc = pc /\ req'[r].op = req[r].op /\ req'[r].sample = req[r].sample
        /\ req'[r].old = req[r].old /\ req'[r].todo = req[r].todo
    BY GotoShape DEF IInv
  <1>2. \A k \in Keys : Uploading(r, k)' => Uploading(r, k)
    BY <1>1 DEF Uploading, UploadingPoints
  <1>3. Guarantee(r)
    BY <1>1, <1>2, StillGuarantee
  <1>4. \/ req'[r].op # "replace"
        \/ req'[r].pc \notin UploadingPoints \cup {"stage"}
        \/ req'[r].old \in Keys
    BY <1>1 DEF IInv, SnapshotsBounded
  <1>5. QED  BY <1>1, <1>3, <1>4, KeepsSnapshots

\* A step that ends the request and leaves rows alone.
LEMMA QuietFinish ==
    ASSUME IInv, NEW r \in Requests, Finish(r),
           UNCHANGED <<status, content, active>>,
           staging' \subseteq staging, quarantine' \subseteq quarantine
    PROVE  Guarantee(r) /\ Own(r)'
  BY FinishOwn, StillGuarantee DEF IInv

\* An upload that lets go of its key is over.
LEMMA ReleasedUpload ==
    ASSUME IInv, NEW r \in Requests, NEW k \in Keys, Uploading(r, k), content' = content,
           \A q \in Requests \ {r} : req'[q] = req[q]
    PROVE  Uploading(r, k)' \/ Uploaded(k)'
  BY DEF IInv, UploadsExclusive, Uploaded, Uploading

\* An error leads a request out of its operation or into its compensation.
LEMMA ErrorStep ==
    ASSUME IInv, NEW r \in Requests, OnError(r), UNCHANGED <<status, content>>
    PROVE  Guarantee(r) /\ Own(r)'
  <1>1. active' = active /\ quarantine' = quarantine /\ staging' \subseteq staging
    BY OnErrorType DEF IInv
  <1>2. CASE Finish(r)
    BY <1>1, <1>2, QuietFinish
  <1>3. CASE req[r].pc = "promote" /\ Goto(r, "drop_row")
    <2>1. Guarantee(r) /\ SnapshotsBounded(r)'
      BY <1>1, <1>3, QuietGoto DEF UploadingPoints
    <2>2. req[r].sample \in Keys
      BY <1>3 DEF IInv, SampleInHand, UploadingPoints
    <2>3. SampleInHand(r)'
      BY <1>3, <2>2, GotoShape DEF IInv, SampleInHand, RemovalPoints
    <2>4. QED  BY <2>1, <2>3 DEF Own
  <1>4. CASE req[r].pc = "activate" /\ Goto(r, "undo_quarantine")
    <2>1. Guarantee(r) /\ SnapshotsBounded(r)'
      BY <1>1, <1>4, QuietGoto DEF UploadingPoints
    <2>2. PICK k \in Keys : k = req[r].sample /\ Uploading(r, k)
      BY <1>4 DEF IInv, SampleInHand, Uploading, UploadingPoints
    <2>3. /\ \A q \in Requests \ {r} : req'[q] = req[q]
          /\ req'[r].pc = "undo_quarantine" /\ req'[r].op = req[r].op /\ req'[r].sample = k
      BY <1>4, <2>2, GotoShape DEF IInv
    <2>4. Uploading(r, k)' \/ Uploaded(k)'
      BY <2>2, <2>3, ReleasedUpload
    <2>5. SampleInHand(r)'
      BY <2>2, <2>3, <2>4 DEF SampleInHand, RemovalPoints, UploadingPoints
    <2>6. QED  BY <2>1, <2>5 DEF Own
  <1>5. QED  BY <1>2, <1>3, <1>4 DEF OnError

\* A transaction commits, has no effect, or commits and seems to have failed.
LEMMA TransactionStep ==
    ASSUME IInv, NEW r \in Requests,
           NEW STATE allowed, NEW ACTION then, NEW STATE s, NEW STATE e,
           Transaction(r, allowed, s, e, then), content' = content,
           allowed /\ status' = s /\ then /\ UNCHANGED files => Guarantee(r) /\ Own(r)',
           allowed /\ status' = s /\ status # s /\ OnError(r) /\ "lost_ack" \in Faults
              => Guarantee(r) /\ Own(r)'
    PROVE  Guarantee(r) /\ Own(r)'
  BY ErrorStep DEF Transaction, rows

\* A removed sample leaves the rest of the request's snapshot as good as it was.
LEMMA SampleDoneStep ==
    ASSUME IInv, NEW r \in Requests, SampleDone(r)
    PROVE  /\ \A q \in Requests \ {r} : req'[q] = req[q]
           /\ \A k \in Keys : ~Uploading(r, k)'
           /\ Guarantee(r) => Own(r)'
  <1>1. CASE req[r].op # "delete"
    BY <1>1, FinishOwn DEF SampleDone, IInv
  <1>2. CASE req[r].op = "delete"
    <2>1. PICK t \in [Keys -> RowStatus] : t = [req[r].todo EXCEPT ![req[r].sample] = "absent"]
      BY DEF IInv, TypeOK, Request, RowStatus
    <2>2. NextSample(r, t)
      BY <1>2, <2>1 DEF SampleDone
    <2>3. /\ \A q \in Requests \ {r} : req'[q] = req[q]
          /\ \A k \in Keys : ~Uploading(r, k)'
          /\ req'[r].old = req[r].old
      BY <2>2, NextSampleShape DEF IInv
    <2>4. ASSUME Guarantee(r)
          PROVE  Own(r)'
      <3>1. ASSUME NEW k \in Keys
            PROVE  Bounds(t[k], k)'
        <4>1. t[k] = "absent" \/ t[k] = req[r].todo[k]
          BY <2>1 DEF IInv, TypeOK, Request
        <4>2. Bounds(t[k], k)
          BY <4>1 DEF IInv, SnapshotsBounded, Bounds
        <4>3. QED  BY <2>4, <4>2, GuaranteeKeepsBounds
      <3>2. ASSUME req[r].old # None
            PROVE  Uploaded(req[r].old)' /\ status'[req'[r].old] # "pending"
        BY <2>3, <2>4, <3>2, OldStaysUploaded
      <3>3. TypeOK
        BY DEF IInv
      <3>4. QED  BY <1>2, <2>2, <3>1, <3>2, <3>3, NextSampleOwn
    <2>5. QED  BY <2>3, <2>4
  <1>3. QED  BY <1>1, <1>2

\* What a request that works on k may make of its row at any time.
MayBecome(r, k, x) ==
    \/ x = "absent"
    \/ x = "pending" /\ Uploading(r, k)
    \/ /\ Uploaded(k) /\ status[k] \notin {"absent", "pending"}
       /\ \/ x = "deletion_pending"
          \/ x = "quarantined" /\ k \notin active
          \/ x = "deleted" /\ k \notin active \cup quarantine

\* A step that gives the row of k the status x and moves no file.
LEMMA RowStep ==
    ASSUME IInv, NEW r \in Requests, NEW k \in Keys, NEW x,
           \A q \in Requests \ {r} : req'[q] = req[q],
           \A j \in Keys : Uploading(r, j)' => Uploading(r, j),
           status' = [status EXCEPT ![k] = x], UNCHANGED <<content, active, quarantine>>,
           staging' \subseteq staging,
           \/ MayBecome(r, k, x)
           \/ x = "active" /\ Uploading(r, k) /\ ~Uploading(r, k)' /\ k \in active /\ k \notin staging
    PROVE  Guarantee(r)
  <1>1. \A j \in Keys : status'[j] = IF j = k THEN x ELSE status[j]
    BY DEF IInv, TypeOK
  <1>2. ClaimsOnlyFreshKeys(r)
    BY DEF ClaimsOnlyFreshKeys, IInv, UploadsExclusive
  <1>3. ChangesRowsInOrder(r)
    BY <1>1 DEF ChangesRowsInOrder, MayBecome
  <1>4. MovesFilesInOrder(r)
    BY DEF MovesFilesInOrder
  <1>5. QED  BY <1>2, <1>3, <1>4 DEF Guarantee

\* A commit of such a row whose acknowledgement is lost ends the request.
LEMMA LostRowStep ==
    ASSUME IInv, NEW r \in Requests, OnError(r), req[r].pc \notin {"promote", "activate"},
           NEW k \in Keys, NEW x, MayBecome(r, k, x),
           status' = [status EXCEPT ![k] = x], content' = content
    PROVE  Guarantee(r) /\ Own(r)'
  <1>1. Finish(r) /\ staging' \subseteq staging /\ UNCHANGED <<active, quarantine>>
    BY OnErrorType DEF OnError, IInv
  <1>2. /\ Own(r)' /\ \A q \in Requests \ {r} : req'[q] = req[q]
        /\ \A j \in Keys : ~Uploading(r, j)'
    BY <1>1, FinishOwn DEF IInv
  <1>3. QED  BY <1>1, <1>2, RowStep

\* A replacement that commits changes two rows and moves no file.
LEMMA ReplacementStep ==
    ASSUME IInv, NEW r \in Requests, NEW k \in Keys, NEW o \in Keys,
           Uploading(r, k), k \in active, k \notin staging,
           Uploaded(o), status[o] \notin {"absent", "pending"},
           status' = [status EXCEPT ![o] = "replacement_pending", ![k] = "active"],
           content' = content, UNCHANGED files,
           \A q \in Requests \ {r} : req'[q] = req[q],
           \A j \in Keys : ~Uploading(r, j)'
    PROVE  Guarantee(r)
  <1>1. k # o
    BY DEF Uploaded
  <1>2. \A j \in Keys : status'[j] = IF j = k THEN "active"
                                    ELSE IF j = o THEN "replacement_pending" ELSE status[j]
    BY <1>1 DEF IInv, TypeOK
  <1>3. ClaimsOnlyFreshKeys(r)
    BY DEF ClaimsOnlyFreshKeys, files
  <1>4. ChangesRowsInOrder(r)
    BY <1>2 DEF ChangesRowsInOrder, files
  <1>5. QED  BY <1>3, <1>4 DEF Guarantee, MovesFilesInOrder, files

\* After an activation whose acknowledgement is lost, the request undoes what
\* others know by now.
LEMMA LostActivation ==
    ASSUME IInv, "lost_ack" \in Faults, NEW r \in Requests, NEW k \in Keys, Uploading(r, k),
           req[r].sample = k, Goto(r, "undo_quarantine"), content' = content
    PROVE  /\ \A q \in Requests \ {r} : req'[q] = req[q]
           /\ \A j \in Keys : ~Uploading(r, j)'
           /\ Guarantee(r) => Own(r)'
  <1>1. /\ \A q \in Requests \ {r} : req'[q] = req[q]
        /\ req'[r].pc = "undo_quarantine" /\ req'[r].op = req[r].op /\ req'[r].sample = k
        /\ req'[r].old = req[r].old /\ req'[r].todo = req[r].todo
    BY GotoShape DEF IInv
  <1>2. \A j \in Keys : ~Uploading(r, j)'
    BY <1>1 DEF Uploading, UploadingPoints
  <1>3. Uploaded(k)'
    BY <1>1, <1>2, ReleasedUpload
  <1>4. SampleInHand(r)'
    BY <1>1, <1>3 DEF SampleInHand, RemovalPoints, UploadingPoints
  <1>5. Guarantee(r) => SnapshotsBounded(r)'
    BY <1>1, KeepsSnapshots DEF UploadingPoints
  <1>6. QED  BY <1>1, <1>2, <1>4, <1>5 DEF Own

LEMMA StartStep ==
    ASSUME IInv, NEW r \in Requests, Start(r)
    PROVE  Guarantee(r) /\ Own(r)'
  <1>1. PICK op, seen, pc :
           /\ req' = [req EXCEPT ![r] = [Idle EXCEPT !.op = op, !.seen = seen, !.pc = pc]]
           /\ pc \in {"insert_enrollment", "read_active"} \/ (pc = "list_live" /\ op = "delete")
    BY DEF Start, StartCreate, StartReplace, StartDelete
  <1>2. /\ req'[r].op = op /\ req'[r].pc = pc /\ req'[r].sample = None /\ req'[r].old = None
        /\ req'[r].todo = Nothing
        /\ \A q \in Requests \ {r} : req'[q] = req[q]
    BY <1>1 DEF IInv, TypeOK, Idle
  <1>3. UNCHANGED <<status, content, staging, active, quarantine>>
    BY DEF Start, StartCreate, StartReplace, StartDelete, rows, files
  <1>4. Guarantee(r)
    BY <1>1, <1>2, <1>3, StillGuarantee DEF Uploading, UploadingPoints
  <1>5. Own(r)'
    BY <1>1, <1>2
       DEF Own, SampleInHand, SnapshotsBounded, Bounds, At, Nothing, UploadingPoints, RemovalPoints
  <1>6. QED  BY <1>4, <1>5

LEMMA FailureStep ==
    ASSUME IInv, NEW r \in Requests, Failure(r)
    PROVE  Guarantee(r) /\ Own(r)'
  BY ErrorStep, QuietFinish DEF Failure, DatabaseError, FileError, Crash, rows, files

LEMMA UploadStepInOrder ==
    ASSUME IInv, NEW r \in Requests, UploadStep(r)
    PROVE  Guarantee(r) /\ Own(r)'
  <1>a. SampleInHand(r) /\ SnapshotsBounded(r) /\ TypeOK
    BY DEF IInv
  <1>b. req[r].pc \in UploadingPoints => req[r].sample \in Keys /\ Uploading(r, req[r].sample)
    BY <1>a DEF SampleInHand, Uploading
  <1>c. req[r].pc \in UndoPoints =>
           req[r].sample \in Keys /\ (Uploading(r, req[r].sample) \/ Uploaded(req[r].sample))
    BY <1>a DEF SampleInHand
  <1>1. CASE InsertEnrollment(r)
    <2>1. ASSUME req' = [req EXCEPT ![r] = [@ EXCEPT !.pc = "read_active", !.seen = "pending"]],
                 status' = status, UNCHANGED files
          PROVE  Guarantee(r) /\ Own(r)'
      <3>1. /\ req'[r].pc = "read_active" /\ req'[r].op = req[r].op
            /\ req'[r].old = req[r].old /\ req'[r].todo = req[r].todo
            /\ \A q \in Requests \ {r} : req'[q] = req[q]
        BY <1>a, <2>1 DEF TypeOK, Request
      <3>2. Guarantee(r)
        BY <1>1, <2>1, <3>1, StillGuarantee DEF InsertEnrollment, files, Uploading, UploadingPoints
      <3>3. Own(r)'
        BY <3>1, <3>2, KeepsSnapshots DEF Own, SampleInHand, UploadingPoints, RemovalPoints
      <3>4. QED  BY <3>2, <3>3
    <2>2. content' = content
      BY <1>1 DEF InsertEnrollment
    <2>3. Transaction(r, enrollment = "absent", status, "pending",
                      req' = [req EXCEPT ![r] = [@ EXCEPT !.pc = "read_active", !.seen = "pending"]])
      BY <1>1 DEF InsertEnrollment
    <2>4. QED  BY <2>1, <2>2, <2>3, TransactionStep
  <1>2. CASE ReadActive(r)
    <2>1. UNCHANGED <<status, content, staging, active, quarantine>>
      BY <1>2 DEF ReadActive, rows, files
    <2>2. CASE req[r].op = "create" /\ Goto(r, "stage")
      <3>1. Guarantee(r) /\ SnapshotsBounded(r)'
        BY <2>1, <2>2, QuietGoto DEF UploadingPoints
      <3>2. SampleInHand(r)'
        BY <1>a, <2>2, GotoShape DEF SampleInHand, UploadingPoints, RemovalPoints
      <3>3. QED  BY <3>1, <3>2 DEF Own
    <2>3. ASSUME NEW o \in Keys, status[o] = "active",
                 req' = [req EXCEPT ![r] = [@ EXCEPT !.old = o, !.pc = "stage"]]
          PROVE  Guarantee(r) /\ Own(r)'
      <3>1. /\ req'[r].pc = "stage" /\ req'[r].op = req[r].op
            /\ req'[r].old = o /\ req'[r].todo = req[r].todo
            /\ \A q \in Requests \ {r} : req'[q] = req[q]
        BY <1>a, <2>3 DEF TypeOK, Request
      <3>2. Guarantee(r)
        BY <2>1, <3>1, StillGuarantee DEF Uploading, UploadingPoints
      <3>3. Uploaded(o)' /\ status'[o] # "pending"
        BY <2>3, <3>2, GuaranteeKeepsUploaded DEF IInv, RowsTruthful
      <3>4. ASSUME NEW k \in Keys
            PROVE  Bounds(req[r].todo[k], k)'
        <4>1. PICK t : t = req[r].todo[k]
          OBVIOUS
        <4>2. Bounds(t, k)'
          BY <1>a, <3>2, <4>1, GuaranteeKeepsBounds DEF SnapshotsBounded
        <4>3. QED  BY <3>1, <4>1, <4>2
      <3>5. SnapshotsBounded(r)'
        BY <3>1, <3>3, <3>4 DEF SnapshotsBounded, At
      <3>6. SampleInHand(r)'
        BY <3>1 DEF SampleInHand, UploadingPoints, RemovalPoints
      <3>7. QED  BY <3>2, <3>5, <3>6 DEF Own
    <2>4. CASE Finish(r)
      BY <2>1, <2>4, QuietFinish
    <2>5. QED  BY <1>2, <2>2, <2>3, <2>4 DEF ReadActive
  <1>3. CASE WriteStaged(r)
    <2>1. PICK k \in Keys, c \in Contents :
             /\ content[k] = None
             /\ content' = [content EXCEPT ![k] = c]
             /\ staging' = staging \cup {k}
             /\ req' = [req EXCEPT ![r] = [@ EXCEPT !.sample = k, !.pc = "validate"]]
      BY <1>3 DEF WriteStaged
    <2>2. /\ req'[r].pc = "validate" /\ req'[r].op = req[r].op /\ req'[r].sample = k
          /\ req'[r].old = req[r].old /\ req'[r].todo = req[r].todo
          /\ \A q \in Requests \ {r} : req'[q] = req[q]
      BY <1>a, <2>1 DEF TypeOK, Request
    <2>3. content'[k] # None /\ \A j \in Keys : content[j] # None => content'[j] = content[j]
      BY <1>a, <2>1, NoneAssumption DEF TypeOK
    <2>4. UNCHANGED <<status, active, quarantine>> /\ req[r].pc = "stage"
      BY <1>3 DEF WriteStaged, rows
    <2>5. ClaimsOnlyFreshKeys(r)
      BY <2>1, <2>2, <2>3 DEF ClaimsOnlyFreshKeys, Uploading
    <2>6. Guarantee(r)
      BY <2>4, <2>5 DEF Guarantee, ChangesRowsInOrder, MovesFilesInOrder
    <2>7. \/ req'[r].op # "replace"
          \/ req'[r].old \in Keys
      BY <1>a, <2>2, <2>4 DEF SnapshotsBounded, At
    <2>8. SnapshotsBounded(r)'
      BY <2>2, <2>6, <2>7, KeepsSnapshots
    <2>9. SampleInHand(r)'
      BY <2>2 DEF SampleInHand, RemovalPoints
    <2>10. QED  BY <2>6, <2>8, <2>9 DEF Own
  <1>4. CASE AbortWrite(r)
    BY <1>4, QuietFinish DEF AbortWrite, rows, files
  <1>5. CASE Validate(r)
    <2>1. CASE Goto(r, "insert_row") /\ UNCHANGED files
      <3>1. Guarantee(r) /\ SnapshotsBounded(r)'
        BY <1>5, <2>1, QuietGoto DEF Validate, rows, files, UploadingPoints
      <3>2. req[r].sample \in Keys
        BY <1>5, <1>b DEF Validate, UploadingPoints
      <3>3. SampleInHand(r)'
        BY <1>a, <2>1, <3>2, GotoShape DEF SampleInHand, RemovalPoints
      <3>4. QED  BY <3>1, <3>3 DEF Own
    <2>2. CASE DiscardStaged(req[r].sample) /\ Finish(r)
      BY <1>5, <2>2, QuietFinish DEF Validate, rows, DiscardStaged
    <2>3. QED  BY <1>5, <2>1, <2>2 DEF Validate
  <1>6. CASE InsertRow(r)
    <2> DEFINE s == [status EXCEPT ![req[r].sample] = "pending"]
    <2>1. PICK k \in Keys : k = req[r].sample /\ Uploading(r, k)
      BY <1>6, <1>b DEF InsertRow, UploadingPoints
    <2>2. ASSUME status' = s, Goto(r, "promote"), UNCHANGED files
          PROVE  Guarantee(r) /\ Own(r)'
      <3>1. /\ req'[r].pc = "promote" /\ req'[r].op = req[r].op /\ req'[r].sample = k
            /\ req'[r].old = req[r].old /\ req'[r].todo = req[r].todo
            /\ \A q \in Requests \ {r} : req'[q] = req[q]
        BY <1>a, <2>1, <2>2, GotoShape
      <3>2. Uploading(r, k)' /\ \A j \in Keys : Uploading(r, j)' => Uploading(r, j)
        BY <2>1, <3>1 DEF Uploading, UploadingPoints
      <3>3. content' = content
        BY <1>6 DEF InsertRow
      <3>4. Guarantee(r)
        BY <2>1, <2>2, <3>1, <3>2, <3>3, RowStep DEF MayBecome, files
      <3>5. req'[r].op # "replace" \/ req'[r].old \in Keys
        BY <1>a, <1>6, <3>1 DEF SnapshotsBounded, InsertRow, UploadingPoints
      <3>6. SnapshotsBounded(r)'
        BY <3>1, <3>4, <3>5, KeepsSnapshots
      <3>7. SampleInHand(r)'
        BY <3>1 DEF SampleInHand, RemovalPoints
      <3>8. QED  BY <3>4, <3>6, <3>7 DEF Own
    <2>3. Transaction(r, UniqueContent(s), s, enrollment, Goto(r, "promote")) /\ content' = content
      BY <1>6 DEF InsertRow
    <2>4. ASSUME status' = s, OnError(r)
          PROVE  Guarantee(r) /\ Own(r)'
      BY <1>6, <2>1, <2>3, <2>4, LostRowStep DEF InsertRow, MayBecome
    <2> HIDE DEF s
    <2>5. QED  BY <2>2, <2>3, <2>4, TransactionStep
  <1>7. CASE Promote(r)
    <2>1. PICK k \in Keys : k = req[r].sample /\ Uploading(r, k)
      BY <1>7, <1>b DEF Promote, UploadingPoints
    <2>2. UNCHANGED <<status, content>>
      BY <1>7 DEF Promote, rows
    <2>3. CASE /\ k \in staging /\ staging' = staging \ {k} /\ active' = active \cup {k}
               /\ Goto(r, "activate") /\ UNCHANGED quarantine
      <3>1. /\ req'[r].pc = "activate" /\ req'[r].op = req[r].op /\ req'[r].sample = k
            /\ req'[r].old = req[r].old /\ req'[r].todo = req[r].todo
            /\ \A q \in Requests \ {r} : req'[q] = req[q]
        BY <1>a, <2>1, <2>3, GotoShape
      <3>2. Uploading(r, k)' /\ \A j \in Keys : Uploading(r, j)' => Uploading(r, j)
        BY <2>1, <3>1 DEF Uploading, UploadingPoints
      <3>3. ClaimsOnlyFreshKeys(r)
        BY <2>2, <2>3, <3>1, <3>2 DEF ClaimsOnlyFreshKeys, IInv, UploadsExclusive
      <3>4. Guarantee(r)
        BY <2>1, <2>2, <2>3, <3>2, <3>3 DEF Guarantee, ChangesRowsInOrder, MovesFilesInOrder
      <3>5. req'[r].op # "replace" \/ req'[r].old \in Keys
        BY <1>a, <1>7, <3>1 DEF SnapshotsBounded, Promote, UploadingPoints
      <3>6. SnapshotsBounded(r)'
        BY <3>1, <3>4, <3>5, KeepsSnapshots
      <3>7. SampleInHand(r)'
        BY <2>3, <3>1 DEF SampleInHand, RemovalPoints
      <3>8. QED  BY <3>4, <3>6, <3>7 DEF Own
    <2>4. CASE OnError(r)
      BY <2>2, <2>4, ErrorStep
    <2>5. QED  BY <1>7, <2>1, <2>3, <2>4 DEF Promote
  <1>8. CASE ActivateCreated(r)
    <2> DEFINE k == req[r].sample
               s == [status EXCEPT ![k] = "active"]
               e == IF req[r].seen = "active" THEN enrollment ELSE "active"
    <2>1. ASSUME status' = s, Finish(r), UNCHANGED files
          PROVE  Guarantee(r) /\ Own(r)'
      <3>1. PICK j \in Keys : j = k /\ Uploading(r, j) /\ j \in active /\ j \notin staging
        BY <1>a, <1>b, <1>8 DEF ActivateCreated, At, SampleInHand, UploadingPoints
      <3>2. /\ Own(r)' /\ \A q \in Requests \ {r} : req'[q] = req[q]
            /\ \A i \in Keys : ~Uploading(r, i)'
        BY <1>a, <2>1, FinishOwn
      <3>3. content' = content /\ status' = [status EXCEPT ![j] = "active"]
        BY <1>8, <2>1, <3>1 DEF ActivateCreated
      <3>4. Guarantee(r)
        BY <2>1, <3>1, <3>2, <3>3, RowStep DEF files
      <3>5. QED  BY <3>2, <3>4
    <2>2. Transaction(r, Updates({k}, s), s, e, Finish(r)) /\ content' = content
      BY <1>8 DEF ActivateCreated
    <2>3. ASSUME status' = s, OnError(r), "lost_ack" \in Faults
          PROVE  Guarantee(r) /\ Own(r)'
      <3>1. PICK j \in Keys : j = k /\ Uploading(r, j) /\ j \in active /\ j \notin staging
        BY <1>a, <1>b, <1>8 DEF ActivateCreated, At, SampleInHand, UploadingPoints
      <3>2. Goto(r, "undo_quarantine") /\ UNCHANGED files /\ content' = content
        BY <1>8, <2>2, <2>3 DEF ActivateCreated, At, OnError
      <3>3. status' = [status EXCEPT ![j] = "active"]
        BY <2>3, <3>1
      <3>4. Guarantee(r)
        BY <2>3, <3>1, <3>2, <3>3, LostActivation, RowStep DEF files
      <3>5. QED  BY <2>3, <3>1, <3>2, <3>4, LostActivation
    <2> HIDE DEF s, e
    <2>4. QED  BY <2>1, <2>2, <2>3, TransactionStep
  <1>9. CASE ActivateReplacement(r)
    <2> DEFINE s == [status EXCEPT ![req[r].old] = "replacement_pending",
                                   ![req[r].sample] = "active"]
               then == req' = [req EXCEPT ![r] = [@ EXCEPT !.sample = req[r].old, !.pc = "quarantine"]]
               ok == Updates({req[r].sample, req[r].old}, s)
    <2>1. ASSUME ok, status' = s, then, UNCHANGED files
          PROVE  Guarantee(r) /\ Own(r)'
      <3>1. PICK k \in Keys : k = req[r].sample /\ Uploading(r, k) /\ k \in active /\ k \notin staging
        BY <1>a, <1>b, <1>9 DEF ActivateReplacement, At, SampleInHand, UploadingPoints
      <3>2. PICK o \in Keys : o = req[r].old /\ Uploaded(o) /\ status[o] # "pending"
        BY <1>a, <1>9, NoneAssumption
           DEF ActivateReplacement, At, SnapshotsBounded, UploadingPoints
      <3>3. status[o] # "absent" /\ k # o
        BY <2>1, <3>1, <3>2 DEF Updates, Uploaded
      <3>4. /\ req'[r].pc = "quarantine" /\ req'[r].op = "replace" /\ req'[r].sample = o
            /\ req'[r].old = o /\ req'[r].todo = req[r].todo
            /\ \A q \in Requests \ {r} : req'[q] = req[q]
        BY <1>a, <1>9, <2>1, <3>2 DEF ActivateReplacement, At, TypeOK, Request
      <3>5. content' = content /\ \A j \in Keys : ~Uploading(r, j)'
        BY <1>9, <3>4 DEF ActivateReplacement, Uploading, UploadingPoints
      <3>6. Guarantee(r)
        BY <2>1, <3>1, <3>2, <3>3, <3>4, <3>5, ReplacementStep
      <3>7. SnapshotsBounded(r)'
        BY <3>2, <3>4, <3>6, KeepsSnapshots DEF RemovalPoints, UploadingPoints
      <3>8. Uploaded(o)' /\ status'[o] = "replacement_pending"
        BY <1>a, <2>1, <3>1, <3>2, <3>3, <3>6, GuaranteeKeepsUploaded DEF TypeOK
      <3>9. SampleInHand(r)'
        BY <3>4, <3>8 DEF SampleInHand, UploadingPoints, RemovalPoints
      <3>10. QED  BY <3>6, <3>7, <3>9 DEF Own
    <2>2. Transaction(r, ok, s, enrollment, then) /\ content' = content
      BY <1>9 DEF ActivateReplacement
    <2>3. ASSUME ok, status' = s, OnError(r), "lost_ack" \in Faults
          PROVE  Guarantee(r) /\ Own(r)'
      <3>1. PICK k \in Keys : k = req[r].sample /\ Uploading(r, k) /\ k \in active /\ k \notin staging
        BY <1>a, <1>b, <1>9 DEF ActivateReplacement, At, SampleInHand, UploadingPoints
      <3>2. PICK o \in Keys : o = req[r].old /\ Uploaded(o) /\ status[o] # "pending"
        BY <1>a, <1>9, NoneAssumption
           DEF ActivateReplacement, At, SnapshotsBounded, UploadingPoints
      <3>3. status[o] # "absent"
        BY <2>3, <3>2 DEF Updates
      <3>4. Goto(r, "undo_quarantine") /\ UNCHANGED files
        BY <1>9, <2>3 DEF ActivateReplacement, At, OnError
      <3>5. Guarantee(r)
        BY <2>2, <2>3, <3>1, <3>2, <3>3, <3>4, LostActivation, ReplacementStep
      <3>6. QED  BY <2>2, <2>3, <3>1, <3>4, <3>5, LostActivation
    <2> HIDE DEF s, then, ok
    <2>4. QED  BY <2>1, <2>2, <2>3, TransactionStep
  <1>10. CASE UndoQuarantine(r)
    <2>1. PICK k \in Keys : k = req[r].sample /\ (Uploading(r, k) \/ Uploaded(k))
      BY <1>10, <1>c DEF UndoQuarantine
    <2>2. PICK pc \in {"undo_purge", "undo_row"} : Goto(r, pc)
      BY <1>10 DEF UndoQuarantine
    <2>3. /\ req'[r].pc = pc /\ req'[r].op = req[r].op /\ req'[r].sample = k
          /\ req'[r].old = req[r].old /\ req'[r].todo = req[r].todo
          /\ \A q \in Requests \ {r} : req'[q] = req[q]
      BY <1>a, <2>1, <2>2, GotoShape
    <2>4. /\ UNCHANGED <<status, content, staging>>
          /\ active' \subseteq active
          /\ \A j \in active : j \notin active' => j = k
          /\ \A j \in quarantine' : j \in quarantine \/ j \in active
          /\ req[r].pc = "undo_quarantine"
      BY <1>10, <2>1 DEF UndoQuarantine, rows
    <2>5. \A j \in Keys : Uploading(r, j)' => Uploading(r, j)
      BY <2>1, <2>3, <2>4 DEF Uploading, UploadingPoints
    <2>6. status[k] # "active" \/ "lost_ack" \in Faults
      <3>1. "lost_ack" \notin Faults => Uploading(r, k)
        BY <2>1, <2>4 DEF Uploading, UploadingPoints
      <3>2. QED  BY <3>1 DEF IInv, UploadsExclusive
    <2>7. ClaimsOnlyFreshKeys(r)
      BY <2>3, <2>4, <2>5 DEF ClaimsOnlyFreshKeys, IInv, UploadsExclusive
    <2>8. Guarantee(r)
      BY <2>1, <2>4, <2>6, <2>7 DEF Guarantee, ChangesRowsInOrder, MovesFilesInOrder
    <2>9. req'[r].op # "replace" \/ req'[r].pc \notin UploadingPoints \cup {"stage"}
              \/ req'[r].old \in Keys
      BY <1>a, <2>3, <2>4 DEF SnapshotsBounded, UploadingPoints
    <2>10. SnapshotsBounded(r)'
      BY <2>3, <2>8, <2>9, KeepsSnapshots
    <2>11. Uploading(r, k)' \/ Uploaded(k)'
      BY <2>1, <2>3, <2>4, <2>8, ReleasedUpload, GuaranteeKeepsUploaded
    <2>12. SampleInHand(r)'
      BY <2>3, <2>11 DEF SampleInHand, RemovalPoints, UploadingPoints
    <2>13. QED  BY <2>8, <2>10, <2>12 DEF Own
  <1>11. CASE UndoPurge(r)
    <2>1. Guarantee(r) /\ SnapshotsBounded(r)'
      BY <1>11, QuietGoto DEF UndoPurge, rows, UploadingPoints
    <2>2. PICK k \in Keys : k = req[r].sample /\ (Uploading(r, k) \/ Uploaded(k))
      BY <1>11, <1>c DEF UndoPurge
    <2>3. /\ req'[r].pc = "undo_row" /\ req'[r].op = req[r].op /\ req'[r].sample = k
          /\ content' = content /\ \A q \in Requests \ {r} : req'[q] = req[q]
      BY <1>a, <1>11, <2>2, GotoShape DEF UndoPurge
    <2>4. Uploading(r, k)' \/ Uploaded(k)'
      BY <2>1, <2>2, <2>3, ReleasedUpload, GuaranteeKeepsUploaded
    <2>5. SampleInHand(r)'
      BY <2>3, <2>4 DEF SampleInHand, RemovalPoints, UploadingPoints
    <2>6. QED  BY <2>1, <2>5 DEF Own
  <1>12. CASE UndoRow(r)
    <2> DEFINE k == req[r].sample
               s == [status EXCEPT ![k] = IF @ = "pending" THEN "absent" ELSE @]
    <2>1. ASSUME status' = s, Finish(r), UNCHANGED files
          PROVE  Guarantee(r) /\ Own(r)'
      <3>1. /\ Own(r)' /\ \A q \in Requests \ {r} : req'[q] = req[q]
            /\ \A j \in Keys : ~Uploading(r, j)'
        BY <1>a, <2>1, FinishOwn
      <3>2. \A j \in Keys : status'[j] # status[j] => status'[j] = "absent"
        BY <1>a, <2>1 DEF TypeOK
      <3>3. content' = content
        BY <1>12 DEF UndoRow
      <3>4. Guarantee(r)
        BY <2>1, <3>1, <3>2, <3>3
           DEF Guarantee, ClaimsOnlyFreshKeys, ChangesRowsInOrder, MovesFilesInOrder, files
      <3>5. QED  BY <3>1, <3>4
    <2>2. Transaction(r, TRUE, s, enrollment, Finish(r)) /\ content' = content
      BY <1>12 DEF UndoRow
    <2>3. ASSUME status' = s, status # s, OnError(r)
          PROVE  Guarantee(r) /\ Own(r)'
      <3>1. PICK j \in Keys : j = k
        BY <1>12, <1>c DEF UndoRow
      <3>2. status' = [status EXCEPT ![j] = "absent"]
        BY <1>a, <2>3, <3>1 DEF TypeOK
      <3>3. QED  BY <1>12, <2>2, <2>3, <3>2, LostRowStep DEF UndoRow, MayBecome
    <2> HIDE DEF s
    <2>4. QED  BY <2>1, <2>2, <2>3, TransactionStep
  <1>13. QED
    BY <1>1, <1>2, <1>3, <1>4, <1>5, <1>6, <1>7, <1>8, <1>9, <1>10, <1>11, <1>12 DEF UploadStep

LEMMA RemovalStepInOrder ==
    ASSUME IInv, NEW r \in Requests, RemovalStep(r)
    PROVE  Guarantee(r) /\ Own(r)'
  <1>a. SampleInHand(r) /\ SnapshotsBounded(r) /\ TypeOK
    BY DEF IInv
  <1>1. CASE ListLive(r)
    <2>1. UNCHANGED <<status, content, staging, active, quarantine>> /\ req[r].op = "delete"
      BY <1>a, <1>1 DEF ListLive, SampleInHand, rows, files
    <2>2. PICK t \in [Keys -> RowStatus] :
             t = [k \in Keys |-> IF Live(status, k) THEN status[k] ELSE "absent"]
      BY <1>a DEF TypeOK, RowStatus
    <2>3. ASSUME NEW k \in Keys
          PROVE  Bounds(t[k], k)
      BY <2>2 DEF Bounds, Live, IInv, RowsTruthful
    <2>4. CASE Finish(r)
      BY <2>1, <2>4, QuietFinish
    <2>5. CASE req' = [req EXCEPT ![r] = [@ EXCEPT !.todo = t, !.pc = "request_deletion"]]
      <3>1. /\ req'[r].pc = "request_deletion" /\ req'[r].op = "delete"
            /\ req'[r].old = req[r].old /\ req'[r].todo = t
            /\ \A q \in Requests \ {r} : req'[q] = req[q]
        BY <1>a, <2>1, <2>5 DEF TypeOK, Request
      <3>2. Guarantee(r)
        BY <2>1, <3>1, StillGuarantee DEF Uploading, UploadingPoints
      <3>3. \A k \in Keys : Bounds(t[k], k)'
        BY <2>3, <3>2, GuaranteeKeepsBounds
      <3>4. req[r].old # None => Uploaded(req[r].old)' /\ status'[req'[r].old] # "pending"
        BY <3>1, <3>2, OldStaysUploaded
      <3>5. SnapshotsBounded(r)'
        BY <3>1, <3>3, <3>4 DEF SnapshotsBounded, At
      <3>6. SampleInHand(r)'
        BY <3>1 DEF SampleInHand, UploadingPoints, RemovalPoints
      <3>7. QED  BY <3>2, <3>5, <3>6 DEF Own
    <2>6. CASE NextSample(r, t)
      <3>1. /\ \A q \in Requests \ {r} : req'[q] = req[q]
            /\ req'[r].old = req[r].old
            /\ \A k \in Keys : ~Uploading(r, k)'
        BY <1>a, <2>6, NextSampleShape
      <3>2. Guarantee(r)
        BY <2>1, <3>1, StillGuarantee
      <3>3. \A k \in Keys : Bounds(t[k], k)'
        BY <2>3, <3>2, GuaranteeKeepsBounds
      <3>4. req[r].old # None => Uploaded(req[r].old)' /\ status'[req'[r].old] # "pending"
        BY <3>1, <3>2, OldStaysUploaded
      <3>5. QED  BY <1>a, <2>1, <2>6, <3>2, <3>3, <3>4, NextSampleOwn
    <2>7. QED  BY <1>1, <2>2, <2>4, <2>5, <2>6 DEF ListLive
  <1>2. CASE RequestDeletion(r)
    <2>1. ASSUME status' = status, NextSample(r, req[r].todo), UNCHANGED files
          PROVE  Guarantee(r) /\ Own(r)'
      <3>1. PICK t \in [Keys -> RowStatus] : t = req[r].todo
        BY <1>a DEF TypeOK, Request
      <3>2. NextSample(r, t) /\ req[r].op = "delete" /\ content' = content
        BY <1>a, <1>2, <2>1, <3>1 DEF RequestDeletion, SampleInHand
      <3>3. /\ \A q \in Requests \ {r} : req'[q] = req[q]
            /\ req'[r].old = req[r].old
            /\ \A k \in Keys : ~Uploading(r, k)'
        BY <1>a, <3>2, NextSampleShape
      <3>4. Guarantee(r)
        BY <2>1, <3>2, <3>3, StillGuarantee DEF files
      <3>5. ASSUME NEW k \in Keys
            PROVE  Bounds(t[k], k)'
        BY <1>a, <3>1, <3>4, GuaranteeKeepsBounds DEF SnapshotsBounded
      <3>6. req[r].old # None => Uploaded(req[r].old)' /\ status'[req'[r].old] # "pending"
        BY <3>3, <3>4, OldStaysUploaded
      <3>7. QED  BY <1>a, <3>2, <3>4, <3>5, <3>6, NextSampleOwn
    <2>2. Transaction(r, TRUE, status, "deletion_pending", NextSample(r, req[r].todo))
          /\ content' = content
      BY <1>2 DEF RequestDeletion
    <2>3. QED  BY <2>1, <2>2, TransactionStep
  <1>3. CASE DiscardPending(r)
    <2>1. Guarantee(r) /\ SnapshotsBounded(r)'
      BY <1>a, <1>3, QuietGoto DEF DiscardPending, DiscardStaged, SampleInHand, rows, UploadingPoints
    <2>2. req[r].sample \in Keys
      BY <1>a, <1>3 DEF DiscardPending, SampleInHand
    <2>3. SampleInHand(r)'
      BY <1>a, <1>3, <2>2, GotoShape DEF DiscardPending, SampleInHand, RemovalPoints
    <2>4. QED  BY <2>1, <2>3 DEF Own
  <1>4. CASE DropRow(r)
    <2> DEFINE s == [status EXCEPT ![req[r].sample] = "absent"]
    <2>1. ASSUME status' = s, SampleDone(r), UNCHANGED files
          PROVE  Guarantee(r) /\ Own(r)'
      <3>1. PICK k \in Keys : k = req[r].sample
        BY <1>a, <1>4 DEF DropRow, SampleInHand
      <3>2. status' = [status EXCEPT ![k] = "absent"] /\ content' = content
        BY <1>4, <2>1, <3>1 DEF DropRow
      <3>3. Guarantee(r)
        BY <2>1, <3>2, SampleDoneStep, RowStep DEF MayBecome, files
      <3>4. QED  BY <2>1, <3>3, SampleDoneStep
    <2>2. Transaction(r, TRUE, s, enrollment, SampleDone(r)) /\ content' = content
      BY <1>4 DEF DropRow
    <2>3. ASSUME status' = s, OnError(r)
          PROVE  Guarantee(r) /\ Own(r)'
      BY <1>a, <1>4, <2>2, <2>3, LostRowStep DEF DropRow, SampleInHand, MayBecome
    <2> HIDE DEF s
    <2>4. QED  BY <2>1, <2>2, <2>3, TransactionStep
  <1>5. CASE MarkDeletionPending(r)
    <2> DEFINE s == [status EXCEPT ![req[r].sample] = "deletion_pending"]
               ok == Updates({req[r].sample}, s)
    <2>1. ASSUME ok, status' = s, Goto(r, "quarantine"), UNCHANGED files
          PROVE  Guarantee(r) /\ Own(r)'
      <3>1. PICK k \in Keys : /\ k = req[r].sample /\ Uploaded(k) /\ status[k] # "pending"
                              /\ req[r].pc = "mark_quarantined" => k \notin active
        BY <1>a, <1>5 DEF MarkDeletionPending, SampleInHand, RemovalPoints
      <3>2. status[k] # "absent"
        BY <2>1, <3>1 DEF Updates
      <3>3. /\ req'[r].pc = "quarantine" /\ req'[r].op = req[r].op /\ req'[r].sample = k
            /\ req'[r].old = req[r].old /\ req'[r].todo = req[r].todo
            /\ \A q \in Requests \ {r} : req'[q] = req[q]
        BY <1>a, <2>1, <3>1, GotoShape
      <3>4. \A j \in Keys : ~Uploading(r, j)'
        BY <3>3 DEF Uploading, UploadingPoints
      <3>5. content' = content /\ status' = [status EXCEPT ![k] = "deletion_pending"]
        BY <1>5, <2>1, <3>1 DEF MarkDeletionPending
      <3>6. Guarantee(r)
        BY <1>5, <2>1, <3>1, <3>2, <3>3, <3>4, <3>5, RowStep DEF MarkDeletionPending, MayBecome, files
      <3>7. SnapshotsBounded(r)'
        BY <3>3, <3>6, KeepsSnapshots DEF UploadingPoints
      <3>8. Uploaded(k)' /\ status'[k] = "deletion_pending" /\ (k \notin active => k \notin active')
        BY <1>a, <3>1, <3>5, <3>6, GuaranteeKeepsUploaded DEF TypeOK
      <3>9. SampleInHand(r)'
        BY <1>5, <3>1, <3>3, <3>8 DEF MarkDeletionPending, SampleInHand, UploadingPoints, RemovalPoints
      <3>10. QED  BY <3>6, <3>7, <3>9 DEF Own
    <2>2. Transaction(r, ok, s, enrollment, Goto(r, "quarantine")) /\ content' = content
      BY <1>5 DEF MarkDeletionPending
    <2>3. ASSUME ok, status' = s, OnError(r)
          PROVE  Guarantee(r) /\ Own(r)'
      <3>1. PICK k \in Keys : /\ k = req[r].sample /\ Uploaded(k) /\ status[k] # "pending"
        BY <1>a, <1>5 DEF MarkDeletionPending, SampleInHand, RemovalPoints
      <3>2. status[k] # "absent" /\ req[r].pc \notin {"promote", "activate"}
        BY <1>5, <2>3, <3>1 DEF Updates, MarkDeletionPending
      <3>3. QED  BY <2>2, <2>3, <3>1, <3>2, LostRowStep DEF MayBecome
    <2> HIDE DEF s, ok
    <2>4. QED  BY <2>1, <2>2, <2>3, TransactionStep
  <1>6. CASE Quarantine(r)
    <2>1. PICK k \in Keys : k = req[r].sample /\ Uploaded(k) /\ status[k] \notin {"pending", "active"}
      BY <1>a, <1>6 DEF Quarantine, SampleInHand, RemovalPoints
    <2>2. /\ req'[r].pc = "mark_quarantined" /\ req'[r].op = req[r].op /\ req'[r].sample = k
          /\ req'[r].old = req[r].old /\ req'[r].todo = req[r].todo
          /\ \A q \in Requests \ {r} : req'[q] = req[q]
      BY <1>a, <1>6, <2>1, GotoShape DEF Quarantine
    <2>3. /\ UNCHANGED <<status, content, staging>>
          /\ active' \subseteq active /\ k \notin active'
          /\ \A j \in active : j \notin active' => j = k
          /\ \A j \in quarantine' : j \in quarantine \/ j \in active
      BY <1>6, <2>1 DEF Quarantine, rows
    <2>4. Guarantee(r)
      BY <2>1, <2>2, <2>3
         DEF Guarantee, ClaimsOnlyFreshKeys, ChangesRowsInOrder, MovesFilesInOrder,
             Uploading, UploadingPoints
    <2>5. SnapshotsBounded(r)'
      BY <2>2, <2>4, KeepsSnapshots DEF UploadingPoints
    <2>6. Uploaded(k)'
      BY <2>1, <2>4, GuaranteeKeepsUploaded
    <2>7. SampleInHand(r)'
      BY <2>1, <2>2, <2>3, <2>6 DEF SampleInHand, UploadingPoints, RemovalPoints
    <2>8. QED  BY <2>4, <2>5, <2>7 DEF Own
  <1>7. CASE MarkQuarantined(r)
    <2> DEFINE s == [status EXCEPT ![req[r].sample] = "quarantined"]
               ok == Updates({req[r].sample}, s)
    <2>1. ASSUME ok, status' = s, Goto(r, "purge"), UNCHANGED files
          PROVE  Guarantee(r) /\ Own(r)'
      <3>1. PICK k \in Keys : /\ k = req[r].sample /\ Uploaded(k) /\ status[k] # "pending"
                              /\ req[r].pc = "mark_quarantined" => k \notin active
        BY <1>a, <1>7 DEF MarkQuarantined, SampleInHand, RemovalPoints
      <3>2. status[k] # "absent"
        BY <2>1, <3>1 DEF Updates
      <3>3. /\ req'[r].pc = "purge" /\ req'[r].op = req[r].op /\ req'[r].sample = k
            /\ req'[r].old = req[r].old /\ req'[r].todo = req[r].todo
            /\ \A q \in Requests \ {r} : req'[q] = req[q]
        BY <1>a, <2>1, <3>1, GotoShape
      <3>4. \A j \in Keys : ~Uploading(r, j)'
        BY <3>3 DEF Uploading, UploadingPoints
      <3>5. content' = content /\ status' = [status EXCEPT ![k] = "quarantined"]
        BY <1>7, <2>1, <3>1 DEF MarkQuarantined
      <3>6. Guarantee(r)
        BY <1>7, <2>1, <3>1, <3>2, <3>3, <3>4, <3>5, RowStep DEF MarkQuarantined, MayBecome, files
      <3>7. SnapshotsBounded(r)'
        BY <3>3, <3>6, KeepsSnapshots DEF UploadingPoints
      <3>8. Uploaded(k)' /\ status'[k] = "quarantined" /\ (k \notin active => k \notin active')
        BY <1>a, <3>1, <3>5, <3>6, GuaranteeKeepsUploaded DEF TypeOK
      <3>9. SampleInHand(r)'
        BY <1>7, <3>1, <3>3, <3>8 DEF MarkQuarantined, SampleInHand, UploadingPoints, RemovalPoints
      <3>10. QED  BY <3>6, <3>7, <3>9 DEF Own
    <2>2. Transaction(r, ok, s, enrollment, Goto(r, "purge")) /\ content' = content
      BY <1>7 DEF MarkQuarantined
    <2>3. ASSUME ok, status' = s, OnError(r)
          PROVE  Guarantee(r) /\ Own(r)'
      <3>1. PICK k \in Keys : /\ k = req[r].sample /\ Uploaded(k) /\ status[k] # "pending"
                              /\ k \notin active
        BY <1>a, <1>7 DEF MarkQuarantined, SampleInHand, RemovalPoints
      <3>2. status[k] # "absent" /\ req[r].pc \notin {"promote", "activate"}
        BY <1>7, <2>3, <3>1 DEF Updates, MarkQuarantined
      <3>3. QED  BY <2>2, <2>3, <3>1, <3>2, LostRowStep DEF MayBecome
    <2> HIDE DEF s, ok
    <2>4. QED  BY <2>1, <2>2, <2>3, TransactionStep
  <1>8. CASE Purge(r)
    <2>1. PICK k \in Keys : /\ k = req[r].sample /\ Uploaded(k) /\ k \notin active
                            /\ status[k] \notin {"pending", "active"}
      BY <1>a, <1>8 DEF Purge, SampleInHand, RemovalPoints
    <2>2. UNCHANGED <<status, content, staging, active>> /\ quarantine' = quarantine \ {k}
      BY <1>8, <2>1 DEF Purge, rows
    <2>3. Goto(r, "mark_deleted")
      BY <1>8 DEF Purge
    <2>4. Guarantee(r) /\ SnapshotsBounded(r)'
      BY <2>2, <2>3, QuietGoto DEF UploadingPoints
    <2>5. Uploaded(k)'
      BY <2>1, <2>4, GuaranteeKeepsUploaded
    <2>6. /\ req'[r].pc = "mark_deleted" /\ req'[r].op = req[r].op /\ req'[r].sample = k
      BY <1>a, <2>1, <2>3, GotoShape
    <2>7. SampleInHand(r)'
      BY <2>1, <2>2, <2>5, <2>6 DEF SampleInHand, UploadingPoints, RemovalPoints
    <2>8. QED  BY <2>4, <2>7 DEF Own
  <1>9. CASE MarkDeleted(r)
    <2> DEFINE s == [status EXCEPT ![req[r].sample] = "deleted"]
               ok == Updates({req[r].sample}, s)
    <2>1. ASSUME ok, status' = s, SampleDone(r), UNCHANGED files
          PROVE  Guarantee(r) /\ Own(r)'
      <3>1. PICK k \in Keys : /\ k = req[r].sample /\ Uploaded(k) /\ status[k] # "pending"
                              /\ k \notin active \cup quarantine
        BY <1>a, <1>9 DEF MarkDeleted, SampleInHand, RemovalPoints
      <3>2. status[k] # "absent"
        BY <2>1, <3>1 DEF Updates
      <3>3. status' = [status EXCEPT ![k] = "deleted"] /\ content' = content
        BY <1>9, <2>1, <3>1 DEF MarkDeleted
      <3>4. Guarantee(r)
        BY <2>1, <3>1, <3>2, <3>3, SampleDoneStep, RowStep DEF MayBecome, files
      <3>5. QED  BY <2>1, <3>4, SampleDoneStep
    <2>2. Transaction(r, ok, s, enrollment, SampleDone(r)) /\ content' = content
      BY <1>9 DEF MarkDeleted
    <2>3. ASSUME ok, status' = s, OnError(r)
          PROVE  Guarantee(r) /\ Own(r)'
      <3>1. PICK k \in Keys : /\ k = req[r].sample /\ Uploaded(k) /\ status[k] # "pending"
                              /\ k \notin active \cup quarantine
        BY <1>a, <1>9 DEF MarkDeleted, SampleInHand, RemovalPoints
      <3>2. status[k] # "absent" /\ req[r].pc \notin {"promote", "activate"}
        BY <1>9, <2>3, <3>1 DEF Updates, MarkDeleted
      <3>3. QED  BY <2>2, <2>3, <3>1, <3>2, LostRowStep DEF MayBecome
    <2> HIDE DEF s, ok
    <2>4. QED  BY <2>1, <2>2, <2>3, TransactionStep
  <1>10. CASE Recheck(r)
    <2>1. UNCHANGED <<status, content, staging, active, quarantine>>
      BY <1>10 DEF Recheck, rows, files
    <2>2. CASE Finish(r)
      BY <2>1, <2>2, QuietFinish
    <2>3. CASE Goto(r, "finalize")
      <3>1. Guarantee(r) /\ SnapshotsBounded(r)'
        BY <2>1, <2>3, QuietGoto DEF UploadingPoints
      <3>2. SampleInHand(r)'
        BY <1>a, <2>3, GotoShape DEF SampleInHand, UploadingPoints, RemovalPoints
      <3>3. QED  BY <3>1, <3>2 DEF Own
    <2>4. QED  BY <1>10, <2>2, <2>3 DEF Recheck
  <1>11. CASE Finalize(r)
    <2>1. Transaction(r, TRUE, status, "deleted", Finish(r)) /\ content' = content
      BY <1>11 DEF Finalize
    <2>2. QED  BY <2>1, QuietFinish, TransactionStep DEF files
  <1>12. QED
    BY <1>1, <1>2, <1>3, <1>4, <1>5, <1>6, <1>7, <1>8, <1>9, <1>10, <1>11 DEF RemovalStep

(***************************************************************************)
(* The invariant and what it gives.                                        *)
(***************************************************************************)
LEMMA IInvInit == Init => IInv
  BY NoneAssumption
     DEF Init, IInv, TypeOK, Request, Idle, Nothing, RowStatus, Points, UploadsExclusive,
         RowsTruthful, SampleInHand, SnapshotsBounded, Bounds, Uploading, At,
         UploadingPoints, RemovalPoints

LEMMA IInvStep ==
    ASSUME IInv, [Next]_vars
    PROVE  IInv'
  <1>1. TypeOK'
    BY TypeStep DEF IInv
  <1>2. ASSUME NEW r \in Requests, Start(r) \/ UploadStep(r) \/ RemovalStep(r) \/ Failure(r)
        PROVE  IInv'
    <2>1. Guarantee(r) /\ Own(r)'
      BY <1>2, StartStep, UploadStepInOrder, RemovalStepInOrder, FailureStep
    <2>2. UploadsExclusive' /\ RowsTruthful'
      BY <2>1, GuaranteeKeepsUploads, GuaranteeKeepsRows
    <2>3. \A q \in Requests : SampleInHand(q)' /\ SnapshotsBounded(q)'
      BY <2>1, GuaranteeKeepsOthers DEF Own
    <2>4. QED  BY <1>1, <2>2, <2>3 DEF IInv
  <1>3. CASE UNCHANGED vars
    BY <1>1, <1>3
       DEF vars, IInv, UploadsExclusive, RowsTruthful, Uploaded, Uploading, SampleInHand,
           SnapshotsBounded, Bounds, At
  <1>4. QED  BY <1>2, <1>3 DEF Next

\* As long as no commit is lost on its way back, a row that says ACTIVE has its
\* file in the active zone, whatever overlaps, fails or dies.
THEOREM ActiveSamplesHaveFiles ==
    ASSUME "lost_ack" \notin Faults
    PROVE  Spec => []ActiveSampleHasFile
  <1>1. Init => IInv
    BY IInvInit
  <1>2. IInv /\ [Next]_vars => IInv'
    BY IInvStep
  <1>3. IInv => ActiveSampleHasFile
    BY DEF IInv, RowsTruthful, ActiveSampleHasFile
  <1>4. QED  BY <1>1, <1>2, <1>3, PTL DEF Spec

\* A row that says DELETED has no file left in any zone, whatever overlaps, fails,
\* dies or is lost.
THEOREM DeletedSamplesHaveNoFile == Spec => []DeletedSampleHasNoFile
  <1>1. Init => IInv
    BY IInvInit
  <1>2. IInv /\ [Next]_vars => IInv'
    BY IInvStep
  <1>3. IInv => DeletedSampleHasNoFile
    BY DEF IInv, RowsTruthful, DeletedSampleHasNoFile
  <1>4. QED  BY <1>1, <1>2, <1>3, PTL DEF Spec

(***************************************************************************)
(* The reconciliation report.                                              *)
(***************************************************************************)
LEMMA DriftIsNamed ==
    ASSUME TypeOK, NEW k \in Keys
    PROVE  Settled(k) \/ Unpurged(k) \/ k \in Findings(Keys)
  <1>1. status[k] \in {"absent", "pending", "active", "replacement_pending",
                       "deletion_pending", "quarantined", "deleted"}
    BY DEF TypeOK, RowStatus, SampleStatus
  <1>2. \/ k \in ActiveRecordMissingFile \/ k \in ActiveFileMissingRecord
        \/ k \in QuarantinedRecordMissingFile \/ k \in QuarantinedFileMissingRecord
        \/ k \in StagedFileMissingRecord \/ k \in PendingSampleStale(Keys)
        \/ k \in DeletionPendingStale(Keys) \/ k \in ReplacementPendingIncomplete
        => k \in Findings(Keys)
    BY DEF Findings
  <1>3. CASE status[k] \in {"pending", "replacement_pending", "deletion_pending"}
    BY <1>2, <1>3
       DEF RowsIn, PendingSampleStale, DeletionPendingStale, ReplacementPendingIncomplete
  <1>4. CASE status[k] = "active"
    BY <1>2, <1>4
       DEF RowsIn, Settled, ActiveRecordMissingFile, StagedFileMissingRecord,
           QuarantinedFileMissingRecord
  <1>5. CASE status[k] = "quarantined"
    BY <1>2, <1>5 DEF RowsIn, Unpurged, QuarantinedRecordMissingFile
  <1>6. CASE status[k] \in {"absent", "deleted"}
    BY <1>2, <1>6
       DEF RowsIn, Settled, OnDisk, ActiveFileMissingRecord, StagedFileMissingRecord,
           QuarantinedFileMissingRecord
  <1>7. QED  BY <1>1, <1>3, <1>4, <1>5, <1>6

\* Wherever failures and crashes stop the requests, the report names every
\* sample that is neither settled nor waiting in quarantine under its row: the
\* findings leave no third kind of drift unnamed, in any state the rows and the
\* zones can be in.
THEOREM DriftIsReported == Spec => []OtherDriftReported
  <1>1. TypeOK => OtherDriftReported
    BY DriftIsNamed DEF OtherDriftReported
  <1>2. QED  BY TypeCorrect, <1>1, PTL

(***************************************************************************)
(* One request at a time: what failures, crashes and lost acknowledgements *)
(* cannot do without a second request.                                     *)
(***************************************************************************)
OneAtATime == \A q, r \in Requests : q = r

NoneActive == \A k \in Keys : status[k] # "active"

\* What the rows and the enrollment say of each other between any two steps.
RowsAndEnrollmentAgree ==
    /\ OneActive(status)
    /\ \A k \in Keys : status[k] # "absent" => content[k] # None
    /\ ~NoneActive => enrollment \in {"active", "deletion_pending"}
    /\ enrollment = "active" => ~NoneActive

UnderwayPoints == {"read_active", "stage", "validate", "insert_row", "promote", "activate"}

ClaimedPoints == {"validate", "insert_row", "promote", "activate", "undo_quarantine",
                  "undo_purge", "undo_row", "drop_row"}

\* What an upload knows: nothing has changed since it looked.
UploadAlone(r) ==
    LET k == req[r].sample
    IN  /\ req[r].pc = "insert_enrollment" => req[r].op = "create" /\ enrollment = "absent"
        /\ req[r].pc \in UnderwayPoints =>
              /\ req[r].op \in {"create", "replace"}
              /\ enrollment = req[r].seen /\ enrollment \in {"pending", "active", "deleted"}
        /\ req[r].pc \in UnderwayPoints \ {"read_active"} =>
              /\ req[r].op = "create" => NoneActive
              /\ req[r].op = "replace" => req[r].old \in Keys /\ status[req[r].old] = "active"
        /\ req[r].pc \in ClaimedPoints => k \in Keys /\ content[k] # None
        /\ req[r].pc \in {"validate", "insert_row"} => status[k] = "absent"
        /\ req[r].pc \in {"promote", "activate", "drop_row"} => status[k] = "pending"

\* What a removal knows of the sample it removes.
RemovalAlone(r) ==
    LET k == req[r].sample
    IN  /\ req[r].pc \in RemovalPoints => k \in Keys
        /\ req[r].pc = "mark_deletion_pending" =>
              req[r].op = "delete" /\ status[k] \in {"active", "replacement_pending"}
        /\ req[r].pc \in {"quarantine", "mark_quarantined"} =>
              status[k] \in {"deletion_pending", "replacement_pending"}
        /\ req[r].pc \in {"purge", "mark_deleted"} => status[k] = "quarantined"

\* A snapshot that still tells the truth of every sample but the one in hand.
Current(t, k) ==
    \A j \in Keys \ {k} : t[j] # "absent" => t[j] = status[j] /\ Live(status, j)

LoopPoints == RemovalPoints \cup {"discard", "drop_row"}

\* What a deletion knows: its snapshot is not stale.
DeletionAlone(r) ==
    LET k == req[r].sample
    IN  /\ req[r].pc \in DeletionPoints => req[r].op = "delete"
        /\ req[r].pc = "list_live" => enrollment = req[r].seen /\ enrollment # "absent"
        /\ req[r].pc = "request_deletion" =>
              enrollment \notin {"absent", "deletion_pending"} /\ Current(req[r].todo, None)
        /\ req[r].op = "delete" /\ req[r].pc \in LoopPoints =>
              k \in Keys /\ enrollment = "deletion_pending" /\ Current(req[r].todo, k)
        /\ req[r].pc = "discard" => status[k] = "pending"
        /\ req[r].pc \in {"recheck", "finalize"} => enrollment = "deletion_pending"
        /\ req[r].pc = "finalize" => ~AnyLive

Alone(r) == UploadAlone(r) /\ RemovalAlone(r) /\ DeletionAlone(r)

AInv ==
    /\ TypeOK
    /\ RowsAndEnrollmentAgree
    /\ \A r \in Requests : Alone(r)

(***************************************************************************)
(* What a step may do to the rows, one name per kind of change.            *)
(***************************************************************************)
Opened == enrollment = "absent" /\ enrollment' = "pending" /\ status' = status

RowInserted(k) ==
    /\ status[k] = "absent" /\ content[k] # None
    /\ status' = [status EXCEPT ![k] = "pending"] /\ enrollment' = enrollment

RowDropped(k) ==
    /\ status[k] = "pending"
    /\ status' = [status EXCEPT ![k] = "absent"] /\ enrollment' = enrollment

FirstActivated(k) ==
    /\ status[k] = "pending" /\ NoneActive /\ enrollment \in {"pending", "deleted"}
    /\ status' = [status EXCEPT ![k] = "active"] /\ enrollment' = "active"

Replaced(o, k) ==
    /\ status[o] = "active" /\ status[k] = "pending" /\ content[o] # content[k]
    /\ enrollment = "active" /\ enrollment' = "active"
    /\ status' = [status EXCEPT ![o] = "replacement_pending", ![k] = "active"]

DeletionRequested ==
    /\ enrollment \notin {"absent", "deletion_pending"} /\ enrollment' = "deletion_pending"
    /\ status' = status

Retired(k, x) ==
    /\ status[k] \notin {"absent", "pending"} /\ Rank(status[k]) < Rank(x)
    /\ x \in {"deletion_pending", "quarantined", "deleted"}
    /\ status[k] = "active" => enrollment = "deletion_pending"
    /\ status' = [status EXCEPT ![k] = x] /\ enrollment' = enrollment

Closed ==
    /\ enrollment = "deletion_pending" /\ ~AnyLive /\ enrollment' = "deleted"
    /\ status' = status

RowsChange ==
    \/ status' = status /\ enrollment' = enrollment
    \/ Opened
    \/ DeletionRequested
    \/ Closed
    \/ \E k \in Keys : \/ RowInserted(k) \/ RowDropped(k) \/ FirstActivated(k)
                       \/ \E o \in Keys : Replaced(o, k)
                       \/ \E x \in SampleStatus : Retired(k, x)

ContentKept == \A k \in Keys : content[k] # None => content'[k] = content[k]

(***************************************************************************)
(* What follows from a change.                                             *)
(***************************************************************************)
LEMMA AgreementKept ==
    ASSUME TypeOK, RowsAndEnrollmentAgree, RowsChange, ContentKept
    PROVE  RowsAndEnrollmentAgree'
  <1> USE DEF RowsAndEnrollmentAgree, NoneActive, OneActive, ContentKept
  <1>a. status \in [Keys -> RowStatus]
    BY DEF TypeOK
  <1>1. CASE status' = status /\ enrollment' = enrollment
    BY <1>a, <1>1
  <1>2. CASE Opened
    BY <1>a, <1>2 DEF Opened
  <1>3. CASE DeletionRequested
    BY <1>a, <1>3 DEF DeletionRequested
  <1>4. CASE Closed
    BY <1>a, <1>4 DEF Closed, AnyLive, Live
  <1>5. ASSUME NEW k \in Keys, RowInserted(k) PROVE RowsAndEnrollmentAgree'
    BY <1>a, <1>5 DEF RowInserted
  <1>6. ASSUME NEW k \in Keys, RowDropped(k) PROVE RowsAndEnrollmentAgree'
    BY <1>a, <1>6 DEF RowDropped
  <1>7. ASSUME NEW k \in Keys, FirstActivated(k) PROVE RowsAndEnrollmentAgree'
    BY <1>a, <1>7 DEF FirstActivated
  <1>8. ASSUME NEW k \in Keys, NEW o \in Keys, Replaced(o, k) PROVE RowsAndEnrollmentAgree'
    BY <1>a, <1>8 DEF Replaced
  <1>9. ASSUME NEW k \in Keys, NEW x \in SampleStatus, Retired(k, x) PROVE RowsAndEnrollmentAgree'
    BY <1>a, <1>9 DEF Retired
  <1>10. QED
    BY <1>1, <1>2, <1>3, <1>4, <1>5, <1>6, <1>7, <1>8, <1>9 DEF RowsChange

\* The step formula of LifecycleForward.
Forward ==
    \A k \in Keys : \/ Rank(status[k]) <= Rank(status'[k])
                    \/ status[k] = "pending" /\ status'[k] = "absent"

LEMMA RankType == \A s \in RowStatus : Rank(s) \in 0..6
  BY DEF Rank, RowStatus, SampleStatus

LEMMA ChangeGoesForward ==
    ASSUME TypeOK, RowsChange
    PROVE  Forward
  <1>a. status \in [Keys -> RowStatus] /\ \A k \in Keys : Rank(status[k]) \in 0..6
    BY RankType DEF TypeOK
  <1>1. CASE status' = status
    BY <1>a, <1>1 DEF Forward
  <1>2. ASSUME NEW k \in Keys, NEW x \in RowStatus, status' = [status EXCEPT ![k] = x],
               Rank(status[k]) <= Rank(x) \/ (status[k] = "pending" /\ x = "absent")
        PROVE  Forward
    BY <1>a, <1>2 DEF Forward
  <1>3. {"pending", "active", "absent"} \cup SampleStatus \subseteq RowStatus
    BY DEF RowStatus, SampleStatus
  <1>4. /\ Rank("absent") <= Rank("pending") /\ Rank("pending") <= Rank("active")
        /\ Rank("active") <= Rank("replacement_pending")
    BY DEF Rank
  <1>5. ASSUME NEW k \in Keys, RowInserted(k) PROVE Forward
    BY <1>2, <1>3, <1>4, <1>5 DEF RowInserted
  <1>6. ASSUME NEW k \in Keys, RowDropped(k) PROVE Forward
    BY <1>2, <1>3, <1>6 DEF RowDropped
  <1>7. ASSUME NEW k \in Keys, FirstActivated(k) PROVE Forward
    BY <1>2, <1>3, <1>4, <1>7 DEF FirstActivated
  <1>8. ASSUME NEW k \in Keys, NEW o \in Keys, Replaced(o, k) PROVE Forward
    <2>1. \A j \in Keys : status'[j] = IF j = k THEN "active"
                                       ELSE IF j = o THEN "replacement_pending" ELSE status[j]
      BY <1>a, <1>8 DEF Replaced
    <2>2. status[o] = "active" /\ status[k] = "pending"
      BY <1>8 DEF Replaced
    <2>3. QED  BY <1>a, <1>4, <2>1, <2>2 DEF Forward
  <1>9. ASSUME NEW k \in Keys, NEW x \in SampleStatus, Retired(k, x) PROVE Forward
    <2>1. Rank(x) \in 0..6 /\ x \in RowStatus
      BY <1>3, RankType
    <2>2. Rank(status[k]) <= Rank(x) /\ status' = [status EXCEPT ![k] = x]
      BY <1>9, <1>a, <2>1 DEF Retired
    <2>3. QED  BY <1>2, <2>1, <2>2
  <1>10. QED
    BY <1>1, <1>5, <1>6, <1>7, <1>8, <1>9
       DEF RowsChange, Opened, DeletionRequested, Closed

LEMMA ChangeDrains ==
    ASSUME AInv, RowsChange, enrollment # "deleted", enrollment' = "deleted"
    PROVE  ~AnyLive
  BY DEF RowsChange, Opened, DeletionRequested, Closed, RowInserted, RowDropped, FirstActivated,
         Replaced, Retired

(***************************************************************************)
(* The register.                                                           *)
(***************************************************************************)
LEMMA ImageOfActive ==
    ASSUME OneActive(status)
    PROVE  /\ \A k \in Keys : status[k] = "active" => CurrentImage = content[k]
           /\ NoneActive => CurrentImage = None
  BY Zenon DEF OneActive, NoneActive, CurrentImage

LEMMA ImageOfActiveNext ==
    ASSUME OneActive(status)'
    PROVE  /\ \A k \in Keys : status'[k] = "active" => CurrentImage' = content'[k]
           /\ NoneActive' => CurrentImage' = None
  BY Zenon DEF OneActive, NoneActive, CurrentImage

LEMMA ImageKept ==
    ASSUME RowsAndEnrollmentAgree, RowsAndEnrollmentAgree', ContentKept,
           \A k \in Keys : status'[k] = "active" <=> status[k] = "active"
    PROVE  CurrentImage' = CurrentImage
  <1>1. OneActive(status) /\ OneActive(status)'
    BY DEF RowsAndEnrollmentAgree
  <1>2. CASE NoneActive
    BY <1>1, <1>2, ImageOfActive, ImageOfActiveNext DEF NoneActive
  <1>3. ASSUME NEW k \in Keys, status[k] = "active" PROVE CurrentImage' = CurrentImage
    <2>1. content'[k] = content[k]
      BY <1>3 DEF RowsAndEnrollmentAgree, ContentKept
    <2>2. QED  BY <1>1, <1>3, <2>1, ImageOfActive, ImageOfActiveNext
  <1>4. QED  BY <1>2, <1>3 DEF NoneActive

LEMMA ChangeImplements ==
    ASSUME TypeOK, RowsAndEnrollmentAgree, RowsChange, ContentKept
    PROVE  [Register!Next]_(Register!register)
  <1>a. /\ status \in [Keys -> RowStatus] /\ content \in [Keys -> Contents \cup {None}]
        /\ RowsAndEnrollmentAgree'
    BY AgreementKept DEF TypeOK
  <1>b. /\ \A k \in Keys : status[k] = "active" => CurrentImage = content[k]
        /\ NoneActive => CurrentImage = None
        /\ \A k \in Keys : status'[k] = "active" => CurrentImage' = content'[k]
        /\ NoneActive' => CurrentImage' = None
    BY <1>a, ImageOfActive, ImageOfActiveNext DEF RowsAndEnrollmentAgree
  <1>1. ASSUME status' = status PROVE CurrentImage' = CurrentImage
    BY <1>1, ImageKept, <1>a
  <1>2. CASE status' = status /\ enrollment' = enrollment
    BY <1>1, <1>2 DEF Register!register
  <1>3. CASE Opened
    <2>1. Register!Open
      BY <1>1, <1>3 DEF Opened, Register!Open
    <2>2. QED  BY <2>1 DEF Register!Next
  <1>4. CASE DeletionRequested
    <2>1. Register!RequestDeletion
      BY <1>1, <1>4 DEF DeletionRequested, Register!RequestDeletion
    <2>2. QED  BY <2>1 DEF Register!Next
  <1>5. CASE Closed
    <2>1. NoneActive
      BY <1>5 DEF Closed, AnyLive, Live, NoneActive
    <2>2. Register!Close
      BY <1>1, <1>5, <1>b, <2>1 DEF Closed, Register!Close
    <2>3. QED  BY <2>2 DEF Register!Next
  <1>6. ASSUME NEW k \in Keys, RowInserted(k) \/ RowDropped(k)
        PROVE  [Register!Next]_(Register!register)
    <2>1. (\A j \in Keys : status'[j] = "active" <=> status[j] = "active")
          /\ enrollment' = enrollment
      BY <1>6, <1>a DEF RowInserted, RowDropped
    <2>2. QED  BY <1>a, <2>1, ImageKept DEF Register!register
  <1>7. ASSUME NEW k \in Keys, FirstActivated(k)
        PROVE  [Register!Next]_(Register!register)
    <2>1. status'[k] = "active" /\ content'[k] = content[k] /\ content[k] \in Contents
      BY <1>7, <1>a DEF FirstActivated, RowsAndEnrollmentAgree, ContentKept
    <2>2. Register!Enroll(content[k])
      BY <1>7, <1>b, <2>1 DEF FirstActivated, Register!Enroll
    <2>3. QED  BY <2>1, <2>2 DEF Register!Next
  <1>8. ASSUME NEW k \in Keys, NEW o \in Keys, Replaced(o, k)
        PROVE  [Register!Next]_(Register!register)
    <2>1. /\ status'[k] = "active" /\ content'[k] = content[k] /\ content[k] \in Contents
          /\ content[o] # None /\ content[o] # content[k] /\ status[o] = "active"
      BY <1>8, <1>a DEF Replaced, RowsAndEnrollmentAgree, ContentKept
    <2>2. Register!Replace(content[k])
      BY <1>8, <1>b, <2>1 DEF Replaced, Register!Replace
    <2>3. QED  BY <2>1, <2>2 DEF Register!Next
  <1>9. ASSUME NEW k \in Keys, NEW x \in SampleStatus, Retired(k, x)
        PROVE  [Register!Next]_(Register!register)
    <2>1. CASE status[k] = "active"
      <3>1. NoneActive'
        BY <1>9, <1>a, <2>1 DEF Retired, NoneActive, RowsAndEnrollmentAgree, OneActive
      <3>2. content[k] # None
        BY <1>a, <2>1 DEF RowsAndEnrollmentAgree
      <3>3. Register!Forget
        BY <1>9, <1>b, <2>1, <3>1, <3>2 DEF Retired, Register!Forget
      <3>4. QED  BY <3>3 DEF Register!Next
    <2>2. CASE status[k] # "active"
      <3>1. (\A j \in Keys : status'[j] = "active" <=> status[j] = "active")
            /\ enrollment' = enrollment
        BY <1>9, <1>a, <2>2 DEF Retired
      <3>2. QED  BY <1>a, <3>1, ImageKept DEF Register!register
    <2>3. QED  BY <2>1, <2>2
  <1>10. QED
    BY <1>2, <1>3, <1>4, <1>5, <1>6, <1>7, <1>8, <1>9 DEF RowsChange

(***************************************************************************)
(* Every step makes one of these changes and leaves its request with what  *)
(* it knows.                                                               *)
(***************************************************************************)
Sound(r) == RowsChange /\ ContentKept /\ Alone(r)'

LEMMA FinishAlone ==
    ASSUME TypeOK, NEW r \in Requests, Finish(r)
    PROVE  Alone(r)'
  <1>1. req'[r] = Idle
    BY DEF TypeOK, Finish
  <1>2. QED
    BY <1>1 DEF Alone, UploadAlone, RemovalAlone, DeletionAlone, Idle, UnderwayPoints,
                ClaimedPoints, RemovalPoints, DeletionPoints, LoopPoints

LEMMA ErrorAlone ==
    ASSUME AInv, NEW r \in Requests, OnError(r), ContentKept,
           req[r].pc = "promote" => status' = status
    PROVE  Alone(r)'
  <1>1. CASE Finish(r)
    BY <1>1, FinishAlone DEF AInv
  <1>2. CASE req[r].pc = "promote" /\ Goto(r, "drop_row")
    <2>1. /\ req'[r].pc = "drop_row" /\ req'[r].op = req[r].op /\ req'[r].sample = req[r].sample
      BY <1>2, GotoShape DEF AInv
    <2>2. /\ req[r].op \in {"create", "replace"} /\ req[r].sample \in Keys
          /\ content[req[r].sample] # None /\ status[req[r].sample] = "pending"
      BY <1>2 DEF AInv, Alone, UploadAlone, UnderwayPoints, ClaimedPoints
    <2>3. QED
      BY <1>2, <2>1, <2>2
         DEF ContentKept, Alone, UploadAlone, RemovalAlone, DeletionAlone, UnderwayPoints,
             ClaimedPoints, RemovalPoints, DeletionPoints, LoopPoints
  <1>3. CASE req[r].pc = "activate" /\ Goto(r, "undo_quarantine")
    <2>1. /\ req'[r].pc = "undo_quarantine" /\ req'[r].op = req[r].op
          /\ req'[r].sample = req[r].sample
      BY <1>3, GotoShape DEF AInv
    <2>2. req[r].sample \in Keys /\ content[req[r].sample] # None
      BY <1>3 DEF AInv, Alone, UploadAlone, ClaimedPoints
    <2>3. QED
      BY <2>1, <2>2
         DEF ContentKept, Alone, UploadAlone, RemovalAlone, DeletionAlone, UnderwayPoints,
             ClaimedPoints, RemovalPoints, DeletionPoints, LoopPoints
  <1>4. QED  BY <1>1, <1>2, <1>3 DEF OnError

\* A commit whose acknowledgement is lost has changed the rows all the same.
LEMMA TransactionAlone ==
    ASSUME AInv, NEW r \in Requests, req[r].pc # "promote", content' = content,
           NEW STATE allowed, NEW ACTION then, NEW STATE s, NEW STATE e,
           Transaction(r, allowed, s, e, then),
           allowed /\ status' = s /\ enrollment' = e => RowsChange,
           allowed /\ status' = s /\ enrollment' = e /\ then => Alone(r)'
    PROVE  Sound(r)
  <1>1. ContentKept
    BY DEF ContentKept
  <1>2. RowsChange
    BY DEF Transaction, RowsChange, rows
  <1>3. Alone(r)'
    BY <1>1, ErrorAlone DEF Transaction
  <1>4. QED  BY <1>1, <1>2, <1>3 DEF Sound

\* The deletion loop turns to the next sample of a snapshot that is not stale.
LEMMA NextSampleAlone ==
    ASSUME AInv, NEW r \in Requests, NEW STATE t, t \in [Keys -> RowStatus], NextSample(r, t),
           req[r].op = "delete", enrollment' = "deletion_pending",
           \A j \in Keys : t[j] # "absent" => t[j] = status'[j] /\ Live(status', j)
    PROVE  Alone(r)'
  <1>1. /\ req'[r].op = "delete" /\ req'[r].todo = t
        /\ \/ req'[r].pc = "recheck"
           \/ /\ req'[r].sample \in Keys /\ t[req'[r].sample] # "absent"
              /\ req'[r].pc = FirstStep(t[req'[r].sample])
    BY NextSampleShape DEF AInv
  <1>2. CASE req'[r].pc = "recheck"
    BY <1>1, <1>2
       DEF Alone, UploadAlone, RemovalAlone, DeletionAlone, UnderwayPoints,
           ClaimedPoints, RemovalPoints, DeletionPoints, LoopPoints
  <1>3. ASSUME NEW k \in Keys, k = req'[r].sample, t[k] # "absent",
               req'[r].pc = FirstStep(t[k])
        PROVE  Alone(r)'
    <2>1. /\ t[k] = status'[k]
          /\ status'[k] \in {"pending", "active", "replacement_pending", "deletion_pending",
                             "quarantined"}
      BY <1>3 DEF Live, RowStatus, SampleStatus
    <2>2. \/ status'[k] = "pending" /\ req'[r].pc = "discard"
          \/ status'[k] = "deletion_pending" /\ req'[r].pc = "quarantine"
          \/ status'[k] = "quarantined" /\ req'[r].pc = "purge"
          \/ status'[k] \in {"active", "replacement_pending"} /\ req'[r].pc = "mark_deletion_pending"
      BY <1>3, <2>1 DEF FirstStep
    <2>3. Current(req[r].todo, k)'
      BY <1>1 DEF Current, Live
    <2>4. UploadAlone(r)' /\ RemovalAlone(r)'
      BY <1>1, <1>3, <2>2
         DEF UploadAlone, RemovalAlone, UnderwayPoints, ClaimedPoints, RemovalPoints
    <2>5. DeletionAlone(r)'
      BY <1>1, <1>3, <2>2, <2>3
         DEF DeletionAlone, RemovalPoints, DeletionPoints, LoopPoints
    <2>6. QED  BY <2>4, <2>5 DEF Alone
  <1>4. QED  BY <1>1, <1>2, <1>3

\* The sample in hand is done with; the rest of the snapshot is as it was.
LEMMA SampleDoneAlone ==
    ASSUME AInv, NEW r \in Requests, SampleDone(r), req[r].pc \in LoopPoints,
           enrollment' = enrollment,
           \A j \in Keys \ {req[r].sample} : status'[j] = status[j]
    PROVE  Alone(r)'
  <1>1. CASE req[r].op # "delete"
    BY <1>1, FinishAlone DEF SampleDone, AInv
  <1>2. CASE req[r].op = "delete"
    <2>1. PICK t \in [Keys -> RowStatus] : t = [req[r].todo EXCEPT ![req[r].sample] = "absent"]
      BY DEF AInv, TypeOK, Request, RowStatus
    <2>2. NextSample(r, t)
      BY <1>2, <2>1 DEF SampleDone
    <2>3. /\ req[r].sample \in Keys /\ enrollment = "deletion_pending"
          /\ Current(req[r].todo, req[r].sample) /\ req[r].todo \in [Keys -> RowStatus]
      BY <1>2 DEF AInv, Alone, DeletionAlone, TypeOK, Request
    <2>4. \A j \in Keys : t[j] # "absent" => t[j] = status'[j] /\ Live(status', j)
      BY <2>1, <2>3 DEF Current, Live
    <2>5. QED  BY <1>2, <2>2, <2>3, <2>4, NextSampleAlone
  <1>3. QED  BY <1>1, <1>2

\* A step that leaves the rows alone.
LEMMA QuietSound ==
    ASSUME UNCHANGED <<rows, content>>, NEW r \in Requests, Alone(r)'
    PROVE  Sound(r)
  BY DEF Sound, RowsChange, rows, ContentKept

LEMMA StartAlone ==
    ASSUME AInv, NEW r \in Requests, Start(r)
    PROVE  Sound(r)
  <1>a. req \in [Requests -> Request] /\ enrollment \in EnrollmentStatus \cup {"absent"}
    BY DEF AInv, TypeOK
  <1>1. CASE StartCreate(r)
    BY <1>1, <1>a, QuietSound
       DEF StartCreate, Idle, Alone, UploadAlone, RemovalAlone, DeletionAlone, UnderwayPoints,
           ClaimedPoints, RemovalPoints, DeletionPoints, LoopPoints, EnrollmentStatus, rows
  <1>2. CASE StartReplace(r)
    BY <1>2, <1>a, QuietSound
       DEF StartReplace, Idle, Alone, UploadAlone, RemovalAlone, DeletionAlone, UnderwayPoints,
           ClaimedPoints, RemovalPoints, DeletionPoints, LoopPoints, EnrollmentStatus, rows
  <1>3. CASE StartDelete(r)
    BY <1>3, <1>a, QuietSound
       DEF StartDelete, Idle, Alone, UploadAlone, RemovalAlone, DeletionAlone, UnderwayPoints,
           ClaimedPoints, RemovalPoints, DeletionPoints, LoopPoints, EnrollmentStatus, rows
  <1>4. QED  BY <1>1, <1>2, <1>3 DEF Start

LEMMA UploadAloneStep ==
    ASSUME AInv, NEW r \in Requests, UploadStep(r)
    PROVE  Sound(r)
  <1> USE DEF UnderwayPoints, ClaimedPoints, RemovalPoints, DeletionPoints, LoopPoints
  <1>a. /\ TypeOK /\ RowsAndEnrollmentAgree
        /\ UploadAlone(r) /\ RemovalAlone(r) /\ DeletionAlone(r)
    BY DEF AInv, Alone
  <1>b. /\ status \in [Keys -> RowStatus] /\ content \in [Keys -> Contents \cup {None}]
        /\ req \in [Requests -> Request] /\ req[r] \in Request
    BY <1>a DEF TypeOK
  <1>1. CASE InsertEnrollment(r)
    <2> DEFINE then == req' = [req EXCEPT ![r] = [@ EXCEPT !.pc = "read_active", !.seen = "pending"]]
    <2>1. enrollment = "absent" /\ status' = status /\ enrollment' = "pending" => RowsChange
      BY DEF RowsChange, Opened
    <2>2. ASSUME enrollment' = "pending", then
          PROVE  Alone(r)'
      <3>1. req'[r].pc = "read_active" /\ req'[r].seen = "pending" /\ req'[r].op = "create"
        BY <1>a, <1>b, <1>1, <2>2 DEF Request, InsertEnrollment, UploadAlone
      <3>2. QED
        BY <2>2, <3>1 DEF Alone, UploadAlone, RemovalAlone, DeletionAlone
    <2>3. /\ Transaction(r, enrollment = "absent", status, "pending", then)
          /\ content' = content /\ req[r].pc # "promote"
      BY <1>1 DEF InsertEnrollment
    <2> HIDE DEF then
    <2>4. QED  BY <2>1, <2>2, <2>3, TransactionAlone
  <1>2. CASE ReadActive(r)
    <2>1. UNCHANGED <<rows, content>> /\ req[r].pc = "read_active"
      BY <1>2 DEF ReadActive
    <2>2. /\ req[r].op \in {"create", "replace"} /\ enrollment = req[r].seen
          /\ enrollment \in {"pending", "active", "deleted"}
      BY <1>a, <2>1 DEF UploadAlone
    <2>3. CASE req[r].op = "create" /\ NoneActive /\ Goto(r, "stage")
      <3>1. req'[r].pc = "stage" /\ req'[r].seen = req[r].seen /\ req'[r].op = "create"
        BY <1>a, <2>3, GotoShape
      <3>2. Alone(r)'
        BY <2>1, <2>2, <2>3, <3>1
           DEF Alone, UploadAlone, RemovalAlone, DeletionAlone, NoneActive, rows
      <3>3. QED  BY <2>1, <3>2, QuietSound
    <2>4. ASSUME NEW o \in Keys, status[o] = "active", req[r].op = "replace",
                 req' = [req EXCEPT ![r] = [@ EXCEPT !.old = o, !.pc = "stage"]]
          PROVE  Sound(r)
      <3>1. /\ req'[r].pc = "stage" /\ req'[r].seen = req[r].seen /\ req'[r].op = "replace"
            /\ req'[r].old = o
        BY <1>b, <2>4 DEF Request
      <3>2. Alone(r)'
        BY <2>1, <2>2, <2>4, <3>1 DEF Alone, UploadAlone, RemovalAlone, DeletionAlone, rows
      <3>3. QED  BY <2>1, <3>2, QuietSound
    <2>5. CASE Finish(r)
      BY <1>a, <2>1, <2>5, FinishAlone, QuietSound
    <2>6. QED  BY <1>2, <2>3, <2>4, <2>5 DEF ReadActive, NoneActive
  <1>3. CASE WriteStaged(r)
    <2>1. PICK k \in Keys, c \in Contents :
             /\ content[k] = None
             /\ content' = [content EXCEPT ![k] = c]
             /\ req' = [req EXCEPT ![r] = [@ EXCEPT !.sample = k, !.pc = "validate"]]
      BY <1>3 DEF WriteStaged
    <2>2. /\ req'[r].pc = "validate" /\ req'[r].seen = req[r].seen /\ req'[r].op = req[r].op
          /\ req'[r].old = req[r].old /\ req'[r].sample = k
      BY <1>b, <2>1 DEF Request
    <2>3. content'[k] # None /\ status[k] = "absent" /\ ContentKept
      BY <1>a, <1>b, <2>1, NoneAssumption DEF RowsAndEnrollmentAgree, ContentKept
    <2>4. UNCHANGED rows /\ req[r].pc = "stage"
      BY <1>3 DEF WriteStaged
    <2>5. UploadAlone(r)' /\ RemovalAlone(r)' /\ DeletionAlone(r)'
      BY <1>a, <2>2, <2>3, <2>4
         DEF UploadAlone, RemovalAlone, DeletionAlone, NoneActive, rows
    <2>6. QED  BY <2>3, <2>4, <2>5 DEF Sound, RowsChange, Alone, rows
  <1>4. CASE AbortWrite(r)
    BY <1>a, <1>4, FinishAlone, QuietSound DEF AbortWrite
  <1>5. CASE Validate(r)
    <2>1. UNCHANGED <<rows, content>> /\ req[r].pc = "validate"
      BY <1>5 DEF Validate
    <2>2. CASE Goto(r, "insert_row")
      <3>1. /\ req'[r].pc = "insert_row" /\ req'[r].seen = req[r].seen /\ req'[r].op = req[r].op
            /\ req'[r].old = req[r].old /\ req'[r].sample = req[r].sample
        BY <1>a, <2>2, GotoShape
      <3>2. UploadAlone(r)' /\ RemovalAlone(r)' /\ DeletionAlone(r)'
        BY <1>a, <2>1, <3>1 DEF UploadAlone, RemovalAlone, DeletionAlone, NoneActive, rows
      <3>3. QED  BY <2>1, <3>2, QuietSound DEF Alone
    <2>3. CASE Finish(r)
      BY <1>a, <2>1, <2>3, FinishAlone, QuietSound
    <2>4. QED  BY <1>5, <2>2, <2>3 DEF Validate
  <1>6. CASE InsertRow(r)
    <2> DEFINE s == [status EXCEPT ![req[r].sample] = "pending"]
    <2>1. PICK k \in Keys : k = req[r].sample
      BY <1>a, <1>6 DEF InsertRow, UploadAlone
    <2>2. content[k] # None /\ status[k] = "absent" /\ content' = content /\ req[r].pc = "insert_row"
      BY <1>a, <1>6, <2>1 DEF InsertRow, UploadAlone
    <2>3. status' = s /\ enrollment' = enrollment => RowsChange
      BY <2>1, <2>2 DEF RowsChange, RowInserted
    <2>4. ASSUME status' = s, enrollment' = enrollment, Goto(r, "promote")
          PROVE  Alone(r)'
      <3>1. /\ req'[r].pc = "promote" /\ req'[r].seen = req[r].seen /\ req'[r].op = req[r].op
            /\ req'[r].old = req[r].old /\ req'[r].sample = k
        BY <1>a, <2>1, <2>4, GotoShape
      <3>2. \A j \in Keys : status'[j] = IF j = k THEN "pending" ELSE status[j]
        BY <1>b, <2>1, <2>4
      <3>3. UploadAlone(r)'
        BY <1>a, <2>2, <2>4, <3>1, <3>2 DEF UploadAlone, NoneActive
      <3>4. RemovalAlone(r)' /\ DeletionAlone(r)'
        BY <1>a, <2>2, <3>1 DEF UploadAlone, RemovalAlone, DeletionAlone
      <3>5. QED  BY <3>3, <3>4 DEF Alone
    <2>5. Transaction(r, UniqueContent(s), s, enrollment, Goto(r, "promote"))
      BY <1>6 DEF InsertRow
    <2> HIDE DEF s
    <2>6. QED  BY <2>2, <2>3, <2>4, <2>5, TransactionAlone
  <1>7. CASE Promote(r)
    <2>1. UNCHANGED <<rows, content>> /\ req[r].pc = "promote"
      BY <1>7 DEF Promote
    <2>2. CASE Goto(r, "activate")
      <3>1. /\ req'[r].pc = "activate" /\ req'[r].seen = req[r].seen /\ req'[r].op = req[r].op
            /\ req'[r].old = req[r].old /\ req'[r].sample = req[r].sample
        BY <1>a, <2>2, GotoShape
      <3>2. UploadAlone(r)' /\ RemovalAlone(r)' /\ DeletionAlone(r)'
        BY <1>a, <2>1, <3>1 DEF UploadAlone, RemovalAlone, DeletionAlone, NoneActive, rows
      <3>3. QED  BY <2>1, <3>2, QuietSound DEF Alone
    <2>3. CASE OnError(r)
      <3>1. Alone(r)'
        BY <2>1, <2>3, ErrorAlone DEF ContentKept, rows
      <3>2. QED  BY <2>1, <3>1, QuietSound
    <2>4. QED  BY <1>7, <2>2, <2>3 DEF Promote
  <1>8. CASE ActivateCreated(r)
    <2> DEFINE s == [status EXCEPT ![req[r].sample] = "active"]
               e == IF req[r].seen = "active" THEN enrollment ELSE "active"
               ok == Updates({req[r].sample}, s)
    <2>1. PICK k \in Keys : k = req[r].sample
      BY <1>a, <1>8 DEF ActivateCreated, At, UploadAlone
    <2>2. /\ req[r].pc = "activate" /\ status[k] = "pending" /\ NoneActive /\ content' = content
          /\ enrollment = req[r].seen /\ enrollment \in {"pending", "deleted"}
      BY <1>a, <1>8, <2>1 DEF ActivateCreated, At, UploadAlone, RowsAndEnrollmentAgree
    <2>3. status' = s /\ enrollment' = e => RowsChange
      BY <2>1, <2>2 DEF RowsChange, FirstActivated
    <2>4. Transaction(r, ok, s, e, Finish(r))
      BY <1>8 DEF ActivateCreated
    <2> HIDE DEF s, e, ok
    <2>5. QED  BY <1>a, <2>2, <2>3, <2>4, FinishAlone, TransactionAlone
  <1>9. CASE ActivateReplacement(r)
    <2> DEFINE s == [status EXCEPT ![req[r].old] = "replacement_pending",
                                   ![req[r].sample] = "active"]
               then == req' = [req EXCEPT ![r] = [@ EXCEPT !.sample = req[r].old, !.pc = "quarantine"]]
               ok == Updates({req[r].sample, req[r].old}, s)
    <2>1. PICK k \in Keys : k = req[r].sample
      BY <1>a, <1>9 DEF ActivateReplacement, At, UploadAlone
    <2>2. PICK o \in Keys : o = req[r].old /\ status[o] = "active"
      BY <1>a, <1>9 DEF ActivateReplacement, At, UploadAlone
    <2>3. /\ req[r].pc = "activate" /\ status[k] = "pending" /\ content' = content
          /\ req[r].op = "replace" /\ enrollment = "active"
      BY <1>a, <1>9, <2>1, <2>2
         DEF ActivateReplacement, At, UploadAlone, RowsAndEnrollmentAgree, NoneActive
    <2>4. \A j \in Keys : s[j] = IF j = k THEN "active"
                                 ELSE IF j = o THEN "replacement_pending" ELSE status[j]
      BY <1>b, <2>1, <2>2
    <2>5. ASSUME ok
          PROVE  content[o] # content[k]
      <3>1. UniqueContent(s)
        BY <2>5 DEF Updates
      <3>2. s[o] = "replacement_pending" /\ s[k] = "active" /\ o # k
        BY <2>2, <2>3, <2>4
      <3> HIDE DEF s
      <3>3. QED  BY <3>1, <3>2 DEF UniqueContent, Live
    <2>6. ok /\ status' = s /\ enrollment' = enrollment => RowsChange
      BY <2>1, <2>2, <2>3, <2>5 DEF RowsChange, Replaced
    <2>7. ASSUME status' = s, then
          PROVE  Alone(r)'
      <3>1. req'[r].pc = "quarantine" /\ req'[r].op = "replace" /\ req'[r].sample = o
        BY <1>b, <2>2, <2>3, <2>7 DEF Request
      <3>2. status'[o] = "replacement_pending"
        BY <2>2, <2>3, <2>4, <2>7
      <3>3. QED
        BY <3>1, <3>2 DEF Alone, UploadAlone, RemovalAlone, DeletionAlone
    <2>8. Transaction(r, ok, s, enrollment, then)
      BY <1>9 DEF ActivateReplacement
    <2> HIDE DEF s, then, ok
    <2>9. QED  BY <2>3, <2>6, <2>7, <2>8, TransactionAlone
  <1>10. CASE UndoQuarantine(r) \/ UndoPurge(r)
    <2>1. /\ UNCHANGED <<rows, content>> /\ req[r].pc \in {"undo_quarantine", "undo_purge"}
          /\ req[r].sample \in Keys /\ content[req[r].sample] # None
      BY <1>a, <1>10 DEF UndoQuarantine, UndoPurge, UploadAlone
    <2>2. PICK pc \in {"undo_purge", "undo_row"} : Goto(r, pc)
      BY <1>10 DEF UndoQuarantine, UndoPurge
    <2>3. req'[r].pc = pc /\ req'[r].op = req[r].op /\ req'[r].sample = req[r].sample
      BY <1>a, <2>2, GotoShape
    <2>4. Alone(r)'
      BY <2>1, <2>3 DEF Alone, UploadAlone, RemovalAlone, DeletionAlone
    <2>5. QED  BY <2>1, <2>4, QuietSound
  <1>11. CASE UndoRow(r)
    <2> DEFINE s == [status EXCEPT ![req[r].sample] = IF @ = "pending" THEN "absent" ELSE @]
    <2>1. PICK k \in Keys : k = req[r].sample
      BY <1>a, <1>11 DEF UndoRow, UploadAlone
    <2>2. s = status \/ (status[k] = "pending" /\ s = [status EXCEPT ![k] = "absent"])
      BY <1>b, <2>1
    <2>3. Transaction(r, TRUE, s, enrollment, Finish(r)) /\ content' = content /\ req[r].pc # "promote"
      BY <1>11 DEF UndoRow
    <2> HIDE DEF s
    <2>4. status' = s /\ enrollment' = enrollment => RowsChange
      BY <2>2 DEF RowsChange, RowDropped
    <2>5. QED  BY <1>a, <2>3, <2>4, FinishAlone, TransactionAlone
  <1>12. QED
    BY <1>1, <1>2, <1>3, <1>4, <1>5, <1>6, <1>7, <1>8, <1>9, <1>10, <1>11 DEF UploadStep

LEMMA RemovalAloneStep ==
    ASSUME AInv, NEW r \in Requests, RemovalStep(r)
    PROVE  Sound(r)
  <1> USE DEF UnderwayPoints, ClaimedPoints, RemovalPoints, DeletionPoints, LoopPoints
  <1>a. /\ TypeOK /\ UploadAlone(r) /\ RemovalAlone(r) /\ DeletionAlone(r)
    BY DEF AInv, Alone
  <1>b. /\ status \in [Keys -> RowStatus] /\ req \in [Requests -> Request] /\ req[r] \in Request
        /\ req[r].todo \in [Keys -> RowStatus]
    BY <1>a DEF TypeOK, Request
  <1>1. CASE ListLive(r)
    <2> DEFINE t == [k \in Keys |-> IF Live(status, k) THEN status[k] ELSE "absent"]
    <2>1. /\ UNCHANGED <<rows, content>> /\ req[r].op = "delete"
          /\ enrollment = req[r].seen /\ enrollment # "absent"
      BY <1>a, <1>1 DEF ListLive, DeletionAlone
    <2>2. /\ t \in [Keys -> RowStatus]
          /\ \A j \in Keys : t[j] # "absent" => t[j] = status[j] /\ Live(status, j)
      BY <1>b DEF RowStatus
    <2> HIDE DEF t
    <2>3. CASE Finish(r)
      BY <1>a, <2>1, <2>3, FinishAlone, QuietSound
    <2>4. CASE /\ req[r].seen # "deletion_pending"
               /\ req' = [req EXCEPT ![r] = [@ EXCEPT !.todo = t, !.pc = "request_deletion"]]
      <3>1. req'[r].pc = "request_deletion" /\ req'[r].op = "delete" /\ req'[r].todo = t
        BY <1>b, <2>1, <2>4 DEF Request
      <3>2. Current(req[r].todo, None)'
        BY <2>1, <2>2, <3>1 DEF Current, Live, rows
      <3>3. UploadAlone(r)' /\ RemovalAlone(r)' /\ DeletionAlone(r)'
        BY <2>1, <2>4, <3>1, <3>2 DEF UploadAlone, RemovalAlone, DeletionAlone, rows
      <3>4. QED  BY <2>1, <3>3, QuietSound DEF Alone
    <2>5. CASE req[r].seen = "deletion_pending" /\ NextSample(r, t)
      <3>1. Alone(r)'
        BY <2>1, <2>2, <2>5, NextSampleAlone DEF rows, Live
      <3>2. QED  BY <2>1, <3>1, QuietSound
    <2>6. QED  BY <1>1, <2>3, <2>4, <2>5 DEF ListLive, t
  <1>2. CASE RequestDeletion(r)
    <2>1. /\ req[r].pc = "request_deletion" /\ req[r].op = "delete" /\ content' = content
          /\ enrollment \notin {"absent", "deletion_pending"} /\ Current(req[r].todo, None)
      BY <1>a, <1>2 DEF RequestDeletion, DeletionAlone
    <2>2. status' = status /\ enrollment' = "deletion_pending" => RowsChange
      BY <2>1 DEF RowsChange, DeletionRequested
    <2>3. ASSUME status' = status, enrollment' = "deletion_pending", NextSample(r, req[r].todo)
          PROVE  Alone(r)'
      <3>1. PICK t \in [Keys -> RowStatus] : t = req[r].todo
        BY <1>b
      <3>2. \A j \in Keys : t[j] # "absent" => t[j] = status'[j] /\ Live(status', j)
        BY <2>1, <2>3, <3>1, NoneAssumption DEF Current, Live
      <3>3. QED  BY <2>1, <2>3, <3>1, <3>2, NextSampleAlone
    <2>4. Transaction(r, TRUE, status, "deletion_pending", NextSample(r, req[r].todo))
      BY <1>2 DEF RequestDeletion
    <2>5. QED  BY <2>1, <2>2, <2>3, <2>4, TransactionAlone
  <1>3. CASE DiscardPending(r)
    <2>1. /\ UNCHANGED <<rows, content>> /\ req[r].pc = "discard" /\ req[r].op = "delete"
          /\ req[r].sample \in Keys /\ status[req[r].sample] = "pending"
          /\ enrollment = "deletion_pending" /\ Current(req[r].todo, req[r].sample)
      BY <1>a, <1>3 DEF DiscardPending, DeletionAlone
    <2>2. content[req[r].sample] # None
      BY <2>1 DEF AInv, RowsAndEnrollmentAgree
    <2>3. /\ req'[r].pc = "drop_row" /\ req'[r].op = "delete"
          /\ req'[r].sample = req[r].sample /\ req'[r].todo = req[r].todo
      BY <1>a, <1>3, <2>1, GotoShape DEF DiscardPending
    <2>4. UploadAlone(r)' /\ RemovalAlone(r)' /\ DeletionAlone(r)'
      BY <2>1, <2>2, <2>3 DEF UploadAlone, RemovalAlone, DeletionAlone, Current, Live, rows
    <2>5. QED  BY <2>1, <2>4, QuietSound DEF Alone
  <1>4. CASE DropRow(r)
    <2> DEFINE s == [status EXCEPT ![req[r].sample] = "absent"]
    <2>1. PICK k \in Keys : k = req[r].sample /\ status[k] = "pending"
      BY <1>a, <1>4 DEF DropRow, UploadAlone
    <2>2. \A j \in Keys \ {req[r].sample} : s[j] = status[j]
      BY <1>b
    <2>3. s = [status EXCEPT ![k] = "absent"]
      BY <2>1
    <2>4. /\ Transaction(r, TRUE, s, enrollment, SampleDone(r))
          /\ content' = content /\ req[r].pc = "drop_row"
      BY <1>4 DEF DropRow
    <2> HIDE DEF s
    <2>5. status' = s /\ enrollment' = enrollment => RowsChange
      BY <2>1, <2>3 DEF RowsChange, RowDropped
    <2>6. status' = s /\ enrollment' = enrollment /\ SampleDone(r) => Alone(r)'
      BY <2>2, <2>4, SampleDoneAlone
    <2>7. QED  BY <2>4, <2>5, <2>6, TransactionAlone
  <1>5. CASE MarkDeletionPending(r)
    <2> DEFINE s == [status EXCEPT ![req[r].sample] = "deletion_pending"]
               ok == Updates({req[r].sample}, s)
    <2>1. PICK k \in Keys : k = req[r].sample /\ status[k] \in {"active", "replacement_pending"}
      BY <1>a, <1>5 DEF MarkDeletionPending, RemovalAlone
    <2>2. /\ req[r].pc = "mark_deletion_pending" /\ req[r].op = "delete" /\ content' = content
          /\ enrollment = "deletion_pending" /\ Current(req[r].todo, k)
      BY <1>a, <1>5, <2>1 DEF MarkDeletionPending, RemovalAlone, DeletionAlone
    <2>3. s = [status EXCEPT ![k] = "deletion_pending"]
      BY <2>1
    <2>4. Transaction(r, ok, s, enrollment, Goto(r, "quarantine"))
      BY <1>5 DEF MarkDeletionPending
    <2> HIDE DEF s, ok
    <2>5. status' = s /\ enrollment' = enrollment => RowsChange
      <3>1. Rank(status[k]) < Rank("deletion_pending") /\ "deletion_pending" \in SampleStatus
        BY <2>1 DEF Rank, SampleStatus
      <3>2. QED  BY <2>1, <2>2, <2>3, <3>1 DEF RowsChange, Retired
    <2>6. ASSUME status' = s, enrollment' = enrollment, Goto(r, "quarantine")
          PROVE  Alone(r)'
      <3>1. /\ req'[r].pc = "quarantine" /\ req'[r].op = "delete" /\ req'[r].sample = k
            /\ req'[r].todo = req[r].todo
        BY <1>a, <2>1, <2>2, <2>6, GotoShape
      <3>2. status'[k] = "deletion_pending" /\ \A j \in Keys \ {k} : status'[j] = status[j]
        BY <1>b, <2>3, <2>6
      <3>3. Current(req[r].todo, k)'
        BY <2>2, <3>1, <3>2 DEF Current, Live
      <3>4. UploadAlone(r)' /\ RemovalAlone(r)' /\ DeletionAlone(r)'
        BY <2>2, <2>6, <3>1, <3>2, <3>3 DEF UploadAlone, RemovalAlone, DeletionAlone
      <3>5. QED  BY <3>4 DEF Alone
    <2>7. QED  BY <2>2, <2>4, <2>5, <2>6, TransactionAlone
  <1>6. CASE Quarantine(r) \/ Purge(r)
    <2>1. /\ UNCHANGED <<rows, content>> /\ req[r].pc \in {"quarantine", "purge"}
          /\ req[r].sample \in Keys
          /\ \/ req[r].pc = "quarantine" /\ Goto(r, "mark_quarantined")
             \/ req[r].pc = "purge" /\ Goto(r, "mark_deleted")
      BY <1>a, <1>6 DEF Quarantine, Purge, RemovalAlone
    <2>2. /\ req'[r].pc = IF req[r].pc = "purge" THEN "mark_deleted" ELSE "mark_quarantined"
          /\ req'[r].op = req[r].op
          /\ req'[r].sample = req[r].sample /\ req'[r].todo = req[r].todo
      BY <1>a, <2>1, GotoShape
    <2>3. Current(req[r].todo, req[r].sample) => Current(req[r].todo, req[r].sample)'
      BY <2>1, <2>2 DEF Current, Live, rows
    <2>4. UploadAlone(r)' /\ RemovalAlone(r)' /\ DeletionAlone(r)'
      BY <1>a, <2>1, <2>2, <2>3 DEF UploadAlone, RemovalAlone, DeletionAlone, rows
    <2>5. QED  BY <2>1, <2>4, QuietSound DEF Alone
  <1>7. CASE MarkQuarantined(r)
    <2> DEFINE s == [status EXCEPT ![req[r].sample] = "quarantined"]
               ok == Updates({req[r].sample}, s)
    <2>1. PICK k \in Keys : /\ k = req[r].sample
                            /\ status[k] \in {"deletion_pending", "replacement_pending"}
      BY <1>a, <1>7 DEF MarkQuarantined, RemovalAlone
    <2>2. req[r].pc = "mark_quarantined" /\ content' = content
      BY <1>7 DEF MarkQuarantined
    <2>3. req[r].op = "delete" => enrollment = "deletion_pending" /\ Current(req[r].todo, k)
      BY <1>a, <2>1, <2>2 DEF DeletionAlone
    <2>4. s = [status EXCEPT ![k] = "quarantined"]
      BY <2>1
    <2>5. Transaction(r, ok, s, enrollment, Goto(r, "purge"))
      BY <1>7 DEF MarkQuarantined
    <2> HIDE DEF s, ok
    <2>6. status' = s /\ enrollment' = enrollment => RowsChange
      <3>1. Rank(status[k]) < Rank("quarantined") /\ "quarantined" \in SampleStatus
        BY <2>1 DEF Rank, SampleStatus
      <3>2. QED  BY <2>1, <2>4, <3>1 DEF RowsChange, Retired
    <2>7. ASSUME status' = s, enrollment' = enrollment, Goto(r, "purge")
          PROVE  Alone(r)'
      <3>1. /\ req'[r].pc = "purge" /\ req'[r].op = req[r].op /\ req'[r].sample = k
            /\ req'[r].todo = req[r].todo
        BY <1>a, <2>1, <2>7, GotoShape
      <3>2. status'[k] = "quarantined" /\ \A j \in Keys \ {k} : status'[j] = status[j]
        BY <1>b, <2>4, <2>7
      <3>3. Current(req[r].todo, k) => Current(req[r].todo, k)'
        BY <3>1, <3>2 DEF Current, Live
      <3>4. UploadAlone(r)' /\ RemovalAlone(r)' /\ DeletionAlone(r)'
        BY <2>3, <2>7, <3>1, <3>2, <3>3 DEF UploadAlone, RemovalAlone, DeletionAlone
      <3>5. QED  BY <3>4 DEF Alone
    <2>8. QED  BY <2>2, <2>5, <2>6, <2>7, TransactionAlone
  <1>8. CASE MarkDeleted(r)
    <2> DEFINE s == [status EXCEPT ![req[r].sample] = "deleted"]
               ok == Updates({req[r].sample}, s)
    <2>1. PICK k \in Keys : k = req[r].sample /\ status[k] = "quarantined"
      BY <1>a, <1>8 DEF MarkDeleted, RemovalAlone
    <2>2. \A j \in Keys \ {req[r].sample} : s[j] = status[j]
      BY <1>b
    <2>3. s = [status EXCEPT ![k] = "deleted"]
      BY <2>1
    <2>4. /\ Transaction(r, ok, s, enrollment, SampleDone(r))
          /\ content' = content /\ req[r].pc = "mark_deleted"
      BY <1>8 DEF MarkDeleted
    <2> HIDE DEF s, ok
    <2>5. status' = s /\ enrollment' = enrollment => RowsChange
      <3>1. Rank(status[k]) < Rank("deleted") /\ "deleted" \in SampleStatus
        BY <2>1 DEF Rank, SampleStatus
      <3>2. QED  BY <2>1, <2>3, <3>1 DEF RowsChange, Retired
    <2>6. status' = s /\ enrollment' = enrollment /\ SampleDone(r) => Alone(r)'
      BY <2>2, <2>4, SampleDoneAlone
    <2>7. QED  BY <2>4, <2>5, <2>6, TransactionAlone
  <1>9. CASE Recheck(r)
    <2>1. UNCHANGED <<rows, content>> /\ enrollment = "deletion_pending" /\ req[r].op = "delete"
      BY <1>a, <1>9 DEF Recheck, DeletionAlone
    <2>2. CASE Finish(r)
      BY <1>a, <2>1, <2>2, FinishAlone, QuietSound
    <2>3. CASE ~AnyLive /\ Goto(r, "finalize")
      <3>1. req'[r].pc = "finalize" /\ req'[r].op = "delete"
        BY <1>a, <2>1, <2>3, GotoShape
      <3>2. ~AnyLive'
        BY <2>1, <2>3 DEF AnyLive, Live, rows
      <3>3. UploadAlone(r)' /\ RemovalAlone(r)' /\ DeletionAlone(r)'
        BY <2>1, <3>1, <3>2 DEF UploadAlone, RemovalAlone, DeletionAlone, rows
      <3>4. QED  BY <2>1, <3>3, QuietSound DEF Alone
    <2>4. QED  BY <1>9, <2>2, <2>3 DEF Recheck
  <1>10. CASE Finalize(r)
    <2>1. /\ req[r].pc = "finalize" /\ content' = content
          /\ enrollment = "deletion_pending" /\ ~AnyLive
      BY <1>a, <1>10 DEF Finalize, DeletionAlone
    <2>2. status' = status /\ enrollment' = "deleted" => RowsChange
      BY <2>1 DEF RowsChange, Closed
    <2>3. Transaction(r, TRUE, status, "deleted", Finish(r))
      BY <1>10 DEF Finalize
    <2>4. QED  BY <1>a, <2>1, <2>2, <2>3, FinishAlone, TransactionAlone
  <1>11. QED
    BY <1>1, <1>2, <1>3, <1>4, <1>5, <1>6, <1>7, <1>8, <1>9, <1>10 DEF RemovalStep

LEMMA FailureAlone ==
    ASSUME AInv, NEW r \in Requests, Failure(r)
    PROVE  Sound(r)
  <1>1. UNCHANGED <<rows, content>> /\ (Finish(r) \/ OnError(r))
    BY DEF Failure, DatabaseError, FileError, Crash
  <1>2. ContentKept /\ status' = status
    BY <1>1 DEF ContentKept, rows
  <1>3. Alone(r)'
    BY <1>1, <1>2, FinishAlone, ErrorAlone DEF AInv
  <1>4. QED  BY <1>1, <1>3, QuietSound

(***************************************************************************)
(* The invariant of a request that is alone, and what it gives.            *)
(***************************************************************************)
LEMMA AInvInit == Init => AInv
  BY NoneAssumption
     DEF Init, AInv, TypeOK, Request, Idle, Nothing, RowStatus, Points, RowsAndEnrollmentAgree,
         OneActive, NoneActive, Alone, UploadAlone, RemovalAlone, DeletionAlone, UnderwayPoints,
         ClaimedPoints, RemovalPoints, DeletionPoints, LoopPoints

LEMMA AloneStep ==
    ASSUME AInv, [Next]_vars
    PROVE  /\ RowsChange /\ ContentKept
           /\ OneAtATime => AInv'
  <1>1. TypeOK'
    BY TypeStep DEF AInv
  <1>2. ASSUME NEW r \in Requests, Start(r) \/ UploadStep(r) \/ RemovalStep(r) \/ Failure(r)
        PROVE  Sound(r)
    BY <1>2, StartAlone, UploadAloneStep, RemovalAloneStep, FailureAlone
  <1>3. CASE UNCHANGED vars
    <2>1. RowsChange /\ ContentKept
      BY <1>3 DEF vars, RowsChange, ContentKept
    <2>2. RowsAndEnrollmentAgree'
      BY <2>1, AgreementKept DEF AInv
    <2>3. ASSUME NEW r \in Requests PROVE Alone(r)'
      BY <1>3 DEF AInv, vars, Alone, UploadAlone, RemovalAlone, DeletionAlone, NoneActive,
                  Current, Live, AnyLive
    <2>4. QED  BY <1>1, <2>1, <2>2, <2>3 DEF AInv
  <1>4. ASSUME NEW r \in Requests, Sound(r)
        PROVE  /\ RowsChange /\ ContentKept
               /\ OneAtATime => AInv'
    <2>1. RowsChange /\ ContentKept
      BY <1>4 DEF Sound
    <2>2. RowsAndEnrollmentAgree'
      BY <2>1, AgreementKept DEF AInv
    <2>3. OneAtATime => \A q \in Requests : Alone(q)'
      BY <1>4 DEF Sound, OneAtATime
    <2>4. QED  BY <1>1, <2>1, <2>2, <2>3 DEF AInv
  <1>5. QED  BY <1>2, <1>3, <1>4 DEF Next

\* Whatever fails, dies or is lost on its way back, requests that come one at
\* a time never move a sample back along its lifecycle.
THEOREM SamplesMoveForward ==
    ASSUME OneAtATime
    PROVE  Spec => LifecycleForward
  <1>1. AInv /\ [Next]_vars => AInv'
    BY AloneStep
  <1>2. AInv /\ [Next]_vars =>
           [\A k \in Keys : \/ Rank(status[k]) <= Rank(status'[k])
                            \/ status[k] = "pending" /\ status'[k] = "absent"]_vars
    BY AloneStep, ChangeGoesForward DEF Forward, AInv
  <1>3. QED  BY AInvInit, <1>1, <1>2, PTL DEF Spec, LifecycleForward

\* ... and close an enrollment only when every sample of it is gone.
THEOREM DeletionsDrain ==
    ASSUME OneAtATime
    PROVE  Spec => DeletionDrains
  <1>1. AInv /\ [Next]_vars => AInv'
    BY AloneStep
  <1>2. AInv /\ [Next]_vars =>
           [enrollment # "deleted" /\ enrollment' = "deleted" => ~AnyLive]_vars
    BY AloneStep, ChangeDrains
  <1>3. QED  BY AInvInit, <1>1, <1>2, PTL DEF Spec, DeletionDrains

\* ... and to the rest of the system look like a register of one image: every
\* step of the protocol is one step of EnrollmentRegister, or none.
THEOREM EnrollmentImplementsRegister ==
    ASSUME OneAtATime
    PROVE  Spec => ImplementsRegister
  <1>1. AInv /\ [Next]_vars => AInv'
    BY AloneStep
  <1>2. AInv /\ [Next]_vars => [Register!Next]_(Register!register)
    BY AloneStep, ChangeImplements DEF AInv
  <1>3. Init => Register!Init
    BY DEF Init, Nothing, CurrentImage, Register!Init
  <1>4. QED
    BY AInvInit, <1>1, <1>2, <1>3, PTL DEF Spec, ImplementsRegister, Register!Spec

(***************************************************************************)
(* Uploads that overlap, as long as nobody deletes: what create and        *)
(* replace leave behind.                                                   *)
(***************************************************************************)
RetiringPoints == {"quarantine", "mark_quarantined", "purge", "mark_deleted"}

\* The request is finishing off the sample k it has replaced.
Retiring(r, k) == req[r].sample = k /\ req[r].pc \in RetiringPoints

Holds(r, k) == Uploading(r, k) \/ Retiring(r, k)

ReplacingPoints == {"stage", "validate", "insert_row", "promote", "activate"}

\* What a request relies on when there are no deletions.
UndeletedView(r) ==
    LET k == req[r].sample
    IN  /\ req[r].op # "delete"
        /\ req[r].pc \notin DeletionPoints \cup {"mark_deletion_pending"}
        /\ req[r].op = "replace" /\ req[r].pc \in ReplacingPoints => ~NoneActive
        /\ req[r].pc \in {"quarantine", "mark_quarantined"} => status[k] = "replacement_pending"
        /\ req[r].pc \in {"purge", "mark_deleted"} => status[k] = "quarantined"

RetirementsExclusive ==
    \A q, r \in Requests, k \in Keys : Retiring(q, k) /\ Retiring(r, k) => q = r

\* A row that is being uploaded or retired is in the hands of one request.
LEMMA RowsInHand ==
    ASSUME IInv, \A p \in Requests : UndeletedView(p), RetirementsExclusive,
           NEW r \in Requests, NEW k \in Keys, Holds(r, k)
    PROVE  /\ content[k] # None
           /\ Uploading(r, k) => status[k] \in {"absent", "pending"}
           /\ Retiring(r, k) => status[k] \in {"replacement_pending", "quarantined"}
           /\ status[k] # "active"
           /\ \A q \in Requests : Holds(q, k) => q = r
  <1>1. Uploading(r, k) => /\ content[k] # None /\ status[k] \in {"absent", "pending"}
                           /\ \A q \in Requests : Uploading(q, k) => q = r
    BY DEF IInv, UploadsExclusive
  <1>2. ASSUME NEW q \in Requests, Retiring(q, k)
        PROVE  Uploaded(k) /\ status[k] \in {"replacement_pending", "quarantined"}
    BY <1>2 DEF UndeletedView, IInv, SampleInHand, Retiring, RetiringPoints, RemovalPoints
  <1>3. Uploaded(k) => content[k] # None /\ \A q \in Requests : ~Uploading(q, k)
    BY DEF Uploaded
  <1>4. \A q \in Requests : Retiring(q, k) /\ Retiring(r, k) => q = r
    BY DEF RetirementsExclusive
  <1>5. QED  BY <1>1, <1>2, <1>3, <1>4 DEF Holds

(***************************************************************************)
(* The register of overlapping uploads, whatever fails, dies or is lost.   *)
(***************************************************************************)
\* What an upload still knows of the enrollment, however long ago it looked.
UploadView(r) ==
    /\ UndeletedView(r)
    /\ req[r].pc \in UnderwayPoints => enrollment # "absent"
    /\ req[r].seen = "active" => enrollment = "active"

OverlapInv ==
    /\ IInv
    /\ \A r \in Requests : UploadView(r)
    /\ RetirementsExclusive
    /\ RowsAndEnrollmentAgree
    /\ enrollment \notin {"deletion_pending", "deleted"}

\* What a step of r does to the rows ...
Changed(r) ==
    /\ RowsChange /\ ContentKept
    /\ enrollment' \notin {"deletion_pending", "deleted"}
    /\ \A q \in Requests \ {r}, k \in Keys : Holds(q, k) => status'[k] = status[k]

\* ... and where it leaves its request.
Left(r) ==
    /\ \A q \in Requests \ {r} : req'[q] = req[q]
    /\ UploadView(r)'
    /\ \A k \in Keys : Retiring(r, k)' => Retiring(r, k) \/ status[k] = "active"

\* The enrollment is never closed again, and keeps an image once it has one.
LEMMA StaysOpen ==
    ASSUME OverlapInv, NEW r \in Requests, Changed(r)
    PROVE  /\ RowsAndEnrollmentAgree'
           /\ enrollment = "active" => enrollment' = "active"
           /\ enrollment # "absent" => enrollment' # "absent"
           /\ NoneActive' => NoneActive
  <1>1. TypeOK /\ RowsAndEnrollmentAgree /\ RowsChange /\ ContentKept
    BY DEF OverlapInv, IInv, Changed
  <1>2. RowsAndEnrollmentAgree'
    BY <1>1, AgreementKept
  <1>3. /\ enrollment = "active" => enrollment' = "active"
        /\ enrollment # "absent" => enrollment' # "absent"
    BY <1>1 DEF Changed, RowsChange, Opened, DeletionRequested, Closed, RowInserted, RowDropped,
                FirstActivated, Replaced, Retired
  <1>4. NoneActive' => NoneActive
    BY <1>1, <1>2, <1>3 DEF OverlapInv, RowsAndEnrollmentAgree
  <1>5. QED  BY <1>2, <1>3, <1>4

LEMMA OverlapKeeps ==
    ASSUME OverlapInv, IInv', NEW r \in Requests, Changed(r), Left(r)
    PROVE  OverlapInv'
  <1>1. ASSUME NEW q \in Requests, q # r PROVE UploadView(q)'
    <2>1. /\ req'[q] = req[q] /\ UploadView(q) /\ (NoneActive' => NoneActive)
          /\ enrollment = "active" => enrollment' = "active"
          /\ enrollment # "absent" => enrollment' # "absent"
      BY <1>1, StaysOpen DEF Left, OverlapInv
    <2>2. CASE req[q].pc \in RetiringPoints
      <3>1. PICK k \in Keys : k = req[q].sample
        BY <2>2 DEF OverlapInv, IInv, SampleInHand, RetiringPoints, RemovalPoints
      <3>2. status'[k] = status[k]
        BY <1>1, <2>2, <3>1 DEF Changed, Holds, Retiring
      <3>3. QED  BY <2>1, <3>1, <3>2 DEF UploadView, UndeletedView
    <2>3. CASE req[q].pc \notin RetiringPoints
      BY <2>1, <2>3 DEF UploadView, UndeletedView, RetiringPoints
    <2>4. QED  BY <2>2, <2>3
  <1>2. ASSUME NEW q \in Requests, NEW k \in Keys, q # r, Retiring(q, k)', Retiring(r, k)'
        PROVE  FALSE
    <2>1. Retiring(q, k)
      BY <1>2 DEF Left, Retiring
    <2>2. status[k] # "active"
      BY <2>1, RowsInHand DEF OverlapInv, UploadView, Holds
    <2>3. QED  BY <1>2, <2>1, <2>2 DEF Left, OverlapInv, RetirementsExclusive
  <1>3. ASSUME NEW p \in Requests, NEW q \in Requests, NEW k \in Keys, p # q, p # r, q # r,
               Retiring(p, k)', Retiring(q, k)'
        PROVE  FALSE
    BY <1>3 DEF Left, OverlapInv, RetirementsExclusive, Retiring
  <1>4. RetirementsExclusive'
    BY <1>2, <1>3 DEF RetirementsExclusive
  <1>5. QED  BY <1>1, <1>4, StaysOpen DEF OverlapInv, Left, Changed

\* A step that leaves the rows alone.
LEMMA RowsLeftAlone ==
    ASSUME OverlapInv, NEW r \in Requests, UNCHANGED rows, ContentKept
    PROVE  Changed(r)
  BY DEF rows, Changed, RowsChange, OverlapInv

LEMMA FinishLeft ==
    ASSUME OverlapInv, NEW r \in Requests, Finish(r)
    PROVE  Left(r)
  <1>1. req'[r] = Idle /\ \A q \in Requests \ {r} : req'[q] = req[q]
    BY DEF OverlapInv, IInv, TypeOK, Finish
  <1>2. QED
    BY <1>1 DEF Idle, Left, UploadView, UndeletedView, Retiring, RetiringPoints, UnderwayPoints,
                DeletionPoints, ReplacingPoints

\* An upload goes on to pc, or takes back what it did.
LEMMA GotoLeft ==
    ASSUME OverlapInv, NEW r \in Requests, Changed(r),
           NEW pc \in UploadPoints \cup {"drop_row"}, Goto(r, pc),
           pc \in UnderwayPoints => req[r].pc \in UnderwayPoints,
           pc \in ReplacingPoints /\ req[r].op = "replace" => req[r].pc \in ReplacingPoints
    PROVE  Left(r)
  <1>1. /\ \A q \in Requests \ {r} : req'[q] = req[q]
        /\ req'[r].pc = pc /\ req'[r].op = req[r].op /\ req'[r].seen = req[r].seen
    BY GotoShape DEF OverlapInv, IInv
  <1>2. UploadView(r)'
    BY <1>1, StaysOpen
       DEF OverlapInv, UploadView, UndeletedView, UploadPoints, DeletionPoints
  <1>3. QED  BY <1>1, <1>2 DEF Left, Retiring, RetiringPoints, UploadPoints

\* A retirement goes on to pc, which the row of the sample in hand allows.
LEMMA RetirementLeft ==
    ASSUME OverlapInv, NEW r \in Requests, Changed(r),
           NEW pc \in RetiringPoints, Goto(r, pc), req[r].pc \in RetiringPoints,
           \/ pc = "mark_quarantined" /\ status'[req[r].sample] = "replacement_pending"
           \/ pc \in {"purge", "mark_deleted"} /\ status'[req[r].sample] = "quarantined"
    PROVE  Left(r)
  <1>1. /\ \A q \in Requests \ {r} : req'[q] = req[q]
        /\ req'[r].pc = pc /\ req'[r].op = req[r].op /\ req'[r].seen = req[r].seen
        /\ req'[r].sample = req[r].sample
    BY GotoShape DEF OverlapInv, IInv
  <1>2. UploadView(r)'
    BY <1>1, StaysOpen
       DEF OverlapInv, UploadView, UndeletedView, RetiringPoints, DeletionPoints, UnderwayPoints,
           ReplacingPoints
  <1>3. QED  BY <1>1, <1>2 DEF Left, Retiring

LEMMA ErrorLeft ==
    ASSUME OverlapInv, NEW r \in Requests, Changed(r), OnError(r)
    PROVE  Left(r)
  <1>1. CASE Finish(r)
    BY <1>1, FinishLeft
  <1>2. ASSUME NEW pc \in {"drop_row", "undo_quarantine"}, Goto(r, pc)
        PROVE  Left(r)
    BY <1>2, GotoLeft DEF UploadPoints, UnderwayPoints, ReplacingPoints
  <1>3. QED  BY <1>1, <1>2 DEF OnError

\* A commit whose acknowledgement is lost has changed the rows all the same.
LEMMA TransactionOverlap ==
    ASSUME OverlapInv, NEW r \in Requests, content' = content,
           NEW STATE allowed, NEW ACTION then, NEW STATE s, NEW STATE e,
           Transaction(r, allowed, s, e, then),
           allowed /\ status' = s /\ enrollment' = e => Changed(r),
           allowed /\ status' = s /\ enrollment' = e /\ then => Left(r)
    PROVE  Changed(r) /\ Left(r)
  <1>1. ContentKept
    BY DEF ContentKept
  <1>2. Changed(r)
    BY <1>1, RowsLeftAlone DEF Transaction
  <1>3. Left(r)
    BY <1>2, ErrorLeft DEF Transaction
  <1>4. QED  BY <1>2, <1>3

\* A change of the row of k and of no other, when nobody else holds k.
LEMMA RowChanged ==
    ASSUME OverlapInv, NEW r \in Requests, content' = content, RowsChange,
           enrollment' \notin {"deletion_pending", "deleted"}, NEW k \in Keys, NEW x,
           status' = [status EXCEPT ![k] = x], \A q \in Requests \ {r} : ~Holds(q, k)
    PROVE  Changed(r)
  <1>1. \A j \in Keys : j # k => status'[j] = status[j]
    BY DEF OverlapInv, IInv, TypeOK
  <1>2. QED  BY <1>1 DEF Changed, ContentKept

LEMMA UploadOverlap ==
    ASSUME OverlapInv, NEW r \in Requests, UploadStep(r)
    PROVE  Changed(r) /\ Left(r)
  <1> USE DEF UploadPoints, UnderwayPoints, ReplacingPoints
  <1>a. /\ TypeOK /\ RowsAndEnrollmentAgree /\ UploadView(r) /\ SampleInHand(r)
        /\ SnapshotsBounded(r)
    BY DEF OverlapInv, IInv
  <1>b. /\ status \in [Keys -> RowStatus] /\ content \in [Keys -> Contents \cup {None}]
        /\ req \in [Requests -> Request] /\ req[r] \in Request
        /\ enrollment \in {"absent", "pending", "active"}
    BY <1>a DEF TypeOK, OverlapInv, EnrollmentStatus
  <1>c. ASSUME req[r].pc \in {"insert_row", "activate"}
        PROVE  /\ req[r].sample \in Keys /\ Uploading(r, req[r].sample)
               /\ status[req[r].sample] \in {"absent", "pending"}
               /\ content[req[r].sample] # None
               /\ \A q \in Requests \ {r} : ~Holds(q, req[r].sample)
    <2>1. PICK k \in Keys : k = req[r].sample
      BY <1>a, <1>c DEF SampleInHand, UploadingPoints
    <2>2. Uploading(r, k)
      BY <1>c, <2>1 DEF Uploading, UploadingPoints
    <2>3. QED  BY <2>1, <2>2, RowsInHand DEF OverlapInv, UploadView, Holds
  <1>1. CASE InsertEnrollment(r)
    <2> DEFINE then == req' = [req EXCEPT ![r] = [@ EXCEPT !.pc = "read_active", !.seen = "pending"]]
    <2>1. /\ Transaction(r, enrollment = "absent", status, "pending", then)
          /\ content' = content
      BY <1>1 DEF InsertEnrollment
    <2>2. enrollment = "absent" /\ status' = status /\ enrollment' = "pending" => Changed(r)
      BY <2>1 DEF Changed, RowsChange, Opened, ContentKept
    <2>3. ASSUME enrollment' = "pending", then
          PROVE  Left(r)
      <3>1. /\ req'[r].pc = "read_active" /\ req'[r].seen = "pending" /\ req'[r].op = req[r].op
            /\ \A q \in Requests \ {r} : req'[q] = req[q]
        BY <1>b, <2>3 DEF Request
      <3>2. QED
        BY <1>a, <2>3, <3>1
           DEF Left, UploadView, UndeletedView, Retiring, RetiringPoints, DeletionPoints
    <2> HIDE DEF then
    <2>4. QED  BY <2>1, <2>2, <2>3, TransactionOverlap
  <1>2. CASE ReadActive(r)
    <2>1. UNCHANGED rows /\ UNCHANGED content /\ req[r].pc = "read_active"
      BY <1>2 DEF ReadActive, rows
    <2>2. Changed(r)
      BY <2>1, RowsLeftAlone DEF ContentKept
    <2>3. CASE req[r].op = "create" /\ Goto(r, "stage")
      BY <2>1, <2>2, <2>3, GotoLeft
    <2>4. ASSUME NEW o \in Keys, status[o] = "active",
                 req' = [req EXCEPT ![r] = [@ EXCEPT !.old = o, !.pc = "stage"]]
          PROVE  Left(r)
      <3>1. /\ req'[r].pc = "stage" /\ req'[r].seen = req[r].seen /\ req'[r].op = req[r].op
            /\ \A q \in Requests \ {r} : req'[q] = req[q]
        BY <1>b, <2>4 DEF Request
      <3>2. ~NoneActive' /\ (enrollment = "active" => enrollment' = "active")
            /\ (enrollment # "absent" => enrollment' # "absent")
        BY <2>1, <2>4 DEF NoneActive, rows
      <3>3. QED
        BY <1>a, <2>1, <3>1, <3>2
           DEF Left, UploadView, UndeletedView, Retiring, RetiringPoints, DeletionPoints
    <2>5. CASE Finish(r)
      BY <2>2, <2>5, FinishLeft
    <2>6. QED  BY <1>2, <2>2, <2>3, <2>4, <2>5 DEF ReadActive
  <1>3. CASE WriteStaged(r)
    <2>1. PICK k \in Keys, c \in Contents :
             /\ content[k] = None
             /\ content' = [content EXCEPT ![k] = c]
             /\ req' = [req EXCEPT ![r] = [@ EXCEPT !.sample = k, !.pc = "validate"]]
      BY <1>3 DEF WriteStaged
    <2>2. UNCHANGED rows /\ req[r].pc = "stage"
      BY <1>3 DEF WriteStaged, rows
    <2>3. Changed(r)
      <3>1. ContentKept
        BY <1>b, <2>1 DEF ContentKept
      <3>2. QED  BY <2>2, <3>1, RowsLeftAlone
    <2>4. /\ req'[r].pc = "validate" /\ req'[r].seen = req[r].seen /\ req'[r].op = req[r].op
          /\ \A q \in Requests \ {r} : req'[q] = req[q]
      BY <1>b, <2>1 DEF Request
    <2>5. Left(r)
      BY <1>a, <2>2, <2>4
         DEF Left, UploadView, UndeletedView, Retiring, RetiringPoints, DeletionPoints, NoneActive,
             rows
    <2>6. QED  BY <2>3, <2>5
  <1>4. CASE AbortWrite(r)
    BY <1>4, FinishLeft, RowsLeftAlone DEF AbortWrite, ContentKept
  <1>5. CASE Validate(r) \/ Promote(r) \/ UndoQuarantine(r) \/ UndoPurge(r)
    <2>1. /\ UNCHANGED rows /\ UNCHANGED content
          /\ req[r].pc \in {"validate", "promote", "undo_quarantine", "undo_purge"}
      BY <1>5 DEF Validate, Promote, UndoQuarantine, UndoPurge
    <2>2. Changed(r)
      BY <2>1, RowsLeftAlone DEF ContentKept
    <2>3. \/ Finish(r) \/ OnError(r)
          \/ /\ req[r].pc \in {"validate", "promote"}
             /\ Goto(r, "insert_row") \/ Goto(r, "activate")
          \/ Goto(r, "undo_purge") \/ Goto(r, "undo_row")
      BY <1>5 DEF Validate, Promote, UndoQuarantine, UndoPurge
    <2>4. ASSUME NEW pc \in {"insert_row", "activate", "undo_purge", "undo_row"}, Goto(r, pc),
                 pc \in {"insert_row", "activate"} => req[r].pc \in {"validate", "promote"}
          PROVE  Left(r)
      BY <2>2, <2>4, GotoLeft
    <2>5. QED  BY <2>2, <2>3, <2>4, FinishLeft, ErrorLeft
  <1>6. CASE InsertRow(r)
    <2> DEFINE s == [status EXCEPT ![req[r].sample] = "pending"]
               ok == UniqueContent(s)
    <2>1. PICK k \in Keys : k = req[r].sample
      BY <1>6, <1>c DEF InsertRow
    <2>2. /\ content' = content /\ req[r].pc = "insert_row"
          /\ Transaction(r, ok, s, enrollment, Goto(r, "promote"))
      BY <1>6 DEF InsertRow
    <2>3. ASSUME status' = s, enrollment' = enrollment PROVE Changed(r)
      <3>1. CASE status[k] = "absent"
        <4>1. RowInserted(k)
          BY <1>c, <2>1, <2>2, <2>3, <3>1 DEF RowInserted
        <4>2. QED  BY <1>c, <2>1, <2>2, <2>3, <4>1, RowChanged DEF OverlapInv, RowsChange
      <3>2. CASE status[k] = "pending"
        <4>1. status' = status
          BY <1>b, <2>1, <2>3, <3>2
        <4>2. QED  BY <2>2, <2>3, <4>1, RowsLeftAlone DEF rows, ContentKept
      <3>3. QED  BY <1>c, <2>1, <2>2, <3>1, <3>2
    <2> HIDE DEF s, ok
    <2>4. ok /\ status' = s /\ enrollment' = enrollment /\ Goto(r, "promote") => Left(r)
      BY <2>2, <2>3, GotoLeft
    <2>5. QED  BY <2>2, <2>3, <2>4, TransactionOverlap
  <1>7. CASE ActivateCreated(r)
    <2> DEFINE s == [status EXCEPT ![req[r].sample] = "active"]
               e == IF req[r].seen = "active" THEN enrollment ELSE "active"
               ok == Updates({req[r].sample}, s)
    <2>1. PICK k \in Keys : k = req[r].sample
      BY <1>7, <1>c DEF ActivateCreated, At
    <2>2. /\ content' = content /\ req[r].pc = "activate" /\ Transaction(r, ok, s, e, Finish(r))
      BY <1>7 DEF ActivateCreated, At
    <2>3. ASSUME ok, status' = s, enrollment' = e PROVE Changed(r)
      <3>1. status[k] = "pending"
        BY <1>c, <2>1, <2>2, <2>3 DEF Updates
      <3>2. NoneActive
        <4>1. s[k] = "active" /\ \A j \in Keys : j # k => s[j] = status[j]
          BY <1>b, <2>1
        <4>2. OneActive(s)
          BY <2>3 DEF Updates
        <4> HIDE DEF s
        <4>3. QED  BY <3>1, <4>1, <4>2 DEF OneActive, NoneActive
      <3>3. enrollment = "pending" /\ e = "active"
        BY <1>a, <1>b, <2>2, <3>2 DEF RowsAndEnrollmentAgree, UploadView
      <3>4. FirstActivated(k)
        BY <2>1, <2>3, <3>1, <3>2, <3>3 DEF FirstActivated
      <3>5. QED  BY <1>c, <2>1, <2>2, <2>3, <3>3, <3>4, RowChanged DEF RowsChange
    <2> HIDE DEF s, e, ok
    <2>4. QED  BY <2>2, <2>3, FinishLeft, TransactionOverlap
  <1>8. CASE ActivateReplacement(r)
    <2> DEFINE s == [status EXCEPT ![req[r].old] = "replacement_pending",
                                   ![req[r].sample] = "active"]
               then == req' = [req EXCEPT ![r] = [@ EXCEPT !.sample = req[r].old, !.pc = "quarantine"]]
               ok == Updates({req[r].sample, req[r].old}, s)
    <2>1. PICK k \in Keys : k = req[r].sample
      BY <1>8, <1>c DEF ActivateReplacement, At
    <2>2. /\ content' = content /\ req[r].pc = "activate" /\ req[r].op = "replace"
          /\ Transaction(r, ok, s, enrollment, then)
      BY <1>8 DEF ActivateReplacement, At
    <2>3. PICK o \in Keys : o = req[r].old /\ status[o] # "pending"
      BY <1>a, <2>2, NoneAssumption DEF SnapshotsBounded, UploadingPoints
    <2>4. ASSUME ok
          PROVE  /\ status[k] = "pending" /\ status[o] = "active" /\ content[o] # content[k]
                 /\ \A j \in Keys : s[j] = IF j = k THEN "active"
                                           ELSE IF j = o THEN "replacement_pending" ELSE status[j]
      <3>1. status[k] = "pending" /\ o # k
        BY <1>c, <2>1, <2>2, <2>3, <2>4 DEF Updates
      <3>2. \A j \in Keys : s[j] = IF j = k THEN "active"
                                   ELSE IF j = o THEN "replacement_pending" ELSE status[j]
        BY <1>b, <2>1, <2>3
      <3>3. OneActive(s) /\ UniqueContent(s)
        BY <2>4 DEF Updates
      <3> HIDE DEF s
      <3>4. status[o] = "active"
        <4>1. PICK j \in Keys : status[j] = "active"
          BY <1>a, <2>2 DEF UploadView, UndeletedView, NoneActive
        <4>2. j # k
          BY <3>1, <4>1
        <4>3. j # o => s[j] = "active" /\ s[k] = "active"
          BY <3>2, <4>1, <4>2
        <4>4. QED  BY <3>3, <4>1, <4>2, <4>3 DEF OneActive
      <3>5. content[o] # content[k]
        BY <3>1, <3>2, <3>3 DEF UniqueContent, Live
      <3>6. QED  BY <3>1, <3>2, <3>4, <3>5
    <2>5. ASSUME ok, status' = s, enrollment' = enrollment PROVE Changed(r)
      <3>1. Replaced(o, k)
        <4>1. enrollment = "active"
          BY <1>a, <1>b, <2>4, <2>5 DEF RowsAndEnrollmentAgree, NoneActive
        <4>2. QED  BY <2>1, <2>3, <2>4, <2>5, <4>1 DEF Replaced
      <3>2. \A q \in Requests \ {r} : ~Holds(q, o)
        BY <2>4, <2>5, RowsInHand DEF OverlapInv, UploadView
      <3>3. \A j \in Keys : j # k /\ j # o => status'[j] = status[j]
        BY <2>4, <2>5
      <3>4. QED
        BY <1>b, <1>c, <2>1, <2>2, <2>5, <3>1, <3>2, <3>3 DEF Changed, RowsChange, ContentKept
    <2>6. ASSUME ok, status' = s, enrollment' = enrollment, then
          PROVE  Left(r)
      <3>1. /\ req'[r].pc = "quarantine" /\ req'[r].op = "replace" /\ req'[r].sample = o
            /\ req'[r].seen = req[r].seen /\ \A q \in Requests \ {r} : req'[q] = req[q]
        BY <1>b, <2>2, <2>3, <2>6 DEF Request
      <3>2. status'[o] = "replacement_pending" /\ status[o] = "active"
        BY <2>3, <2>4, <2>6
      <3>3. QED
        BY <1>a, <2>6, <3>1, <3>2
           DEF Left, UploadView, UndeletedView, Retiring, RetiringPoints, DeletionPoints
    <2> HIDE DEF s, then, ok
    <2>7. QED  BY <2>2, <2>5, <2>6, TransactionOverlap
  <1>9. CASE UndoRow(r)
    <2> DEFINE s == [status EXCEPT ![req[r].sample] = IF @ = "pending" THEN "absent" ELSE @]
    <2>1. PICK k \in Keys : k = req[r].sample
      BY <1>a, <1>9 DEF UndoRow, SampleInHand
    <2>2. /\ content' = content /\ req[r].pc = "undo_row"
          /\ Transaction(r, TRUE, s, enrollment, Finish(r))
      BY <1>9 DEF UndoRow
    <2>3. ASSUME status' = s, enrollment' = enrollment PROVE Changed(r)
      <3>1. CASE status[k] = "pending"
        <4>1. RowDropped(k)
          BY <1>b, <2>1, <2>3, <3>1 DEF RowDropped
        <4>2. Uploading(r, k) \/ Uploaded(k)
          BY <1>a, <2>1, <2>2 DEF SampleInHand
        <4>3. ASSUME NEW q \in Requests, q # r, Holds(q, k)
              PROVE  FALSE
          <5>1. Uploading(q, k) /\ \A p \in Requests : Holds(p, k) => p = q
            BY <3>1, <4>3, RowsInHand DEF OverlapInv, UploadView, Holds
          <5>2. QED  BY <4>2, <4>3, <5>1 DEF Holds, Uploaded
        <4>4. status' = [status EXCEPT ![k] = "absent"]
          BY <4>1 DEF RowDropped
        <4>5. enrollment' \notin {"deletion_pending", "deleted"} /\ RowsChange
          BY <1>b, <2>3, <4>1 DEF RowsChange
        <4>6. QED  BY <2>2, <4>3, <4>4, <4>5, RowChanged
      <3>2. CASE status[k] # "pending"
        <4>1. status' = status
          BY <1>b, <2>1, <2>3, <3>2
        <4>2. QED  BY <2>2, <2>3, <4>1, RowsLeftAlone DEF rows, ContentKept
      <3>3. QED  BY <3>1, <3>2
    <2> HIDE DEF s
    <2>4. QED  BY <2>2, <2>3, FinishLeft, TransactionOverlap
  <1>10. QED
    BY <1>1, <1>2, <1>3, <1>4, <1>5, <1>6, <1>7, <1>8, <1>9 DEF UploadStep

LEMMA RemovalOverlap ==
    ASSUME OverlapInv, NEW r \in Requests, RemovalStep(r)
    PROVE  Changed(r) /\ Left(r)
  <1>a. TypeOK /\ UploadView(r) /\ UndeletedView(r) /\ SampleInHand(r)
    BY DEF OverlapInv, IInv, UploadView
  <1>b. status \in [Keys -> RowStatus] /\ enrollment \notin {"deletion_pending", "deleted"}
    BY <1>a DEF TypeOK, OverlapInv
  <1>c. ~(\/ ListLive(r) \/ RequestDeletion(r) \/ DiscardPending(r) \/ MarkDeletionPending(r)
          \/ Recheck(r) \/ Finalize(r))
    BY <1>a DEF UndeletedView, DeletionPoints, ListLive, RequestDeletion, DiscardPending,
                MarkDeletionPending, Recheck, Finalize
  <1>d. SampleDone(r) => Left(r)
    BY <1>a, FinishLeft DEF UndeletedView, SampleDone
  <1>1. CASE DropRow(r)
    <2> DEFINE s == [status EXCEPT ![req[r].sample] = "absent"]
    <2>1. PICK k \in Keys : k = req[r].sample
      BY <1>a, <1>1 DEF DropRow, SampleInHand
    <2>2. /\ content' = content /\ req[r].pc = "drop_row"
          /\ Transaction(r, TRUE, s, enrollment, SampleDone(r))
      BY <1>1 DEF DropRow
    <2>3. /\ status[k] \in {"absent", "pending"} /\ \A q \in Requests \ {r} : ~Holds(q, k)
      <3>1. Uploading(r, k)
        BY <1>a, <2>1, <2>2 DEF Uploading, UndeletedView
      <3>2. QED  BY <3>1, RowsInHand DEF OverlapInv, UploadView, Holds
    <2>4. ASSUME status' = s, enrollment' = enrollment PROVE Changed(r)
      <3>1. CASE status[k] = "pending"
        <4>1. RowDropped(k)
          BY <2>1, <2>4, <3>1 DEF RowDropped
        <4>2. QED  BY <1>b, <2>1, <2>2, <2>3, <2>4, <4>1, RowChanged DEF RowsChange
      <3>2. CASE status[k] = "absent"
        <4>1. status' = status
          BY <1>b, <2>1, <2>4, <3>2
        <4>2. QED  BY <2>2, <2>4, <4>1, RowsLeftAlone DEF rows, ContentKept
      <3>3. QED  BY <2>3, <3>1, <3>2
    <2> HIDE DEF s
    <2>5. QED  BY <1>d, <2>2, <2>4, TransactionOverlap
  <1>2. CASE Quarantine(r) \/ Purge(r)
    <2>1. /\ UNCHANGED rows /\ UNCHANGED content
          /\ \/ req[r].pc = "quarantine" /\ Goto(r, "mark_quarantined")
             \/ req[r].pc = "purge" /\ Goto(r, "mark_deleted")
      BY <1>2 DEF Quarantine, Purge
    <2>2. Changed(r)
      BY <2>1, RowsLeftAlone DEF ContentKept
    <2>3. QED  BY <1>a, <2>1, <2>2, RetirementLeft DEF UndeletedView, RetiringPoints, rows
  <1>3. CASE MarkQuarantined(r)
    <2> DEFINE s == [status EXCEPT ![req[r].sample] = "quarantined"]
               ok == Updates({req[r].sample}, s)
    <2>1. PICK k \in Keys : k = req[r].sample
      BY <1>a, <1>3 DEF MarkQuarantined, SampleInHand, RemovalPoints
    <2>2. /\ content' = content /\ req[r].pc = "mark_quarantined"
          /\ Transaction(r, ok, s, enrollment, Goto(r, "purge"))
      BY <1>3 DEF MarkQuarantined
    <2>3. status[k] = "replacement_pending" /\ \A q \in Requests \ {r} : ~Holds(q, k)
      <3>1. Retiring(r, k)
        BY <2>1, <2>2 DEF Retiring, RetiringPoints
      <3>2. QED
        BY <1>a, <2>1, <2>2, <3>1, RowsInHand DEF OverlapInv, UploadView, UndeletedView, Holds
    <2>4. ASSUME status' = s, enrollment' = enrollment PROVE Changed(r) /\ status'[k] = "quarantined"
      <3>1. Retired(k, "quarantined") /\ "quarantined" \in SampleStatus
        BY <2>1, <2>3, <2>4 DEF Retired, Rank, SampleStatus
      <3>2. status'[k] = "quarantined"
        BY <1>b, <2>1, <2>4
      <3>3. QED  BY <1>b, <2>1, <2>2, <2>3, <2>4, <3>1, <3>2, RowChanged DEF RowsChange
    <2> HIDE DEF s, ok
    <2>5. ASSUME status' = s, enrollment' = enrollment, Goto(r, "purge") PROVE Left(r)
      BY <2>1, <2>2, <2>4, <2>5, RetirementLeft DEF RetiringPoints
    <2>6. QED  BY <2>2, <2>4, <2>5, TransactionOverlap
  <1>4. CASE MarkDeleted(r)
    <2> DEFINE s == [status EXCEPT ![req[r].sample] = "deleted"]
               ok == Updates({req[r].sample}, s)
    <2>1. PICK k \in Keys : k = req[r].sample
      BY <1>a, <1>4 DEF MarkDeleted, SampleInHand, RemovalPoints
    <2>2. /\ content' = content /\ req[r].pc = "mark_deleted"
          /\ Transaction(r, ok, s, enrollment, SampleDone(r))
      BY <1>4 DEF MarkDeleted
    <2>3. status[k] = "quarantined" /\ \A q \in Requests \ {r} : ~Holds(q, k)
      <3>1. Retiring(r, k)
        BY <2>1, <2>2 DEF Retiring, RetiringPoints
      <3>2. QED
        BY <1>a, <2>1, <2>2, <3>1, RowsInHand DEF OverlapInv, UploadView, UndeletedView, Holds
    <2>4. ASSUME status' = s, enrollment' = enrollment PROVE Changed(r)
      <3>1. Retired(k, "deleted") /\ "deleted" \in SampleStatus
        BY <2>1, <2>3, <2>4 DEF Retired, Rank, SampleStatus
      <3>2. QED  BY <1>b, <2>1, <2>2, <2>3, <2>4, <3>1, RowChanged DEF RowsChange
    <2> HIDE DEF s, ok
    <2>5. QED  BY <1>d, <2>2, <2>4, TransactionOverlap
  <1>5. QED  BY <1>c, <1>1, <1>2, <1>3, <1>4 DEF RemovalStep

LEMMA StartOverlap ==
    ASSUME "delete" \notin Operations, OverlapInv, NEW r \in Requests, Start(r)
    PROVE  Changed(r) /\ Left(r)
  <1>1. /\ UNCHANGED rows /\ UNCHANGED content
        /\ \/ StartCreate(r)
           \/ StartReplace(r)
    BY DEF Start, StartCreate, StartReplace, StartDelete
  <1>2. Changed(r)
    BY <1>1, RowsLeftAlone DEF ContentKept
  <1>3. /\ \A q \in Requests \ {r} : req'[q] = req[q]
        /\ req'[r].op \in {"create", "replace"} /\ req'[r].seen = enrollment
        /\ req'[r].pc \in {"insert_enrollment", "read_active"}
        /\ req'[r].pc = "read_active" => enrollment # "absent"
    <2>1. req \in [Requests -> Request]
      BY DEF OverlapInv, IInv, TypeOK
    <2>2. CASE StartCreate(r)
      BY <2>1, <2>2 DEF StartCreate, Idle
    <2>3. CASE StartReplace(r)
      BY <2>1, <2>3 DEF StartReplace, Idle
    <2>4. QED  BY <1>1, <2>2, <2>3
  <1>4. Left(r)
    BY <1>1, <1>3
       DEF Left, UploadView, UndeletedView, Retiring, RetiringPoints, DeletionPoints,
           UnderwayPoints, ReplacingPoints, rows
  <1>5. QED  BY <1>2, <1>4

LEMMA FailureOverlap ==
    ASSUME OverlapInv, NEW r \in Requests, Failure(r)
    PROVE  Changed(r) /\ Left(r)
  <1>1. UNCHANGED rows /\ UNCHANGED content /\ (OnError(r) \/ Finish(r))
    BY DEF Failure, DatabaseError, FileError, Crash
  <1>2. Changed(r)
    BY <1>1, RowsLeftAlone DEF ContentKept
  <1>3. QED  BY <1>1, <1>2, ErrorLeft, FinishLeft

LEMMA OverlapInit == Init => OverlapInv
  BY IInvInit, NoneAssumption
     DEF Init, Idle, Nothing, OverlapInv, UploadView, UndeletedView, RetirementsExclusive, Retiring,
         RowsAndEnrollmentAgree, OneActive, NoneActive, RetiringPoints, DeletionPoints,
         ReplacingPoints, UnderwayPoints

LEMMA OverlapStep ==
    ASSUME "delete" \notin Operations, OverlapInv, [Next]_vars
    PROVE  OverlapInv' /\ RowsChange /\ ContentKept
  <1>1. IInv'
    BY IInvStep DEF OverlapInv
  <1>2. ASSUME NEW r \in Requests, Start(r) \/ UploadStep(r) \/ RemovalStep(r) \/ Failure(r)
        PROVE  OverlapInv' /\ RowsChange /\ ContentKept
    <2>1. Changed(r) /\ Left(r)
      BY <1>2, StartOverlap, UploadOverlap, RemovalOverlap, FailureOverlap
    <2>2. QED  BY <1>1, <2>1, OverlapKeeps DEF Changed
  <1>3. CASE UNCHANGED vars
    BY <1>1, <1>3
       DEF vars, OverlapInv, UploadView, UndeletedView, RetirementsExclusive, Retiring,
           RowsAndEnrollmentAgree, OneActive, NoneActive, RowsChange, ContentKept
  <1>4. QED  BY <1>2, <1>3 DEF Next

\* However uploads overlap, fail, die or are lost, as long as nobody deletes: no
\* sample moves back along its lifecycle ...
THEOREM OverlappingUploadsMoveForward ==
    ASSUME "delete" \notin Operations
    PROVE  Spec => LifecycleForward
  <1>1. OverlapInv /\ [Next]_vars => OverlapInv'
    BY OverlapStep
  <1>2. OverlapInv /\ [Next]_vars =>
           [\A k \in Keys : \/ Rank(status[k]) <= Rank(status'[k])
                            \/ status[k] = "pending" /\ status'[k] = "absent"]_vars
    BY OverlapStep, ChangeGoesForward DEF Forward, OverlapInv, IInv
  <1>3. QED  BY OverlapInit, <1>1, <1>2, PTL DEF Spec, LifecycleForward

\* ... and every step is one step of EnrollmentRegister, or none: of uploads that
\* race each other, one at a time puts its image in force, and one image always
\* stays there.
THEOREM OverlappingUploadsImplementRegister ==
    ASSUME "delete" \notin Operations
    PROVE  Spec => ImplementsRegister
  <1>1. OverlapInv /\ [Next]_vars => OverlapInv'
    BY OverlapStep
  <1>2. OverlapInv /\ [Next]_vars => [Register!Next]_(Register!register)
    BY OverlapStep, ChangeImplements DEF OverlapInv, IInv
  <1>3. Init => Register!Init
    BY DEF Init, Nothing, CurrentImage, Register!Init
  <1>4. QED
    BY OverlapInit, <1>1, <1>2, <1>3, PTL DEF Spec, ImplementsRegister, Register!Spec

(***************************************************************************)
(* What overlapping uploads leave behind, while no acknowledgement is lost *)
(* and no file operation fails.                                            *)
(***************************************************************************)

RowsIndexed ==
    /\ OneActive(status) /\ UniqueContent(status)
    /\ \A k \in Keys : status[k] # "absent" => content[k] # None

UInv ==
    /\ IInv
    /\ \A r \in Requests : UndeletedView(r)
    /\ RetirementsExclusive
    /\ RowsIndexed

\* The one zone that has a file of k.
OnlyStaged(k)      == k \in staging /\ k \notin active \cup quarantine
OnlyActive(k)      == k \in active /\ k \notin staging \cup quarantine
OnlyQuarantined(k) == k \in quarantine /\ k \notin staging \cup active

\* How far the sample in hand is, while nothing has failed.
Tidy(r) ==
    LET k == req[r].sample
    IN  /\ req[r].pc \in {"validate", "insert_row"} => status[k] = "absent" /\ OnlyStaged(k)
        /\ req[r].pc = "promote" => status[k] = "pending" /\ OnlyStaged(k)
        /\ req[r].pc \in {"activate", "undo_quarantine"} => status[k] = "pending" /\ OnlyActive(k)
        /\ req[r].pc = "undo_purge" => status[k] = "pending" /\ OnlyQuarantined(k)
        /\ req[r].pc = "undo_row" => status[k] = "pending" /\ ~OnDisk(k)
        /\ req[r].pc = "quarantine" => OnlyActive(k)
        /\ req[r].pc \in {"mark_quarantined", "purge"} => OnlyQuarantined(k)
        /\ req[r].pc = "mark_deleted" => ~OnDisk(k)
        /\ req[r].pc # "drop_row"

\* While nothing has failed, what is not settled is in somebody's hands.
NothingLost ==
    /\ \A r \in Requests : Tidy(r)
    /\ \A k \in Keys : Settled(k) \/ \E r \in Requests : Holds(r, k)

(***************************************************************************)
(* What a step of r does to the rows the others rely on ...                *)
(***************************************************************************)
Steady(r) ==
    /\ \A q \in Requests \ {r} :
          req'[q] = req[q] /\ \A k \in Keys : Holds(q, k) => status'[k] = status[k]
    /\ NoneActive' => NoneActive
    /\ UndeletedView(r)'
    /\ \A k \in Keys : Retiring(r, k)' => Retiring(r, k) \/ status[k] = "active"
    /\ RowsIndexed'

SameFile(k) ==
    /\ k \in staging' <=> k \in staging
    /\ k \in active' <=> k \in active
    /\ k \in quarantine' <=> k \in quarantine

\* ... and to the files, as long as nothing fails.
Careful(r) ==
    /\ \A q \in Requests \ {r}, k \in Keys : Holds(q, k) => SameFile(k)
    /\ Tidy(r)'
    /\ \A k \in Keys : Settled(k) \/ Holds(r, k) => Settled(k)' \/ Holds(r, k)'

Orderly(r) == Steady(r) /\ (NothingLost /\ "io" \notin Faults => Careful(r))

LEMMA HeldRows ==
    ASSUME UInv, NEW r \in Requests, NEW k \in Keys, Holds(r, k)
    PROVE  /\ content[k] # None
           /\ Uploading(r, k) => status[k] \in {"absent", "pending"}
           /\ Retiring(r, k) => status[k] \in {"replacement_pending", "quarantined"}
           /\ status[k] # "active"
           /\ \A q \in Requests : Holds(q, k) => q = r
  BY RowsInHand DEF UInv

LEMMA SteadyKeeps ==
    ASSUME UInv, IInv', NEW r \in Requests, Steady(r)
    PROVE  UInv'
  <1>1. ASSUME NEW q \in Requests, q # r PROVE UndeletedView(q)'
    <2>1. req'[q] = req[q] /\ UndeletedView(q) /\ (NoneActive' => NoneActive)
      BY <1>1 DEF Steady, UInv
    <2>2. CASE req[q].pc \in RetiringPoints
      <3>1. PICK k \in Keys : k = req[q].sample
        BY <2>2 DEF UInv, IInv, SampleInHand, RetiringPoints, RemovalPoints
      <3>2. status'[k] = status[k]
        BY <1>1, <2>2, <3>1 DEF Steady, Holds, Retiring
      <3>3. QED  BY <2>1, <3>1, <3>2 DEF UndeletedView
    <2>3. CASE req[q].pc \notin RetiringPoints
      BY <2>1, <2>3 DEF UndeletedView, RetiringPoints
    <2>4. QED  BY <2>2, <2>3
  <1>2. ASSUME NEW q \in Requests, NEW k \in Keys, q # r, Retiring(q, k)', Retiring(r, k)'
        PROVE  FALSE
    <2>1. Retiring(q, k)
      BY <1>2 DEF Steady, Retiring
    <2>2. status[k] # "active"
      BY <2>1, HeldRows DEF Holds
    <2>3. Retiring(r, k)
      BY <1>2, <2>2 DEF Steady
    <2>4. QED  BY <1>2, <2>1, <2>3 DEF UInv, RetirementsExclusive
  <1>3. RetirementsExclusive'
    <2>1. ASSUME NEW p \in Requests, NEW q \in Requests, NEW k \in Keys,
                 Retiring(p, k)', Retiring(q, k)'
          PROVE  p = q
      <3>1. CASE p = r \/ q = r
        BY <1>2, <2>1, <3>1
      <3>2. CASE p # r /\ q # r
        BY <2>1, <3>2 DEF Steady, Retiring, UInv, RetirementsExclusive
      <3>3. QED  BY <3>1, <3>2
    <2>2. QED  BY <2>1 DEF RetirementsExclusive
  <1>4. QED  BY <1>1, <1>3 DEF UInv, Steady

LEMMA CarefulKeeps ==
    ASSUME "lost_ack" \notin Faults, UInv, NothingLost, NEW r \in Requests, Steady(r), Careful(r)
    PROVE  NothingLost'
  <1>1. ASSUME NEW q \in Requests, q # r PROVE Tidy(q)'
    <2>1. req'[q] = req[q] /\ Tidy(q)
      BY <1>1 DEF Steady, NothingLost
    <2>2. CASE req[q].pc \in UploadingPoints \cup RetiringPoints
      <3>1. PICK k \in Keys : k = req[q].sample
        BY <2>2 DEF UInv, IInv, SampleInHand, RetiringPoints, RemovalPoints
      <3>2. Holds(q, k)
        BY <2>2, <3>1 DEF Holds, Uploading, Retiring
      <3>3. SameFile(k) /\ status'[k] = status[k]
        BY <1>1, <3>2 DEF Steady, Careful
      <3>4. QED
        BY <2>1, <3>1, <3>3
           DEF Tidy, SameFile, OnlyStaged, OnlyActive, OnlyQuarantined, OnDisk
    <2>3. CASE req[q].pc \notin UploadingPoints \cup RetiringPoints
      BY <2>1, <2>3 DEF Tidy, UploadingPoints, RetiringPoints
    <2>4. QED  BY <2>2, <2>3
  <1>2. ASSUME NEW k \in Keys PROVE Settled(k)' \/ \E q \in Requests : Holds(q, k)'
    <2>1. CASE Settled(k) \/ Holds(r, k)
      BY <2>1 DEF Careful
    <2>2. ASSUME NEW q \in Requests, q # r, Holds(q, k)
          PROVE  Holds(q, k)'
      BY <2>2 DEF Steady, Holds, Uploading, Retiring
    <2>3. QED  BY <2>1, <2>2 DEF NothingLost
  <1>3. QED  BY <1>1, <1>2 DEF Careful, NothingLost

(***************************************************************************)
(* Steps that leave the rows alone, steps that change the row in hand.     *)
(***************************************************************************)
LEMMA SteadyStill ==
    ASSUME UInv, NEW r \in Requests, UNCHANGED <<status, content>>,
           \A q \in Requests \ {r} : req'[q] = req[q],
           \A k \in Keys : Retiring(r, k)' => Retiring(r, k),
           UndeletedView(r)'
    PROVE  Steady(r)
  <1>1. RowsIndexed'
    BY DEF UInv, RowsIndexed, OneActive, UniqueContent, Live
  <1>2. QED  BY <1>1 DEF Steady, NoneActive

LEMMA SteadyRow ==
    ASSUME UInv, NEW r \in Requests, NEW k \in Keys, Holds(r, k), NEW x \in RowStatus,
           status' = [status EXCEPT ![k] = x], content' = content,
           \A q \in Requests \ {r} : req'[q] = req[q],
           \A j \in Keys : Retiring(r, j)' => Retiring(r, j),
           UndeletedView(r)',
           OneActive(status)', UniqueContent(status)'
    PROVE  Steady(r)
  <1>a. status \in [Keys -> RowStatus]
    BY DEF UInv, IInv, TypeOK
  <1>b. \A j \in Keys : status'[j] = IF j = k THEN x ELSE status[j]
    BY <1>a
  <1>1. /\ content[k] # None /\ status[k] # "active"
        /\ \A q \in Requests : Holds(q, k) => q = r
    BY HeldRows
  <1>2. \A q \in Requests \ {r}, j \in Keys : Holds(q, j) => status'[j] = status[j]
    BY <1>b, <1>1
  <1>3. NoneActive' => NoneActive
    BY <1>b, <1>1 DEF NoneActive
  <1>4. RowsIndexed'
    BY <1>b, <1>1 DEF UInv, RowsIndexed
  <1>5. QED  BY <1>2, <1>3, <1>4 DEF Steady

\* A row that leaves the indexes, or stays in them as what it was, breaks none.
LEMMA IndexesKept ==
    ASSUME UInv, NEW k \in Keys, NEW x \in RowStatus, x # "active",
           Live(status, k) \/ x \in {"absent", "deleted"}
    PROVE  /\ OneActive([status EXCEPT ![k] = x])
           /\ UniqueContent([status EXCEPT ![k] = x])
  <1> DEFINE s == [status EXCEPT ![k] = x]
  <1>1. \A j \in Keys : s[j] = IF j = k THEN x ELSE status[j]
    BY DEF UInv, IInv, TypeOK
  <1> HIDE DEF s
  <1>2. OneActive(s)
    BY <1>1 DEF UInv, RowsIndexed, OneActive
  <1>3. \A j \in Keys : Live(s, j) => Live(status, j)
    BY <1>1 DEF Live
  <1>4. UniqueContent(s)
    BY <1>3 DEF UInv, RowsIndexed, UniqueContent
  <1>5. QED  BY <1>2, <1>4 DEF s

\* A step that touches the files of nothing, or of the one sample in hand.
LEMMA CarefulNone ==
    ASSUME UNCHANGED <<status, staging, active, quarantine>>, NEW r \in Requests,
           \A k \in Keys : ~Holds(r, k), Tidy(r)'
    PROVE  Careful(r)
  BY DEF Careful, SameFile, Settled, OnDisk

LEMMA CarefulAt ==
    ASSUME NEW r \in Requests, NEW k \in Keys, Tidy(r)',
           \A q \in Requests \ {r} : ~Holds(q, k),
           \A j \in Keys \ {k} : SameFile(j) /\ status'[j] = status[j] /\ ~Holds(r, j),
           Settled(k)' \/ Holds(r, k)'
    PROVE  Careful(r)
  <1>1. ASSUME NEW j \in Keys, j # k, Settled(j) PROVE Settled(j)'
    BY <1>1 DEF SameFile, Settled, OnDisk
  <1>2. QED  BY <1>1 DEF Careful

LEMMA FinishView ==
    ASSUME UInv, NEW r \in Requests, Finish(r)
    PROVE  /\ \A q \in Requests \ {r} : req'[q] = req[q]
           /\ \A k \in Keys : ~Holds(r, k)' /\ ~Retiring(r, k)'
           /\ UndeletedView(r)' /\ Tidy(r)'
  <1>1. req'[r] = Idle /\ \A q \in Requests \ {r} : req'[q] = req[q]
    BY DEF UInv, IInv, TypeOK, Finish
  <1>2. QED
    BY <1>1 DEF Idle, UndeletedView, Tidy, Holds, Uploading, Retiring, UploadingPoints,
                RetiringPoints, DeletionPoints, ReplacingPoints

\* The request holds nothing before and nothing after.
LEMMA OrderlyNone ==
    ASSUME UInv, NEW r \in Requests, UNCHANGED <<status, staging, active, quarantine, content>>,
           \A q \in Requests \ {r} : req'[q] = req[q],
           req[r].pc \in {"idle", "insert_enrollment", "read_active", "stage"},
           req'[r].pc \in {"idle", "insert_enrollment", "read_active", "stage"},
           req'[r].op # "delete",
           req'[r].pc = "stage" /\ req'[r].op = "replace" => ~NoneActive
    PROVE  Orderly(r)
  <1>1. \A k \in Keys : ~Holds(r, k) /\ ~Retiring(r, k)'
    BY DEF Holds, Uploading, Retiring, UploadingPoints, RetiringPoints
  <1>2. UndeletedView(r)' /\ Tidy(r)'
    BY DEF UndeletedView, Tidy, DeletionPoints, ReplacingPoints, NoneActive
  <1>3. QED  BY <1>1, <1>2, SteadyStill, CarefulNone DEF Orderly

LEMMA CarefulRow ==
    ASSUME UInv, NEW r \in Requests, NEW k \in Keys, Holds(r, k), Tidy(r)',
           \A j \in Keys \ {k} : SameFile(j) /\ status'[j] = status[j],
           Settled(k)' \/ Holds(r, k)'
    PROVE  Careful(r)
  <1>1. \A q \in Requests \ {r} : ~Holds(q, k)
    BY HeldRows
  <1>2. \A j \in Keys \ {k} : ~Holds(r, j)
    BY DEF Holds, Uploading, Retiring
  <1>3. QED  BY <1>1, <1>2, CarefulAt

\* The request goes on with the sample in hand.
LEMMA GotoView ==
    ASSUME UInv, NEW r \in Requests, NEW k, k = req[r].sample, NEW pc, Goto(r, pc),
           pc \in UploadingPoints \cup RetiringPoints \cup {"drop_row"}
    PROVE  /\ \A q \in Requests \ {r} : req'[q] = req[q]
           /\ req'[r].pc = pc /\ req'[r].op = req[r].op /\ req'[r].sample = k
           /\ Holds(r, k)'
           /\ pc \in UploadingPoints \cup {"drop_row"} => \A j \in Keys : ~Retiring(r, j)'
  <1>1. /\ \A q \in Requests \ {r} : req'[q] = req[q]
        /\ req'[r].pc = pc /\ req'[r].op = req[r].op /\ req'[r].sample = k
    BY GotoShape DEF UInv, IInv
  <1>2. req[r].op # "delete"
    BY DEF UInv, UndeletedView
  <1>3. QED
    BY <1>1, <1>2 DEF Holds, Uploading, Retiring, UploadingPoints, RetiringPoints

LEMMA ErrorSteady ==
    ASSUME "lost_ack" \notin Faults, UInv, NEW r \in Requests, OnError(r), UNCHANGED <<status, content>>
    PROVE  Steady(r)
  <1>1. CASE Finish(r)
    BY <1>1, FinishView, SteadyStill
  <1>2. ASSUME NEW pc \in {"drop_row", "undo_quarantine"}, Goto(r, pc)
        PROVE  Steady(r)
    <2>1. /\ \A q \in Requests \ {r} : req'[q] = req[q]
          /\ req'[r].pc = pc /\ req'[r].op = req[r].op
          /\ \A j \in Keys : ~Retiring(r, j)'
      BY <1>2, GotoView DEF UploadingPoints
    <2>2. UndeletedView(r)'
      BY <2>1 DEF UInv, UndeletedView, DeletionPoints, ReplacingPoints
    <2>3. QED  BY <2>1, <2>2, SteadyStill
  <1>3. QED  BY <1>1, <1>2 DEF OnError

LEMMA ErrorOrderly ==
    ASSUME "lost_ack" \notin Faults, UInv, NEW r \in Requests, OnError(r), UNCHANGED <<status, content>>,
           req[r].pc \in {"insert_enrollment", "insert_row", "promote", "activate"},
           req[r].pc = "promote" => req[r].sample \notin staging
    PROVE  Orderly(r)
  <1>1. CASE req[r].pc = "insert_enrollment"
    <2>1. Finish(r) /\ UNCHANGED files
      BY <1>1 DEF OnError
    <2>2. req'[r] = Idle /\ \A q \in Requests \ {r} : req'[q] = req[q]
      BY <2>1 DEF UInv, IInv, TypeOK, Finish
    <2>3. QED  BY <1>1, <2>1, <2>2, OrderlyNone DEF Idle, files
  <1>2. CASE req[r].pc \in {"insert_row", "promote", "activate"}
    <2>1. Steady(r)
      BY ErrorSteady
    <2>2. PICK k \in Keys : k = req[r].sample
      BY <1>2 DEF UInv, IInv, SampleInHand, UploadingPoints
    <2>3. Holds(r, k)
      BY <1>2, <2>2 DEF Holds, Uploading, UploadingPoints
    <2>4. ASSUME NothingLost, "io" \notin Faults
          PROVE  Careful(r)
      <3>1. Tidy(r)
        BY <2>4 DEF NothingLost
      <3>2. CASE req[r].pc = "insert_row"
        <4>1. Finish(r) /\ staging' = staging \ {k} /\ UNCHANGED <<active, quarantine>>
          BY <2>2, <2>4, <3>2 DEF OnError, DiscardStaged
        <4>2. Settled(k)'
          BY <2>2, <3>1, <3>2, <4>1 DEF Tidy, OnlyStaged, Settled, OnDisk
        <4>3. \A j \in Keys \ {k} : SameFile(j)
          BY <4>1 DEF SameFile
        <4>4. QED  BY <2>3, <4>1, <4>2, <4>3, FinishView, CarefulRow
      <3>3. CASE req[r].pc = "activate"
        <4>1. Goto(r, "undo_quarantine") /\ UNCHANGED files
          BY <3>3 DEF OnError
        <4>2. req'[r].pc = "undo_quarantine" /\ req'[r].sample = k /\ Holds(r, k)'
          BY <2>2, <4>1, GotoView DEF UploadingPoints
        <4>3. Tidy(r)'
          BY <2>2, <3>1, <3>3, <4>1, <4>2 DEF Tidy, OnlyActive, files
        <4>4. \A j \in Keys \ {k} : SameFile(j)
          BY <4>1 DEF SameFile, files
        <4>5. QED  BY <2>3, <4>2, <4>3, <4>4, CarefulRow
      <3>4. CASE req[r].pc = "promote"
        BY <3>1, <3>4 DEF Tidy, OnlyStaged
      <3>5. QED  BY <1>2, <3>2, <3>3, <3>4
    <2>5. QED  BY <2>1, <2>4 DEF Orderly
  <1>3. QED  BY <1>1, <1>2

LEMMA TransactionOrderly ==
    ASSUME "lost_ack" \notin Faults, UInv, NEW r \in Requests,
           NEW STATE allowed, NEW ACTION then, NEW STATE s, NEW STATE e,
           Transaction(r, allowed, s, e, then), content' = content,
           allowed \/ req[r].pc \in {"insert_enrollment", "insert_row", "activate"},
           allowed /\ status' = s /\ then /\ UNCHANGED files => Orderly(r)
    PROVE  Orderly(r)
  BY ErrorOrderly DEF Transaction, rows

\* The last step of a compensation.
DroppedRow(r, k) ==
    /\ Uploading(r, k) /\ Holds(r, k) /\ status[k] \in {"absent", "pending"}
    /\ status' = [status EXCEPT ![k] = "absent"] /\ content' = content
    /\ Finish(r)

LEMMA DropOrderly ==
    ASSUME UInv, NEW r \in Requests, NEW k \in Keys, DroppedRow(r, k), UNCHANGED files,
           NothingLost => ~OnDisk(k)
    PROVE  Orderly(r)
  <1>a. status \in [Keys -> RowStatus] /\ "absent" \in RowStatus
    BY DEF UInv, IInv, TypeOK, RowStatus
  <1>1. /\ \A q \in Requests \ {r} : req'[q] = req[q]
        /\ \A j \in Keys : ~Retiring(r, j)'
        /\ UndeletedView(r)' /\ Tidy(r)'
    BY FinishView DEF DroppedRow
  <1>2. status'[k] = "absent" /\ \A j \in Keys \ {k} : status'[j] = status[j]
    BY <1>a DEF DroppedRow
  <1>3. OneActive(status)' /\ UniqueContent(status)'
    BY <1>a, <1>2 DEF UInv, RowsIndexed, OneActive, UniqueContent, Live, DroppedRow
  <1>4. Steady(r)
    BY <1>a, <1>1, <1>3, SteadyRow DEF DroppedRow
  <1>5. ASSUME NothingLost PROVE Careful(r)
    <2>1. Settled(k)'
      BY <1>2, <1>5 DEF Settled, OnDisk, files
    <2>2. QED  BY <1>1, <1>2, <2>1, CarefulRow DEF DroppedRow, SameFile, files
  <1>6. QED  BY <1>4, <1>5 DEF Orderly

LEMMA UploadStepOrderly ==
    ASSUME "lost_ack" \notin Faults, UInv, NEW r \in Requests, UploadStep(r)
    PROVE  Orderly(r)
  <1>a. /\ TypeOK /\ UndeletedView(r) /\ RowsIndexed /\ SampleInHand(r) /\ SnapshotsBounded(r)
        /\ req \in [Requests -> Request] /\ req[r] \in Request
        /\ status \in [Keys -> RowStatus]
    BY DEF UInv, IInv, TypeOK
  <1>b. req[r].pc \in UploadingPoints =>
           /\ req[r].sample \in Keys /\ Holds(r, req[r].sample) /\ Uploading(r, req[r].sample)
    BY <1>a DEF SampleInHand, Holds, Uploading
  <1>c. ASSUME Finish(r)
        PROVE  req'[r] = Idle /\ \A q \in Requests \ {r} : req'[q] = req[q]
    BY <1>a, <1>c DEF Finish
  <1>d. {"absent", "pending", "active", "replacement_pending"} \subseteq RowStatus
    BY DEF RowStatus, SampleStatus
  <1>1. CASE InsertEnrollment(r)
    <2> DEFINE then == req' = [req EXCEPT ![r] = [@ EXCEPT !.pc = "read_active", !.seen = "pending"]]
    <2>1. ASSUME status' = status, then, UNCHANGED files
          PROVE  Orderly(r)
      <3>1. /\ req'[r].pc = "read_active" /\ req'[r].op = req[r].op
            /\ \A q \in Requests \ {r} : req'[q] = req[q]
        BY <1>a, <2>1 DEF Request
      <3>2. QED
        BY <1>a, <1>1, <2>1, <3>1, OrderlyNone DEF InsertEnrollment, files, UndeletedView
    <2>2. /\ Transaction(r, enrollment = "absent", status, "pending", then)
          /\ content' = content /\ req[r].pc = "insert_enrollment"
      BY <1>1 DEF InsertEnrollment
    <2> HIDE DEF then
    <2>3. QED  BY <2>1, <2>2, TransactionOrderly
  <1>2. CASE ReadActive(r)
    <2>1. /\ UNCHANGED <<status, staging, active, quarantine, content>>
          /\ req[r].pc = "read_active" /\ req[r].op # "delete"
      BY <1>a, <1>2 DEF ReadActive, rows, files, UndeletedView
    <2>2. CASE req[r].op = "create" /\ Goto(r, "stage")
      BY <1>a, <2>1, <2>2, GotoShape, OrderlyNone
    <2>3. ASSUME NEW o \in Keys, status[o] = "active",
                 req' = [req EXCEPT ![r] = [@ EXCEPT !.old = o, !.pc = "stage"]]
          PROVE  Orderly(r)
      <3>1. /\ req'[r].pc = "stage" /\ req'[r].op = req[r].op
            /\ \A q \in Requests \ {r} : req'[q] = req[q]
        BY <1>a, <2>3 DEF Request
      <3>2. ~NoneActive
        BY <2>3 DEF NoneActive
      <3>3. QED  BY <2>1, <3>1, <3>2, OrderlyNone
    <2>4. CASE Finish(r)
      BY <1>c, <2>1, <2>4, OrderlyNone DEF Idle
    <2>5. QED  BY <1>2, <2>2, <2>3, <2>4 DEF ReadActive
  <1>3. CASE WriteStaged(r)
    <2>1. PICK k \in Keys, c \in Contents :
             /\ content[k] = None
             /\ content' = [content EXCEPT ![k] = c]
             /\ staging' = staging \cup {k}
             /\ req' = [req EXCEPT ![r] = [@ EXCEPT !.sample = k, !.pc = "validate"]]
      BY <1>3 DEF WriteStaged
    <2>2. /\ req'[r].pc = "validate" /\ req'[r].op = req[r].op /\ req'[r].sample = k
          /\ \A q \in Requests \ {r} : req'[q] = req[q]
      BY <1>a, <2>1 DEF Request
    <2>3. UNCHANGED <<status, active, quarantine>> /\ req[r].pc = "stage"
      BY <1>3 DEF WriteStaged, rows
    <2>4. status[k] = "absent"
      BY <1>a, <2>1 DEF RowsIndexed
    <2>5. /\ content \in [Keys -> Contents \cup {None}]
          /\ \A j \in Keys : content'[j] = IF j = k THEN c ELSE content[j]
      BY <1>a, <2>1 DEF TypeOK
    <2>6. RowsIndexed'
      BY <1>a, <2>3, <2>4, <2>5 DEF RowsIndexed, OneActive, UniqueContent, Live
    <2>7. UndeletedView(r)'
      BY <1>a, <2>2, <2>3 DEF UndeletedView, DeletionPoints, ReplacingPoints, NoneActive
    <2>8. Steady(r)
      <3>1. \A j \in Keys : ~Retiring(r, j)'
        BY <2>2 DEF Retiring, RetiringPoints
      <3>2. QED  BY <2>2, <2>3, <2>6, <2>7, <3>1 DEF Steady, NoneActive
    <2>9. ASSUME NothingLost PROVE Careful(r)
      <3>1. \A q \in Requests : ~Holds(q, k)
        BY <2>1, HeldRows
      <3>2. Settled(k)
        BY <2>9, <3>1 DEF NothingLost
      <3>3. OnlyStaged(k)'
        BY <2>1, <2>3, <2>4, <3>2 DEF OnlyStaged, Settled, OnDisk
      <3>4. Tidy(r)'
        BY <2>2, <2>3, <2>4, <3>3 DEF Tidy
      <3>5. Holds(r, k)'
        BY <2>2 DEF Holds, Uploading, UploadingPoints
      <3>6. \A j \in Keys \ {k} : SameFile(j) /\ status'[j] = status[j] /\ ~Holds(r, j)
        BY <2>1, <2>3
           DEF SameFile, Holds, Uploading, Retiring, UploadingPoints, RetiringPoints
      <3>7. QED  BY <3>1, <3>4, <3>5, <3>6, CarefulAt
    <2>10. QED  BY <2>8, <2>9 DEF Orderly
  <1>4. CASE AbortWrite(r)
    BY <1>c, <1>4, OrderlyNone DEF AbortWrite, rows, files, Idle
  <1>5. CASE Validate(r)
    <2>1. PICK k \in Keys : k = req[r].sample /\ Holds(r, k)
      BY <1>b, <1>5 DEF Validate, UploadingPoints
    <2>2. UNCHANGED <<status, content>> /\ req[r].pc = "validate"
      BY <1>5 DEF Validate, rows
    <2>3. CASE Goto(r, "insert_row") /\ UNCHANGED files
      <3>1. /\ \A q \in Requests \ {r} : req'[q] = req[q]
            /\ req'[r].pc = "insert_row" /\ req'[r].op = req[r].op /\ req'[r].sample = k
            /\ Holds(r, k)' /\ \A j \in Keys : ~Retiring(r, j)'
        BY <2>1, <2>3, GotoView DEF UploadingPoints
      <3>2. UndeletedView(r)'
        BY <1>a, <2>2, <3>1 DEF UndeletedView, DeletionPoints, ReplacingPoints, NoneActive
      <3>3. Steady(r)
        BY <2>2, <3>1, <3>2, SteadyStill
      <3>4. ASSUME NothingLost PROVE Careful(r)
        <4>1. Tidy(r)'
          BY <2>1, <2>2, <2>3, <3>1, <3>4 DEF NothingLost, Tidy, OnlyStaged, files
        <4>2. QED  BY <2>1, <2>2, <2>3, <3>1, <4>1, CarefulRow DEF SameFile, files
      <3>5. QED  BY <3>3, <3>4 DEF Orderly
    <2>4. CASE DiscardStaged(req[r].sample) /\ Finish(r)
      <3>1. Steady(r)
        BY <2>2, <2>4, FinishView, SteadyStill
      <3>2. ASSUME NothingLost, "io" \notin Faults PROVE Careful(r)
        <4>1. staging' = staging \ {k} /\ UNCHANGED <<active, quarantine>>
          BY <2>1, <2>4, <3>2 DEF DiscardStaged
        <4>2. Settled(k)'
          BY <2>1, <2>2, <3>2, <4>1 DEF NothingLost, Tidy, OnlyStaged, Settled, OnDisk
        <4>3. \A j \in Keys \ {k} : SameFile(j)
          BY <4>1 DEF SameFile
        <4>4. QED  BY <2>1, <2>2, <2>4, <4>2, <4>3, FinishView, CarefulRow
      <3>3. QED  BY <3>1, <3>2 DEF Orderly
    <2>5. QED  BY <1>5, <2>3, <2>4 DEF Validate
  <1>6. CASE InsertRow(r)
    <2> DEFINE s == [status EXCEPT ![req[r].sample] = "pending"]
               ok == UniqueContent(s)
    <2>1. PICK k \in Keys : k = req[r].sample /\ Holds(r, k) /\ Uploading(r, k)
      BY <1>b, <1>6 DEF InsertRow, UploadingPoints
    <2>2. req[r].pc = "insert_row" /\ content' = content
      BY <1>6 DEF InsertRow
    <2>3. ASSUME ok, status' = s, Goto(r, "promote"), UNCHANGED files
          PROVE  Orderly(r)
      <3>1. /\ \A q \in Requests \ {r} : req'[q] = req[q]
            /\ req'[r].pc = "promote" /\ req'[r].op = req[r].op /\ req'[r].sample = k
            /\ Holds(r, k)' /\ \A j \in Keys : ~Retiring(r, j)'
        BY <2>1, <2>3, GotoView DEF UploadingPoints
      <3>2. /\ status' = [status EXCEPT ![k] = "pending"]
            /\ \A j \in Keys : status'[j] = IF j = k THEN "pending" ELSE status[j]
        BY <1>a, <2>1, <2>3
      <3>3. status[k] \in {"absent", "pending"}
        BY <2>1, HeldRows
      <3>4. UndeletedView(r)'
        BY <1>a, <2>2, <3>1, <3>2, <3>3
           DEF UndeletedView, DeletionPoints, ReplacingPoints, NoneActive
      <3>5. OneActive(status)' /\ UniqueContent(status)'
        <4>1. OneActive(status)'
          BY <1>a, <3>2 DEF RowsIndexed, OneActive
        <4> HIDE DEF s
        <4>2. UniqueContent(status)'
          BY <2>2, <2>3 DEF UniqueContent, Live
        <4>3. QED  BY <4>1, <4>2
      <3>6. Steady(r)
        BY <1>d, <2>1, <2>2, <3>1, <3>2, <3>4, <3>5, SteadyRow
      <3>7. ASSUME NothingLost PROVE Careful(r)
        <4>1. Tidy(r)'
          BY <2>1, <2>2, <2>3, <3>1, <3>2, <3>7 DEF NothingLost, Tidy, OnlyStaged, files
        <4>2. QED  BY <2>1, <2>3, <3>1, <3>2, <4>1, CarefulRow DEF SameFile, files
      <3>8. QED  BY <3>6, <3>7 DEF Orderly
    <2>4. Transaction(r, ok, s, enrollment, Goto(r, "promote"))
      BY <1>6 DEF InsertRow
    <2> HIDE DEF s, ok
    <2>5. QED  BY <2>2, <2>3, <2>4, TransactionOrderly
  <1>7. CASE Promote(r)
    <2>1. PICK k \in Keys : k = req[r].sample /\ Holds(r, k)
      BY <1>b, <1>7 DEF Promote, UploadingPoints
    <2>2. UNCHANGED <<status, content>> /\ req[r].pc = "promote"
      BY <1>7 DEF Promote, rows
    <2>3. CASE /\ k \in staging /\ staging' = staging \ {k} /\ active' = active \cup {k}
               /\ Goto(r, "activate") /\ UNCHANGED quarantine
      <3>1. /\ \A q \in Requests \ {r} : req'[q] = req[q]
            /\ req'[r].pc = "activate" /\ req'[r].op = req[r].op /\ req'[r].sample = k
            /\ Holds(r, k)' /\ \A j \in Keys : ~Retiring(r, j)'
        BY <2>1, <2>3, GotoView DEF UploadingPoints
      <3>2. UndeletedView(r)'
        BY <1>a, <2>2, <3>1 DEF UndeletedView, DeletionPoints, ReplacingPoints, NoneActive
      <3>3. Steady(r)
        BY <2>2, <3>1, <3>2, SteadyStill
      <3>4. ASSUME NothingLost PROVE Careful(r)
        <4>1. status[k] = "pending" /\ OnlyStaged(k)
          BY <2>1, <2>2, <3>4 DEF NothingLost, Tidy
        <4>2. status'[k] = "pending" /\ OnlyActive(k)'
          BY <2>2, <2>3, <4>1 DEF OnlyStaged, OnlyActive
        <4>3. Tidy(r)'
          BY <3>1, <4>2 DEF Tidy
        <4>4. \A j \in Keys \ {k} : SameFile(j)
          BY <2>3 DEF SameFile
        <4>5. QED  BY <2>1, <2>2, <3>1, <4>3, <4>4, CarefulRow
      <3>5. QED  BY <3>3, <3>4 DEF Orderly
    <2>4. CASE k \notin staging /\ OnError(r)
      BY <2>1, <2>2, <2>4, ErrorOrderly
    <2>5. QED  BY <1>7, <2>1, <2>3, <2>4 DEF Promote
  <1>8. CASE ActivateCreated(r)
    <2> DEFINE s == [status EXCEPT ![req[r].sample] = "active"]
               e == IF req[r].seen = "active" THEN enrollment ELSE "active"
               ok == Updates({req[r].sample}, s)
    <2>1. PICK k \in Keys : k = req[r].sample /\ Holds(r, k) /\ Uploading(r, k)
      BY <1>b, <1>8 DEF ActivateCreated, At, UploadingPoints
    <2>2. req[r].pc = "activate" /\ content' = content
      BY <1>8 DEF ActivateCreated, At
    <2>3. ASSUME ok, status' = s, Finish(r), UNCHANGED files
          PROVE  Orderly(r)
      <3>1. /\ status' = [status EXCEPT ![k] = "active"] /\ status'[k] = "active"
            /\ \A j \in Keys \ {k} : status'[j] = status[j]
        BY <1>a, <2>1, <2>3
      <3>2. status[k] = "pending" /\ OneActive(s) /\ UniqueContent(s)
        BY <2>1, <2>3, HeldRows DEF Updates
      <3>3. OneActive(status)' /\ UniqueContent(status)'
        <4> HIDE DEF s
        <4>1. QED  BY <2>2, <2>3, <3>2 DEF OneActive, UniqueContent, Live
      <3>4. /\ \A q \in Requests \ {r} : req'[q] = req[q]
            /\ \A j \in Keys : ~Retiring(r, j)'
            /\ UndeletedView(r)' /\ Tidy(r)'
        BY <2>3, FinishView
      <3>5. Steady(r)
        BY <1>d, <2>1, <2>2, <3>1, <3>3, <3>4, SteadyRow
      <3>6. ASSUME NothingLost PROVE Careful(r)
        <4>1. OnlyActive(k)
          BY <2>1, <2>2, <3>6 DEF NothingLost, Tidy
        <4>2. Settled(k)'
          BY <2>3, <3>1, <4>1 DEF OnlyActive, Settled, files
        <4>3. QED  BY <2>1, <2>3, <3>1, <3>4, <4>2, CarefulRow DEF SameFile, files
      <3>7. QED  BY <3>5, <3>6 DEF Orderly
    <2>4. Transaction(r, ok, s, e, Finish(r))
      BY <1>8 DEF ActivateCreated
    <2> HIDE DEF s, e, ok
    <2>5. QED  BY <2>2, <2>3, <2>4, TransactionOrderly
  <1>9. CASE ActivateReplacement(r)
    <2> DEFINE s == [status EXCEPT ![req[r].old] = "replacement_pending",
                                   ![req[r].sample] = "active"]
               then == req' = [req EXCEPT ![r] = [@ EXCEPT !.sample = req[r].old, !.pc = "quarantine"]]
               ok == Updates({req[r].sample, req[r].old}, s)
    <2>1. PICK k \in Keys : k = req[r].sample /\ Holds(r, k) /\ Uploading(r, k)
      BY <1>b, <1>9 DEF ActivateReplacement, At, UploadingPoints
    <2>2. PICK o \in Keys : o = req[r].old /\ Uploaded(o)
      BY <1>a, <1>9, NoneAssumption
         DEF ActivateReplacement, At, SnapshotsBounded, UploadingPoints
    <2>3. /\ req[r].pc = "activate" /\ req[r].op = "replace" /\ content' = content
          /\ k # o /\ ~NoneActive
      BY <1>a, <1>9, <2>1, <2>2
         DEF ActivateReplacement, At, Uploaded, UndeletedView, ReplacingPoints
    <2>4. ASSUME ok, status' = s, then, UNCHANGED files
          PROVE  Orderly(r)
      <3>1. /\ status'[k] = "active" /\ status'[o] = "replacement_pending"
            /\ \A j \in Keys \ {k, o} : status'[j] = status[j]
        BY <1>a, <2>1, <2>2, <2>3, <2>4
      <3>2. status[k] = "pending" /\ OneActive(s) /\ UniqueContent(s)
        BY <2>1, <2>4, HeldRows DEF Updates
      <3>3. OneActive(status)' /\ UniqueContent(status)'
        <4> HIDE DEF s
        <4>1. QED  BY <2>3, <2>4, <3>2 DEF OneActive, UniqueContent, Live
      <3>4. status[o] = "active"
        BY <2>3, <3>1, <3>2, <3>3 DEF NoneActive, OneActive
      <3>5. /\ req'[r].pc = "quarantine" /\ req'[r].op = "replace" /\ req'[r].sample = o
            /\ \A q \in Requests \ {r} : req'[q] = req[q]
        BY <1>a, <2>2, <2>3, <2>4 DEF Request
      <3>6. UndeletedView(r)'
        BY <3>1, <3>5 DEF UndeletedView, DeletionPoints, ReplacingPoints
      <3>7. \A q \in Requests \ {r} : ~Holds(q, k) /\ ~Holds(q, o)
        BY <2>1, <3>4, HeldRows
      <3>8. RowsIndexed'
        BY <1>a, <2>1, <2>3, <3>1, <3>3, <3>4, HeldRows DEF RowsIndexed
      <3>9. Steady(r)
        <4>1. ~NoneActive'
          BY <3>1 DEF NoneActive
        <4>2. \A q \in Requests \ {r}, j \in Keys : Holds(q, j) => status'[j] = status[j]
          BY <3>1, <3>7
        <4>3. \A j \in Keys : Retiring(r, j)' => status[j] = "active"
          BY <3>4, <3>5 DEF Retiring
        <4>4. QED  BY <3>5, <3>6, <3>8, <4>1, <4>2, <4>3 DEF Steady
      <3>10. ASSUME NothingLost PROVE Careful(r)
        <4>1. OnlyActive(k)
          BY <2>1, <2>3, <3>10 DEF NothingLost, Tidy
        <4>2. Settled(o) /\ OnlyActive(o)
          <5>1. \A q \in Requests : ~Holds(q, o)
            BY <3>4, HeldRows
          <5>2. QED  BY <3>4, <3>10, <5>1 DEF NothingLost, Settled, OnlyActive
        <4>3. Tidy(r)' /\ Holds(r, o)' /\ Settled(k)'
          BY <2>4, <3>1, <3>5, <4>1, <4>2
             DEF Tidy, OnlyActive, Settled, Holds, Retiring, RetiringPoints, files
        <4>4. \A j \in Keys : SameFile(j)
          BY <2>4 DEF SameFile, files
        <4>5. \A j \in Keys \ {k, o} : Settled(j) => Settled(j)'
          BY <2>4, <3>1 DEF Settled, OnDisk, files
        <4>6. \A j \in Keys \ {k} : ~Holds(r, j)
          BY <2>1 DEF Holds, Uploading, Retiring
        <4>7. QED  BY <4>3, <4>4, <4>5, <4>6 DEF Careful
      <3>11. QED  BY <3>9, <3>10 DEF Orderly
    <2>5. Transaction(r, ok, s, enrollment, then)
      BY <1>9 DEF ActivateReplacement
    <2> HIDE DEF s, then, ok
    <2>6. QED  BY <2>3, <2>4, <2>5, TransactionOrderly
  <1>10. CASE UndoQuarantine(r) \/ UndoPurge(r)
    <2>1. PICK k \in Keys : k = req[r].sample /\ Holds(r, k)
      BY <1>b, <1>10 DEF UndoQuarantine, UndoPurge, UploadingPoints
    <2>2. PICK pc \in {"undo_purge", "undo_row"} : Goto(r, pc)
      BY <1>10 DEF UndoQuarantine, UndoPurge
    <2>3. /\ \A q \in Requests \ {r} : req'[q] = req[q]
          /\ req'[r].pc = pc /\ req'[r].op = req[r].op /\ req'[r].sample = k
          /\ Holds(r, k)' /\ \A j \in Keys : ~Retiring(r, j)'
      BY <2>1, <2>2, GotoView DEF UploadingPoints
    <2>4. UNCHANGED <<status, content>>
      BY <1>10 DEF UndoQuarantine, UndoPurge, rows
    <2>5. Steady(r)
      <3>1. UndeletedView(r)'
        BY <1>a, <2>3 DEF UndeletedView, DeletionPoints, ReplacingPoints
      <3>2. QED  BY <2>3, <2>4, <3>1, SteadyStill
    <2>6. ASSUME NothingLost PROVE Careful(r)
      <3>1. Tidy(r)'
        <4>1. CASE UndoQuarantine(r)
          <5>1. status[k] = "pending" /\ OnlyActive(k)
            BY <2>1, <2>6, <4>1 DEF UndoQuarantine, NothingLost, Tidy
          <5>2. req'[r].pc = "undo_purge" /\ OnlyQuarantined(k)'
            BY <2>1, <4>1, <5>1, GotoView
               DEF UndoQuarantine, OnlyActive, OnlyQuarantined, UploadingPoints
          <5>3. QED  BY <2>3, <2>4, <5>1, <5>2 DEF Tidy
        <4>2. CASE UndoPurge(r)
          <5>1. status[k] = "pending" /\ OnlyQuarantined(k)
            BY <2>1, <2>6, <4>2 DEF UndoPurge, NothingLost, Tidy
          <5>2. req'[r].pc = "undo_row" /\ ~OnDisk(k)'
            BY <2>1, <4>2, <5>1, GotoView
               DEF UndoPurge, OnDisk, OnlyQuarantined, UploadingPoints
          <5>3. QED  BY <2>3, <2>4, <5>1, <5>2 DEF Tidy
        <4>3. QED  BY <1>10, <4>1, <4>2
      <3>2. \A j \in Keys \ {k} : SameFile(j)
        BY <1>10, <2>1 DEF UndoQuarantine, UndoPurge, SameFile
      <3>3. QED  BY <2>1, <2>3, <2>4, <3>1, <3>2, CarefulRow
    <2>7. QED  BY <2>5, <2>6 DEF Orderly
  <1>11. CASE UndoRow(r)
    <2> DEFINE s == [status EXCEPT ![req[r].sample] = IF @ = "pending" THEN "absent" ELSE @]
    <2>1. PICK k \in Keys : k = req[r].sample /\ Holds(r, k) /\ Uploading(r, k)
      BY <1>b, <1>11 DEF UndoRow, UploadingPoints
    <2>2. req[r].pc = "undo_row" /\ content' = content
      BY <1>11 DEF UndoRow
    <2>3. status[k] \in {"absent", "pending"} /\ s = [status EXCEPT ![k] = "absent"]
      <3>1. status[k] \in {"absent", "pending"}
        BY <2>1, HeldRows
      <3>2. QED  BY <1>a, <2>1, <3>1
    <2>4. Transaction(r, TRUE, s, enrollment, Finish(r))
      BY <1>11 DEF UndoRow
    <2> HIDE DEF s
    <2>5. ASSUME status' = s, Finish(r), UNCHANGED files
          PROVE  Orderly(r)
      <3>1. DroppedRow(r, k)
        BY <2>1, <2>2, <2>3, <2>5 DEF DroppedRow
      <3>2. ASSUME NothingLost PROVE ~OnDisk(k)
        BY <2>1, <2>2, <3>2 DEF NothingLost, Tidy
      <3>3. QED  BY <2>5, <3>1, <3>2, DropOrderly
    <2>6. QED  BY <2>2, <2>4, <2>5, TransactionOrderly
  <1>12. QED
    BY <1>1, <1>2, <1>3, <1>4, <1>5, <1>6, <1>7, <1>8, <1>9, <1>10, <1>11 DEF UploadStep

LEMMA RemovalStepOrderly ==
    ASSUME "lost_ack" \notin Faults, UInv, NEW r \in Requests, RemovalStep(r)
    PROVE  Orderly(r)
  <1>a. /\ TypeOK /\ UndeletedView(r) /\ SampleInHand(r)
        /\ status \in [Keys -> RowStatus]
    BY DEF UInv, IInv, TypeOK
  <1>b. req[r].pc \in RetiringPoints =>
           req[r].sample \in Keys /\ Holds(r, req[r].sample) /\ Retiring(r, req[r].sample)
    BY <1>a DEF SampleInHand, Holds, Retiring, RetiringPoints, RemovalPoints
  <1>c. {"quarantined", "deleted"} \subseteq RowStatus
    BY DEF RowStatus, SampleStatus
  <1>1. CASE \/ ListLive(r) \/ RequestDeletion(r) \/ DiscardPending(r) \/ MarkDeletionPending(r)
             \/ Recheck(r) \/ Finalize(r)
    BY <1>a, <1>1
       DEF UndeletedView, DeletionPoints, ListLive, RequestDeletion, DiscardPending,
           MarkDeletionPending, Recheck, Finalize
  <1>2. CASE DropRow(r)
    <2> DEFINE s == [status EXCEPT ![req[r].sample] = "absent"]
    <2>1. PICK k \in Keys : k = req[r].sample /\ Holds(r, k) /\ Uploading(r, k)
      BY <1>a, <1>2 DEF DropRow, SampleInHand, UndeletedView, Holds, Uploading
    <2>2. /\ content' = content /\ req[r].pc = "drop_row"
          /\ Transaction(r, TRUE, s, enrollment, SampleDone(r))
      BY <1>2 DEF DropRow
    <2>3. s = [status EXCEPT ![k] = "absent"] /\ status[k] \in {"absent", "pending"}
      BY <2>1, HeldRows
    <2> HIDE DEF s
    <2>4. ASSUME status' = s, SampleDone(r), UNCHANGED files
          PROVE  Orderly(r)
      <3>1. DroppedRow(r, k)
        BY <1>a, <2>1, <2>2, <2>3, <2>4 DEF DroppedRow, SampleDone, UndeletedView
      <3>2. ~NothingLost
        BY <2>2 DEF NothingLost, Tidy
      <3>3. QED  BY <2>4, <3>1, <3>2, DropOrderly
    <2>5. QED  BY <2>2, <2>4, TransactionOrderly
  <1>3. CASE Quarantine(r)
    <2>1. PICK k \in Keys : k = req[r].sample /\ Holds(r, k)
      BY <1>b, <1>3 DEF Quarantine, RetiringPoints
    <2>2. /\ \A q \in Requests \ {r} : req'[q] = req[q]
          /\ req'[r].pc = "mark_quarantined" /\ req'[r].op = req[r].op /\ req'[r].sample = k
          /\ Holds(r, k)'
      BY <1>3, <2>1, GotoView DEF Quarantine, RetiringPoints
    <2>3. UNCHANGED <<status, content>> /\ req[r].pc = "quarantine"
      BY <1>3 DEF Quarantine, rows
    <2>4. Steady(r)
      <3>1. UndeletedView(r)'
        BY <1>a, <2>1, <2>2, <2>3 DEF UndeletedView, DeletionPoints, ReplacingPoints
      <3>2. \A j \in Keys : Retiring(r, j)' => Retiring(r, j)
        BY <2>1, <2>2, <2>3 DEF Retiring, RetiringPoints
      <3>3. QED  BY <2>2, <2>3, <3>1, <3>2, SteadyStill
    <2>5. ASSUME NothingLost PROVE Careful(r)
      <3>1. OnlyActive(k)
        BY <2>1, <2>3, <2>5 DEF NothingLost, Tidy
      <3>2. OnlyQuarantined(k)' /\ \A j \in Keys \ {k} : SameFile(j)
        BY <1>3, <2>1, <3>1 DEF Quarantine, OnlyActive, OnlyQuarantined, SameFile
      <3>3. Tidy(r)'
        BY <2>2, <3>2 DEF Tidy
      <3>4. QED  BY <2>1, <2>2, <2>3, <3>2, <3>3, CarefulRow
    <2>6. QED  BY <2>4, <2>5 DEF Orderly
  <1>4. CASE MarkQuarantined(r)
    <2> DEFINE s == [status EXCEPT ![req[r].sample] = "quarantined"]
               ok == Updates({req[r].sample}, s)
    <2>1. PICK k \in Keys : k = req[r].sample /\ Holds(r, k)
      BY <1>b, <1>4 DEF MarkQuarantined, RetiringPoints
    <2>2. /\ req[r].pc = "mark_quarantined" /\ content' = content
          /\ status[k] = "replacement_pending"
      BY <1>a, <1>4, <2>1 DEF MarkQuarantined, UndeletedView
    <2>3. s = [status EXCEPT ![k] = "quarantined"] /\ OneActive(s) /\ UniqueContent(s)
      BY <1>c, <2>1, <2>2, IndexesKept DEF Live
    <2>4. ok
      BY <2>1, <2>2, <2>3 DEF Updates
    <2>5. Transaction(r, ok, s, enrollment, Goto(r, "purge"))
      BY <1>4 DEF MarkQuarantined
    <2> HIDE DEF s, ok
    <2>6. ASSUME status' = s, Goto(r, "purge"), UNCHANGED files
          PROVE  Orderly(r)
      <3>1. /\ \A q \in Requests \ {r} : req'[q] = req[q]
            /\ req'[r].pc = "purge" /\ req'[r].op = req[r].op /\ req'[r].sample = k
            /\ Holds(r, k)'
        BY <2>1, <2>6, GotoView DEF RetiringPoints
      <3>2. status'[k] = "quarantined" /\ \A j \in Keys \ {k} : status'[j] = status[j]
        BY <1>a, <2>3, <2>6
      <3>3. UndeletedView(r)'
        BY <1>a, <3>1, <3>2 DEF UndeletedView, DeletionPoints, ReplacingPoints
      <3>4. \A j \in Keys : Retiring(r, j)' => Retiring(r, j)
        BY <2>1, <2>2, <3>1 DEF Retiring, RetiringPoints
      <3>5. OneActive(status)' /\ UniqueContent(status)'
        BY <2>2, <2>3, <2>6 DEF OneActive, UniqueContent, Live
      <3>6. Steady(r)
        BY <1>c, <2>1, <2>2, <2>3, <2>6, <3>1, <3>3, <3>4, <3>5, SteadyRow
      <3>7. ASSUME NothingLost PROVE Careful(r)
        <4>1. Tidy(r)'
          BY <2>1, <2>2, <2>6, <3>1, <3>7 DEF NothingLost, Tidy, OnlyQuarantined, files
        <4>2. QED  BY <2>1, <2>6, <3>1, <3>2, <4>1, CarefulRow DEF SameFile, files
      <3>8. QED  BY <3>6, <3>7 DEF Orderly
    <2>7. QED  BY <2>2, <2>4, <2>5, <2>6, TransactionOrderly
  <1>5. CASE Purge(r)
    <2>1. PICK k \in Keys : k = req[r].sample /\ Holds(r, k)
      BY <1>b, <1>5 DEF Purge, RetiringPoints
    <2>2. /\ \A q \in Requests \ {r} : req'[q] = req[q]
          /\ req'[r].pc = "mark_deleted" /\ req'[r].op = req[r].op /\ req'[r].sample = k
          /\ Holds(r, k)'
      BY <1>5, <2>1, GotoView DEF Purge, RetiringPoints
    <2>3. UNCHANGED <<status, content>> /\ req[r].pc = "purge"
      BY <1>5 DEF Purge, rows
    <2>4. Steady(r)
      <3>1. UndeletedView(r)'
        BY <1>a, <2>1, <2>2, <2>3 DEF UndeletedView, DeletionPoints, ReplacingPoints
      <3>2. \A j \in Keys : Retiring(r, j)' => Retiring(r, j)
        BY <2>1, <2>2, <2>3 DEF Retiring, RetiringPoints
      <3>3. QED  BY <2>2, <2>3, <3>1, <3>2, SteadyStill
    <2>5. ASSUME NothingLost PROVE Careful(r)
      <3>1. OnlyQuarantined(k)
        BY <2>1, <2>3, <2>5 DEF NothingLost, Tidy
      <3>2. ~OnDisk(k)' /\ \A j \in Keys \ {k} : SameFile(j)
        BY <1>5, <2>1, <3>1 DEF Purge, OnlyQuarantined, OnDisk, SameFile
      <3>3. Tidy(r)'
        BY <2>2, <3>2 DEF Tidy
      <3>4. QED  BY <2>1, <2>2, <2>3, <3>2, <3>3, CarefulRow
    <2>6. QED  BY <2>4, <2>5 DEF Orderly
  <1>6. CASE MarkDeleted(r)
    <2> DEFINE s == [status EXCEPT ![req[r].sample] = "deleted"]
               ok == Updates({req[r].sample}, s)
    <2>1. PICK k \in Keys : k = req[r].sample /\ Holds(r, k)
      BY <1>b, <1>6 DEF MarkDeleted, RetiringPoints
    <2>2. /\ req[r].pc = "mark_deleted" /\ content' = content /\ status[k] = "quarantined"
      BY <1>a, <1>6, <2>1 DEF MarkDeleted, UndeletedView
    <2>3. s = [status EXCEPT ![k] = "deleted"] /\ OneActive(s) /\ UniqueContent(s)
      BY <1>c, <2>1, <2>2, IndexesKept DEF Live
    <2>4. ok
      BY <2>1, <2>2, <2>3 DEF Updates
    <2>5. Transaction(r, ok, s, enrollment, SampleDone(r))
      BY <1>6 DEF MarkDeleted
    <2> HIDE DEF s, ok
    <2>6. ASSUME status' = s, SampleDone(r), UNCHANGED files
          PROVE  Orderly(r)
      <3>1. /\ \A q \in Requests \ {r} : req'[q] = req[q]
            /\ \A j \in Keys : ~Retiring(r, j)'
            /\ UndeletedView(r)' /\ Tidy(r)'
        BY <1>a, <2>6, FinishView DEF SampleDone, UndeletedView
      <3>2. status'[k] = "deleted" /\ \A j \in Keys \ {k} : status'[j] = status[j]
        BY <1>a, <2>3, <2>6
      <3>3. OneActive(status)' /\ UniqueContent(status)'
        BY <2>2, <2>3, <2>6 DEF OneActive, UniqueContent, Live
      <3>4. Steady(r)
        BY <1>c, <2>1, <2>2, <2>3, <2>6, <3>1, <3>3, SteadyRow
      <3>5. ASSUME NothingLost PROVE Careful(r)
        <4>1. Settled(k)'
          BY <2>1, <2>2, <2>6, <3>2, <3>5 DEF NothingLost, Tidy, Settled, OnDisk, files
        <4>2. QED  BY <2>1, <2>6, <3>1, <3>2, <4>1, CarefulRow DEF SameFile, files
      <3>6. QED  BY <3>4, <3>5 DEF Orderly
    <2>7. QED  BY <2>2, <2>4, <2>5, <2>6, TransactionOrderly
  <1>7. QED
    BY <1>1, <1>2, <1>3, <1>4, <1>5, <1>6 DEF RemovalStep

LEMMA StartOrderly ==
    ASSUME "delete" \notin Operations, UInv, NEW r \in Requests, Start(r)
    PROVE  Orderly(r)
  <1>1. req \in [Requests -> Request]
    BY DEF UInv, IInv, TypeOK
  <1>2. CASE StartCreate(r)
    BY <1>1, <1>2, OrderlyNone DEF StartCreate, Idle, rows, files
  <1>3. CASE StartReplace(r)
    BY <1>1, <1>3, OrderlyNone DEF StartReplace, Idle, rows, files
  <1>4. QED  BY <1>2, <1>3 DEF Start, StartDelete

LEMMA FailureSteady ==
    ASSUME "lost_ack" \notin Faults, UInv, NEW r \in Requests, Failure(r)
    PROVE  Steady(r)
  <1>1. UNCHANGED <<status, content>> /\ (OnError(r) \/ Finish(r))
    BY DEF Failure, DatabaseError, FileError, Crash, rows
  <1>2. CASE Finish(r)
    BY <1>1, <1>2, FinishView, SteadyStill
  <1>3. QED  BY <1>1, <1>2, ErrorSteady

(***************************************************************************)
(* What overlapping uploads keep.                                          *)
(***************************************************************************)
LEMMA UInvInit == Init => UInv /\ NothingLost
  BY IInvInit
     DEF Init, Idle, Nothing, UInv, UndeletedView, RetirementsExclusive, Retiring, RowsIndexed,
         OneActive, UniqueContent, Live, NothingLost, Tidy, Settled, OnDisk, RetiringPoints,
         DeletionPoints, ReplacingPoints

LEMMA UInvStep ==
    ASSUME "delete" \notin Operations, "lost_ack" \notin Faults, UInv, [Next]_vars
    PROVE  UInv'
  <1>1. IInv'
    BY IInvStep DEF UInv
  <1>2. ASSUME NEW r \in Requests, Start(r) \/ UploadStep(r) \/ RemovalStep(r) \/ Failure(r)
        PROVE  UInv'
    <2>1. Steady(r)
      BY <1>2, StartOrderly, UploadStepOrderly, RemovalStepOrderly, FailureSteady DEF Orderly
    <2>2. QED  BY <1>1, <2>1, SteadyKeeps
  <1>3. CASE UNCHANGED vars
    BY <1>1, <1>3
       DEF vars, UInv, UndeletedView, RetirementsExclusive, Retiring, RowsIndexed, OneActive,
           UniqueContent, Live, NoneActive
  <1>4. QED  BY <1>2, <1>3 DEF Next

\* When overlapping uploads are all over and none has failed or died, everything is
\* settled: the report finds nothing.
THEOREM UploadsLeaveNothing ==
    ASSUME "delete" \notin Operations, "lost_ack" \notin Faults, "io" \notin Faults
    PROVE  HistorySpec => []CleanWhenQuiet
  <1> DEFINE Inv == UInv /\ (~disturbed => NothingLost)
  <1>1. HistoryInit => Inv
    BY UInvInit DEF HistoryInit
  <1>2. Inv /\ [HistoryNext]_historyVars => Inv'
    <2> SUFFICES ASSUME Inv, [HistoryNext]_historyVars PROVE Inv'
      OBVIOUS
    <2>1. CASE HistoryNext
      <3>1. PICK r \in Requests :
               \/ (Start(r) \/ UploadStep(r) \/ RemovalStep(r)) /\ UNCHANGED disturbed
               \/ Failure(r) /\ disturbed' = TRUE
        BY <2>1 DEF HistoryNext
      <3>2. UInv'
        BY <3>1, UInvStep DEF Next
      <3>3. CASE disturbed'
        BY <3>2, <3>3
      <3>4. CASE ~disturbed'
        <4>1. ~disturbed /\ Orderly(r)
          BY <3>1, <3>4, StartOrderly, UploadStepOrderly, RemovalStepOrderly
        <4>2. QED  BY <3>2, <4>1, CarefulKeeps DEF Orderly
      <3>5. QED  BY <3>3, <3>4
    <2>2. CASE UNCHANGED historyVars
      <3>1. UNCHANGED vars /\ disturbed' = disturbed
        BY <2>2 DEF historyVars
      <3>2. UInv'
        BY <3>1, UInvStep
      <3>3. NothingLost => NothingLost'
        BY <3>1
           DEF vars, NothingLost, Tidy, Settled, OnDisk, Holds, Uploading, Retiring, OnlyStaged,
               OnlyActive, OnlyQuarantined
      <3>4. QED  BY <3>1, <3>2, <3>3
    <2>3. QED  BY <2>1, <2>2
  <1>3. Inv => CleanWhenQuiet
    <2> SUFFICES ASSUME Inv, Quiet, ~disturbed PROVE Findings(Keys) = {}
      BY DEF CleanWhenQuiet
    <2>1. ASSUME NEW k \in Keys PROVE Settled(k)
      <3>1. \A r \in Requests : ~Holds(r, k)
        BY DEF Quiet, Holds, Uploading, Retiring, UploadingPoints, RetiringPoints
      <3>2. QED  BY <3>1 DEF NothingLost
    <2>2. staging \subseteq Keys /\ active \subseteq Keys /\ quarantine \subseteq Keys
      BY DEF UInv, IInv, TypeOK
    <2>3. /\ ActiveRecordMissingFile = {} /\ ActiveFileMissingRecord = {}
          /\ QuarantinedRecordMissingFile = {} /\ QuarantinedFileMissingRecord = {}
          /\ StagedFileMissingRecord = {}
      BY <2>1, <2>2
         DEF ActiveRecordMissingFile, ActiveFileMissingRecord, QuarantinedRecordMissingFile,
             QuarantinedFileMissingRecord, StagedFileMissingRecord, RowsIn, Settled, OnDisk
    <2>4. /\ PendingSampleStale(Keys) = {} /\ DeletionPendingStale(Keys) = {}
          /\ ReplacementPendingIncomplete = {}
      BY <2>1
         DEF PendingSampleStale, DeletionPendingStale, ReplacementPendingIncomplete, RowsIn,
             Settled
    <2>5. QED  BY <2>3, <2>4 DEF Findings
  <1> HIDE DEF Inv
  <1>4. QED  BY <1>1, <1>2, <1>3, PTL DEF HistorySpec

=============================================================================
