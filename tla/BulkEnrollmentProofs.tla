-------------------------- MODULE BulkEnrollmentProofs --------------------------
(***************************************************************************)
(* What a bulk archive answers, for any number of rows, any number of      *)
(* deletions beside it and every combination of failures.  The rows ahead  *)
(* of the current one are untouched; what the program point says of the    *)
(* current row, and what a deletion has read of a row, is kept by the      *)
(* steps of the others.                                                    *)
(***************************************************************************)
EXTENDS BulkEnrollment, TLAPS

\* The archive names each student once.
RowsOnce ==
    /\ Rows \in Seq(RowStudents)
    /\ \A i, j \in DOMAIN Rows : Rows[i] = Rows[j] => i = j

Preparing == {"idle", "archive", "prepare"}

Executing == {"enroll", "insert", "promote", "drop_row", "activate", "undo_file", "undo_row"}

BatchTyped ==
    /\ batch \in [pc : BulkPoints, at : Nat, valid : BOOLEAN, found : SUBSET RowStudents]
    /\ batch.pc = "prepare" => batch.at >= 1
    /\ batch.pc \in Executing => batch.at \in DOMAIN Rows
    /\ report \in [RowStudents -> {"none", "enrolled", "failed"}]
    /\ sample \in [RowStudents -> RowStatuses]
    /\ removal \in [RowStudents ->
          [pc : {"none", "read", "marked", "discarded", "drained"}, saw : RowStatuses]]

Untouched(s) == report[s] = "none" /\ sample[s] = "absent" /\ s \notin stored

\* Rows the batch has not come to.
RowsAhead ==
    /\ batch.pc \in Preparing => \A s \in RowStudents : Untouched(s)
    /\ batch.pc \in Executing => \A i \in DOMAIN Rows : i > batch.at => Untouched(Rows[i])

\* The row at hand.
RowAtHand ==
    /\ batch.pc \in Executing => report[CurrentStudent] = "none"
    /\ batch.pc \in {"enroll", "insert"} => Untouched(CurrentStudent)
    /\ batch.pc \in {"promote", "drop_row"} =>
          sample[CurrentStudent] \in {"absent", "pending"} /\ CurrentStudent \notin stored
    /\ batch.pc = "activate" =>
          /\ sample[CurrentStudent] \in {"absent", "pending"}
          /\ CurrentStudent \in stored /\ CurrentStudent \notin staged
    /\ batch.pc \in {"undo_file", "undo_row"} =>
          CurrentStudent \in spoiled \/ sample[CurrentStudent] \in {"absent", "pending"}
    /\ batch.pc = "undo_row" => CurrentStudent \notin stored

\* The rows that have been reported.
RowsReported ==
    \A s \in RowStudents :
        /\ report[s] = "enrolled" =>
              \/ sample[s] = "active" /\ s \in stored
              \/ sample[s] = "retiring"
              \/ sample[s] = "deleted" /\ s \notin stored
              \/ sample[s] = "absent" /\ s \in overtaken
        /\ report[s] = "failed" /\ s \notin spoiled =>
              sample[s] = "absent" /\ s \notin staged \cup stored

\* What became of a row since a deletion read it.
SinceRead ==
    \A s \in RowStudents :
        /\ removal[s].pc = "discarded" => removal[s].saw = "pending"
        /\ removal[s].saw = "pending" => sample[s] \in {"absent", "pending"} \/ s \in overtaken
        /\ removal[s].saw \in {"active", "retiring"} => sample[s] \notin {"absent", "pending"}

\* The batch as a whole.
BatchAnswered ==
    /\ trail = "success" => batch.pc \in {"executed", "broken"} /\ AllEnrolled
    /\ batch.pc = "rejected" => ~archive /\ \A s \in RowStudents : sample[s] = "absent"

BulkInv ==
    BatchTyped /\ RowsAhead /\ RowAtHand /\ RowsReported /\ SinceRead /\ BatchAnswered

\* An element of the sequence is one of the students, and there is no other row
\* for it.
LEMMA RowOfStudent ==
  ASSUME RowsOnce
  PROVE  /\ Len(Rows) \in Nat /\ DOMAIN Rows = 1 .. Len(Rows)
         /\ \A i \in 1 .. Len(Rows) : Rows[i] \in RowStudents
         /\ \A i, j \in 1 .. Len(Rows) : i # j => Rows[i] # Rows[j]
  BY DEF RowsOnce, RowStudents

LEMMA InitBulkInv == ASSUME RowsOnce PROVE BulkInit => BulkInv
  BY DEF BulkInit, BulkInv, BatchTyped, RowsAhead, RowAtHand, RowsReported, SinceRead,
         BatchAnswered, Untouched, BulkPoints, Preparing, Executing, NoRemoval, RowStatuses

\* A deletion's next point is one of a deletion.
LEMMA RemovalTyped ==
  ASSUME BulkInv, NEW s \in RowStudents, Elsewhere(s)
  PROVE  removal' \in [RowStudents ->
            [pc : {"none", "read", "marked", "discarded", "drained"}, saw : RowStatuses]]
  <1> USE DEF BulkInv, BatchTyped, RowStatuses
  <1>1. CASE UNCHANGED removal
    BY <1>1
  <1>2. CASE ReadForDeletion(s)
    BY <1>2 DEF ReadForDeletion
  <1>3. ASSUME NEW pc \in {"marked", "discarded"}, RemovalGoesOn(s, pc)
        PROVE  removal' \in [RowStudents ->
            [pc : {"none", "read", "marked", "discarded", "drained"}, saw : RowStatuses]]
    BY <1>3 DEF RemovalGoesOn
  <1>4. CASE SampleDrained(s)
    BY <1>4 DEF SampleDrained
  <1>5. CASE removal' = [removal EXCEPT ![s] = NoRemoval]
    BY <1>5 DEF NoRemoval
  <1>6. QED
    BY <1>1, <1>2, <1>3, <1>4, <1>5
       DEF Elsewhere, UploadElsewhere, RemoveRetiredFile, CloseRetiredRow, MarkDeletion,
           DiscardStaged, DropElsewhere, RetireElsewhere, CloseDeletion, DeletionFails, elsewhere

\* What a step of another request does to the batch's row of a student.
Disturbed(x) ==
    /\ x \in stored' => x \in stored
    /\ \/ sample'[x] = sample[x] /\ (x \in stored' <=> x \in stored)
       \/ sample[x] \in {"active", "retiring", "deleted"} /\ sample'[x] = "retiring"
       \/ sample[x] = "retiring" /\ sample'[x] = "deleted" /\ x \notin stored'
       \/ /\ sample'[x] = "absent" /\ (x \in stored' <=> x \in stored)
          /\ sample[x] \in {"absent", "pending"} \/ x \in overtaken

LEMMA ElsewhereDisturbs ==
  ASSUME BulkInv, NEW s \in RowStudents, Elsewhere(s)
  PROVE  /\ UNCHANGED <<batch, archive, report, trail, spoiled, overtaken>>
         /\ staged' \subseteq staged
         /\ sample' \in [RowStudents -> RowStatuses]
         /\ \A x \in RowStudents : Disturbed(x)
  <1> USE DEF BulkInv, BatchTyped, RowStatuses, database, files, answer, elsewhere
  <1>1. CASE UploadElsewhere(s)
    BY <1>1 DEF UploadElsewhere, Disturbed
  <1>2. CASE RemoveRetiredFile(s)
    BY <1>2 DEF RemoveRetiredFile, Disturbed
  <1>3. CASE CloseRetiredRow(s)
    BY <1>3 DEF CloseRetiredRow, Disturbed
  <1>4. CASE ReadForDeletion(s) \/ MarkDeletion(s) \/ DiscardStaged(s) \/ CloseDeletion(s)
             \/ DeletionFails(s)
    BY <1>4 DEF ReadForDeletion, MarkDeletion, DiscardStaged, CloseDeletion, DeletionFails,
                Disturbed
  <1>5. CASE DropElsewhere(s)
    BY <1>5 DEF DropElsewhere, SinceRead, Disturbed
  <1>6. CASE RetireElsewhere(s)
    BY <1>6 DEF RetireElsewhere, SinceRead, Disturbed
  <1>7. QED  BY <1>1, <1>2, <1>3, <1>4, <1>5, <1>6 DEF Elsewhere

LEMMA ElsewhereSinceRead ==
  ASSUME BulkInv, NEW s \in RowStudents, Elsewhere(s)
  PROVE  SinceRead'
  <1> USE DEF BulkInv, BatchTyped, RowStatuses, database, files, answer, elsewhere, NoRemoval
  <1>1. CASE UploadElsewhere(s)
    BY <1>1 DEF UploadElsewhere, SinceRead
  <1>2. CASE RemoveRetiredFile(s)
    BY <1>2 DEF RemoveRetiredFile, SinceRead
  <1>3. CASE CloseRetiredRow(s)
    BY <1>3 DEF CloseRetiredRow, SinceRead
  <1>4. CASE ReadForDeletion(s)
    BY <1>4 DEF ReadForDeletion, SinceRead
  <1>5. CASE MarkDeletion(s)
    BY <1>5 DEF MarkDeletion, RemovalGoesOn, SinceRead
  <1>6. CASE DiscardStaged(s)
    BY <1>6 DEF DiscardStaged, RemovalGoesOn, SinceRead
  <1>7. CASE DropElsewhere(s)
    BY <1>7 DEF DropElsewhere, SampleDrained, SinceRead
  <1>8. CASE RetireElsewhere(s)
    BY <1>8 DEF RetireElsewhere, SampleDrained, SinceRead
  <1>9. CASE CloseDeletion(s) \/ DeletionFails(s)
    BY <1>9 DEF CloseDeletion, DeletionFails, SinceRead
  <1>10. QED
    BY <1>1, <1>2, <1>3, <1>4, <1>5, <1>6, <1>7, <1>8, <1>9 DEF Elsewhere

\* The uploads, replacements and deletions of others.
LEMMA ElsewhereSound ==
  ASSUME RowsOnce, BulkInv, NEW s \in RowStudents, Elsewhere(s)
  PROVE  BulkInv'
  <1> USE DEF BulkInv, BatchTyped
  <1>1. /\ UNCHANGED <<batch, archive, report, trail, spoiled, overtaken>>
        /\ staged' \subseteq staged
        /\ sample' \in [RowStudents -> RowStatuses]
        /\ \A x \in RowStudents : Disturbed(x)
    BY ElsewhereDisturbs
  <1>2. BatchTyped'
    BY <1>1, RemovalTyped
  <1>3. RowsAhead'
    BY <1>1, RowOfStudent DEF RowsAhead, Untouched, Disturbed
  <1>4. RowAtHand'
    <2>1. batch.pc \in Executing => CurrentStudent \in RowStudents
      BY RowOfStudent DEF CurrentStudent
    <2>2. CurrentStudent' = CurrentStudent
      BY <1>1 DEF CurrentStudent
    <2>3. CASE batch.pc \in Executing
      <3>1. Disturbed(CurrentStudent) /\ CurrentStudent \in RowStudents
        BY <1>1, <2>1, <2>3
      <3>2. PICK c \in RowStudents : c = CurrentStudent
        BY <3>1
      <3>3. c = CurrentStudent'
        BY <2>2, <3>2
      <3>4. Disturbed(c)
        BY <3>1, <3>2
      <3>5. /\ batch.pc \in Executing => report[c] = "none"
            /\ batch.pc \in {"enroll", "insert"} => Untouched(c)
            /\ batch.pc \in {"promote", "drop_row"} =>
                  sample[c] \in {"absent", "pending"} /\ c \notin stored
            /\ batch.pc = "activate" =>
                  sample[c] \in {"absent", "pending"} /\ c \in stored /\ c \notin staged
            /\ batch.pc \in {"undo_file", "undo_row"} =>
                  c \in spoiled \/ sample[c] \in {"absent", "pending"}
            /\ batch.pc = "undo_row" => c \notin stored
        BY <3>2 DEF RowAtHand
      <3>6. sample[c] \in {"absent", "pending"} =>
               sample'[c] \in {sample[c], "absent"} /\ (c \in stored' <=> c \in stored)
        BY <3>4 DEF Disturbed
      <3>7. c \in stored' => c \in stored
        BY <3>4 DEF Disturbed
      <3>8. QED  BY <1>1, <3>3, <3>5, <3>6, <3>7 DEF RowAtHand, Untouched, Executing
    <2>4. CASE batch.pc \notin Executing
      BY <1>1, <2>4 DEF RowAtHand, Executing
    <2>5. QED  BY <2>3, <2>4
  <1>5. RowsReported'
    BY <1>1 DEF RowsReported, Disturbed
  <1>6. BatchAnswered'
    BY <1>1 DEF BatchAnswered, AllEnrolled, Disturbed
  <1>7. QED  BY <1>2, <1>3, <1>4, <1>5, <1>6, ElsewhereSinceRead

\* What the batch does to a row keeps what deletions have read of it.
LEMMA ReadsKept ==
  ASSUME BulkInv, UNCHANGED removal, overtaken \subseteq overtaken',
         \A s \in RowStudents :
            \/ sample'[s] = sample[s]
            \/ /\ sample[s] \in {"absent", "pending"}
               /\ \/ sample'[s] \in {"absent", "pending"}
                  \/ sample'[s] = "active" /\ (removal[s].saw = "pending" => s \in overtaken')
  PROVE  SinceRead'
  BY DEF BulkInv, SinceRead

\* The next row, or the end.
LEMMA NextRowSound ==
  ASSUME RowsOnce, BulkInv, NEW n \in Nat \ {0}
  PROVE  /\ NextRow(n).pc = "executed" \/ (NextRow(n).pc \in {"enroll", "insert"}
                                             /\ n \in DOMAIN Rows)
         /\ NextRow(n).at = n
         /\ NextRow(n) \in [pc : BulkPoints, at : Nat, valid : BOOLEAN, found : SUBSET RowStudents]
  BY RowOfStudent DEF NextRow, BulkInv, BatchTyped, BulkPoints

\* A row ends, as a failure or enrolled, with nothing left to say about it but what
\* the answer says; the others are as they were.
LEMMA RowEnds ==
  ASSUME RowsOnce, BulkInv, batch.pc \in Executing,
         batch' = NextRow(batch.at + 1),
         NEW outcome \in {"enrolled", "failed"}, Reported(outcome),
         UNCHANGED <<stored, trail, removal>>, overtaken \subseteq overtaken', SinceRead',
         sample' \in [RowStudents -> RowStatuses],
         \A s \in RowStudents : s # CurrentStudent => sample'[s] = sample[s],
         staged' \subseteq staged, spoiled \subseteq spoiled',
         outcome = "enrolled" => sample'[CurrentStudent] = "active" /\ CurrentStudent \in stored,
         outcome = "failed" => \/ CurrentStudent \in spoiled'
                               \/ /\ sample'[CurrentStudent] = "absent"
                                  /\ CurrentStudent \notin staged' \cup stored
  PROVE  BulkInv'
  <1> USE DEF BulkInv, BatchTyped
  <1>0. PICK c \in Nat : c = batch.at
    OBVIOUS
  <1>1. c \in 1 .. Len(Rows) /\ c \in Nat /\ CurrentStudent = Rows[c] /\ CurrentStudent \in RowStudents
    BY <1>0, RowOfStudent DEF CurrentStudent, Executing
  <1>2. /\ batch'.at = c + 1
        /\ batch' \in [pc : BulkPoints, at : Nat, valid : BOOLEAN, found : SUBSET RowStudents]
        /\ \/ batch'.pc = "executed"
           \/ batch'.pc \in {"enroll", "insert"} /\ c + 1 \in DOMAIN Rows
    BY <1>0, <1>1, NextRowSound
  <1>3. /\ report' \in [RowStudents -> {"none", "enrolled", "failed"}]
        /\ report'[CurrentStudent] = outcome
        /\ \A s \in RowStudents : s # CurrentStudent => report'[s] = report[s]
    BY <1>1 DEF Reported
  <1>4. BatchTyped'
    BY <1>2, <1>3 DEF Executing
  <1>5. \A i \in DOMAIN Rows : i > c => Untouched(Rows[i]) /\ Untouched(Rows[i])'
    <2> SUFFICES ASSUME NEW i \in DOMAIN Rows, i > c
                 PROVE  Untouched(Rows[i]) /\ Untouched(Rows[i])'
      OBVIOUS
    <2>1. Rows[i] \in RowStudents /\ Rows[i] # CurrentStudent
      BY <1>1, RowOfStudent
    <2>2. Untouched(Rows[i])
      BY <1>0 DEF RowsAhead
    <2>3. QED  BY <1>3, <2>1, <2>2 DEF Untouched
  <1>6. RowsAhead'
    BY <1>0, <1>1, <1>2, <1>5, RowOfStudent DEF RowsAhead, Preparing
  <1>7. RowAtHand'
    <2>1. CASE batch'.pc = "executed"
      BY <2>1 DEF RowAtHand, Executing
    <2>2. CASE batch'.pc \in {"enroll", "insert"} /\ c + 1 \in DOMAIN Rows
      <3>1. CurrentStudent' = Rows[c + 1]
        BY <1>2 DEF CurrentStudent
      <3>2. Untouched(Rows[c + 1])'
        BY <1>1, <1>5, <2>2
      <3>3. QED  BY <2>2, <3>1, <3>2 DEF RowAtHand, Untouched
    <2>3. QED  BY <1>2, <2>1, <2>2
  <1>8. RowsReported'
    BY <1>1, <1>3 DEF RowsReported
  <1>9. BatchAnswered'
    BY <1>2 DEF BatchAnswered, Executing
  <1>10. QED  BY <1>4, <1>6, <1>7, <1>8, <1>9

\* What the clean-up of a row, or an error in it, leaves: the next step of the same
\* row, about which nothing is reported.
LEMMA RowGoesOn ==
  ASSUME RowsOnce, BulkInv, batch.pc \in Executing,
         NEW pc \in Executing, NextPoint(pc),
         UNCHANGED <<report, trail, removal>>, overtaken \subseteq overtaken', SinceRead',
         sample' \in [RowStudents -> RowStatuses],
         \A s \in RowStudents : s # CurrentStudent =>
            sample'[s] = sample[s] /\ (s \in stored <=> s \in stored'),
         staged' \subseteq staged, spoiled \subseteq spoiled',
         pc \in {"enroll", "insert"} => sample'[CurrentStudent] = "absent" /\ CurrentStudent \notin stored',
         pc \in {"promote", "drop_row"} =>
            sample'[CurrentStudent] \in {"absent", "pending"} /\ CurrentStudent \notin stored',
         pc = "activate" =>
            /\ sample'[CurrentStudent] \in {"absent", "pending"}
            /\ CurrentStudent \in stored' /\ CurrentStudent \notin staged',
         pc \in {"undo_file", "undo_row"} =>
            CurrentStudent \in spoiled' \/ sample'[CurrentStudent] \in {"absent", "pending"},
         pc = "undo_row" => CurrentStudent \notin stored'
  PROVE  BulkInv'
  <1> USE DEF BulkInv, BatchTyped
  <1>0. PICK c \in Nat : c = batch.at
    OBVIOUS
  <1>1. c \in 1 .. Len(Rows) /\ CurrentStudent = Rows[c] /\ CurrentStudent \in RowStudents
    BY <1>0, RowOfStudent DEF CurrentStudent, Executing
  <1>2. /\ batch' \in [pc : BulkPoints, at : Nat, valid : BOOLEAN, found : SUBSET RowStudents]
        /\ batch'.pc = pc /\ batch'.at = c
    BY <1>0 DEF NextPoint, BulkPoints, Executing
  <1>3. CurrentStudent' = CurrentStudent
    BY <1>0, <1>2 DEF CurrentStudent
  <1>4. BatchTyped'
    BY <1>1, <1>2, RowOfStudent DEF Executing
  <1>5. RowsAhead'
    <2>1. \A i \in DOMAIN Rows : i > c => Rows[i] \in RowStudents /\ Rows[i] # CurrentStudent
      BY <1>1, RowOfStudent
    <2>2. \A i \in DOMAIN Rows : i > c => Untouched(Rows[i])
      BY <1>0 DEF RowsAhead
    <2>3. QED  BY <1>2, <2>1, <2>2 DEF RowsAhead, Untouched, Preparing, Executing
  <1>6. RowAtHand'
    BY <1>2, <1>3 DEF RowAtHand, Untouched, Executing
  <1>7. RowsReported'
    BY <1>1 DEF RowsReported, RowAtHand
  <1>8. BatchAnswered'
    BY <1>2 DEF BatchAnswered, Executing
  <1>9. QED  BY <1>4, <1>5, <1>6, <1>7, <1>8

\* The validation phase stores nothing and inserts no row.
LEMMA ValidationSound ==
  ASSUME RowsOnce, BulkInv, ReceiveArchive \/ CheckArchive \/ PrepareRow \/ RejectArchive \/ Accept
  PROVE  BulkInv'
  <1> USE DEF BulkInv, BatchTyped, database, files, answer, elsewhere
  <1>0. SinceRead' /\ UNCHANGED <<removal, sample, stored>>
    BY ReadsKept DEF ReceiveArchive, CheckArchive, PrepareRow, RejectArchive, Accept
  <1>1. CASE ReceiveArchive
    BY <1>0, <1>1 DEF ReceiveArchive, NextPoint, BulkPoints, Preparing, Executing, RowsAhead, RowAtHand,
                RowsReported, BatchAnswered, Untouched
  <1>2. CASE CheckArchive
    <2>1. CASE /\ batch' = [pc |-> "prepare", at |-> 1, valid |-> TRUE, found |-> {}]
               /\ UNCHANGED <<files, answer>>
      BY <1>0, <1>2, <2>1 DEF CheckArchive, BulkPoints, Preparing, Executing, RowsAhead,
                        RowAtHand, RowsReported, BatchAnswered, Untouched
    <2>2. CASE /\ NextPoint("broken") /\ Audit("blocked") /\ archive' = FALSE
               /\ UNCHANGED <<staged, stored, report, spoiled>>
      <3>1. /\ batch' \in [pc : BulkPoints, at : Nat, valid : BOOLEAN, found : SUBSET RowStudents]
            /\ batch'.pc = "broken"
        BY <2>2 DEF NextPoint, BulkPoints
      <3>2. trail' # "success"
        BY <1>2, <2>2 DEF CheckArchive, Audit, BatchAnswered
      <3>3. BatchTyped' /\ RowsAhead' /\ RowAtHand' /\ RowsReported' /\ BatchAnswered'
        BY <1>2, <2>2, <3>1, <3>2
           DEF CheckArchive, Preparing, Executing, RowsAhead, RowAtHand, RowsReported,
               BatchAnswered, Untouched
      <3>4. QED  BY <1>0, <3>3
    <2>3. QED  BY <1>2, <2>1, <2>2 DEF CheckArchive
  <1>3. CASE PrepareRow
    <2>1. batch.at \in 1 .. Len(Rows) /\ CurrentStudent \in RowStudents
      BY <1>3, RowOfStudent DEF PrepareRow, CurrentStudent
    <2>2. /\ batch' \in [pc : BulkPoints, at : Nat, valid : BOOLEAN, found : SUBSET RowStudents]
          /\ batch'.pc = "prepare" /\ batch'.at = batch.at + 1
      <3>1. CASE RowDone(FALSE, {})
        BY <2>1, <3>1 DEF RowDone, BulkPoints
      <3>2. CASE RowDone(TRUE, IF enrollment[CurrentStudent] = "absent" THEN {} ELSE {CurrentStudent})
        BY <2>1, <3>2 DEF RowDone, BulkPoints
      <3>3. QED  BY <1>3, <3>1, <3>2 DEF PrepareRow
    <2>3. QED
      BY <1>0, <1>3, <2>2 DEF PrepareRow, Preparing, Executing, RowsAhead, RowAtHand,
                        RowsReported, BatchAnswered, Untouched
  <1>4. CASE RejectArchive
    BY <1>0, <1>4 DEF RejectArchive, NextPoint, Audit, BulkPoints, Preparing, Executing, RowsAhead, RowAtHand,
                RowsReported, BatchAnswered, Untouched
  <1>5. CASE Accept
    <2>1. /\ batch' = NextRow(1) /\ batch.pc = "prepare"
          /\ UNCHANGED <<enrollment, sample, rival, staged, stored, archive, report, trail,
                         spoiled>>
      BY <1>5 DEF Accept
    <2>2. /\ batch' \in [pc : BulkPoints, at : Nat, valid : BOOLEAN, found : SUBSET RowStudents]
          /\ batch'.at = 1
          /\ \/ batch'.pc = "executed"
             \/ batch'.pc \in {"enroll", "insert"} /\ 1 \in DOMAIN Rows
      BY <2>1, NextRowSound
    <2>3. \A s \in RowStudents : Untouched(s)
      BY <2>1 DEF RowsAhead, Preparing
    <2>4. BatchTyped' /\ RowsAhead' /\ RowAtHand'
      BY <1>0, <2>1, <2>2, <2>3, RowOfStudent
         DEF RowsAhead, RowAtHand, Untouched, CurrentStudent, Preparing, Executing
    <2>5. RowsReported' /\ BatchAnswered'
      BY <2>1, <2>2, <2>3 DEF RowsReported, BatchAnswered, Untouched
    <2>6. QED  BY <1>0, <2>4, <2>5
  <1>6. QED  BY <1>1, <1>2, <1>3, <1>4, <1>5

\* The steps of a row: each goes on with it or ends it.
LEMMA RowStepSound ==
  ASSUME RowsOnce, BulkInv,
         \/ CreateEnrollment \/ InsertRow \/ Promote \/ DropRow \/ ActivateRow
         \/ UndoFile \/ UndoRow \/ LostAcknowledgement
  PROVE  BulkInv'
  <1> USE DEF BulkInv, BatchTyped, database, files, answer, elsewhere
  <1>1. batch.pc \in Executing
    BY DEF CreateEnrollment, InsertRow, Promote, DropRow, ActivateRow, UndoFile, UndoRow,
           LostAcknowledgement, Executing
  <1>2. CurrentStudent \in RowStudents
    BY <1>1, RowOfStudent DEF CurrentStudent
  <1>0. SinceRead'
    <2>1. CASE CreateEnrollment \/ Promote \/ UndoFile
      BY <2>1, ReadsKept DEF CreateEnrollment, Promote, UndoFile
    <2>2. CASE InsertRow
      BY <1>2, <2>2, ReadsKept DEF InsertRow, RowAtHand, Untouched
    <2>3. CASE DropRow
      BY <1>2, <2>3, ReadsKept DEF DropRow, RowAtHand
    <2>4. CASE UndoRow
      BY <1>2, <2>4, ReadsKept DEF UndoRow
    <2>5. CASE ActivateRow
      <3>1. CASE UNCHANGED <<sample, overtaken>>
        BY <2>5, <3>1, ReadsKept DEF ActivateRow
      <3>2. CASE Activated
        BY <1>2, <2>5, <3>2, ReadsKept DEF ActivateRow, Activated, RowAtHand
      <3>3. QED  BY <2>5, <3>1, <3>2 DEF ActivateRow
    <2>6. CASE LostAcknowledgement
      <3>1. CASE batch.pc = "enroll"
        BY <2>6, <3>1, ReadsKept DEF LostAcknowledgement
      <3>2. CASE batch.pc = "insert"
        BY <1>2, <2>6, <3>2, ReadsKept DEF LostAcknowledgement, RowAtHand, Untouched
      <3>3. CASE batch.pc = "activate"
        BY <1>2, <2>6, <3>3, ReadsKept DEF LostAcknowledgement, Activated, RowAtHand
      <3>4. QED  BY <2>6, <3>1, <3>2, <3>3 DEF LostAcknowledgement
    <2>7. QED  BY <2>1, <2>2, <2>3, <2>4, <2>5, <2>6
  <1>3. CASE CreateEnrollment
    <2>1. CASE NextPoint("insert") /\ UNCHANGED <<staged, report>>
      BY <1>0, <1>1, <1>2, <1>3, <2>1, RowGoesOn DEF CreateEnrollment, RowAtHand, Untouched, Executing
    <2>2. CASE RowFailed
      BY <1>0, <1>1, <1>2, <1>3, <2>2, RowEnds DEF CreateEnrollment, RowFailed, RowAtHand, Untouched
    <2>3. QED  BY <1>3, <2>1, <2>2 DEF CreateEnrollment
  <1>4. CASE InsertRow
    <2>1. CASE NextPoint("promote") /\ sample' = [sample EXCEPT ![CurrentStudent] = "pending"]
                               /\ UNCHANGED <<staged, report>>
      BY <1>0, <1>1, <1>2, <1>4, <2>1, RowGoesOn DEF InsertRow, RowAtHand, Untouched, Executing, RowStatuses
    <2>2. CASE RowFailed /\ UNCHANGED sample
      BY <1>0, <1>1, <1>2, <1>4, <2>2, RowEnds DEF InsertRow, RowFailed, RowAtHand, Untouched
    <2>3. QED  BY <1>4, <2>1, <2>2 DEF InsertRow
  <1>5. CASE Promote
    <2>1. CASE CurrentStudent \in staged
      BY <1>0, <1>1, <1>2, <1>5, <2>1, RowGoesOn DEF Promote, RowAtHand, Executing
    <2>2. CASE CurrentStudent \notin staged
      BY <1>0, <1>1, <1>2, <1>5, <2>2, RowGoesOn DEF Promote, RowAtHand, Executing
    <2>3. QED  BY <2>1, <2>2
  <1>6. CASE DropRow
    BY <1>0, <1>1, <1>2, <1>6, RowEnds DEF DropRow, RowFailed, RowAtHand, RowStatuses
  <1>7. CASE ActivateRow
    <2>1. CASE ActivationRefused /\ NextPoint("undo_file") /\ UNCHANGED <<sample, overtaken, report>>
      BY <1>0, <1>1, <1>2, <1>7, <2>1, RowGoesOn DEF ActivateRow, RowAtHand, Executing
    <2>2. CASE ~ActivationRefused /\ Activated /\ Reported("enrolled") /\ batch' = NextRow(batch.at + 1)
      BY <1>0, <1>1, <1>2, <1>7, <2>2, RowEnds DEF ActivateRow, Activated, RowAtHand, RowStatuses
    <2>3. QED  BY <1>7, <2>1, <2>2 DEF ActivateRow
  <1>8. CASE UndoFile
    BY <1>0, <1>1, <1>2, <1>8, RowGoesOn DEF UndoFile, RowAtHand, Executing
  <1>9. CASE UndoRow
    BY <1>0, <1>1, <1>2, <1>9, RowEnds DEF UndoRow, RowFailed, RowAtHand, RowStatuses
  <1>10. CASE LostAcknowledgement
    <2>1. CASE batch.pc = "enroll"
      BY <1>0, <1>1, <1>2, <1>10, <2>1, RowEnds DEF LostAcknowledgement, RowFailed, RowAtHand, Untouched
    <2>2. CASE batch.pc = "insert"
      BY <1>0, <1>1, <1>2, <1>10, <2>2, RowEnds DEF LostAcknowledgement, RowFailed, RowStatuses
    <2>3. CASE batch.pc = "activate"
      BY <1>0, <1>1, <1>2, <1>10, <2>3, RowGoesOn
         DEF LostAcknowledgement, Activated, RowAtHand, Executing, RowStatuses
    <2>4. QED  BY <1>10, <2>1, <2>2, <2>3 DEF LostAcknowledgement
  <1>11. QED
    BY <1>3, <1>4, <1>5, <1>6, <1>7, <1>8, <1>9, <1>10

\* The failures, and the end of the batch.
LEMMA FailureSound ==
  ASSUME RowsOnce, BulkInv, DatabaseError \/ FileError \/ Break \/ Finish
  PROVE  BulkInv'
  <1> USE DEF BulkInv, BatchTyped, database, files, answer, elsewhere
  <1>1. batch.pc \in Executing => CurrentStudent \in RowStudents
    BY RowOfStudent DEF CurrentStudent
  <1>0. SinceRead'
    BY ReadsKept DEF DatabaseError, FileError, Break, Finish
  <1>2. CASE DatabaseError
    <2>1. CASE batch.pc \in {"enroll", "insert"}
      BY <1>0, <1>1, <1>2, <2>1, RowEnds DEF DatabaseError, RowFailed, RowAtHand, Untouched, Executing
    <2>2. CASE batch.pc \in {"drop_row", "undo_row"}
      BY <1>0, <1>1, <1>2, <2>2, RowEnds DEF DatabaseError, RowFailed, Executing
    <2>3. CASE batch.pc = "activate"
      BY <1>0, <1>1, <1>2, <2>3, RowGoesOn DEF DatabaseError, RowAtHand, Executing
    <2>4. QED  BY <1>2, <2>1, <2>2, <2>3 DEF DatabaseError
  <1>3. CASE FileError
    <2>1. CASE batch.pc = "promote" /\ NextPoint("drop_row") /\ UNCHANGED <<staged, report, spoiled>>
      BY <1>0, <1>1, <1>3, <2>1, RowGoesOn DEF FileError, RowAtHand, Executing
    <2>2. CASE batch.pc = "undo_file" /\ RowFailed /\ spoiled' = spoiled \cup {CurrentStudent}
      BY <1>0, <1>1, <1>3, <2>2, RowEnds DEF FileError, RowFailed, Executing
    <2>3. QED  BY <1>3, <2>1, <2>2 DEF FileError
  <1>4. CASE Break
    BY <1>0, <1>4 DEF Break, NextPoint, BulkPoints, Preparing, Executing, RowsAhead, RowAtHand,
                RowsReported, BatchAnswered, AllEnrolled
  <1>5. CASE Finish
    BY <1>0, <1>5 DEF Finish, Audit, Preparing, Executing, RowsAhead, RowAtHand,
                RowsReported, BatchAnswered, AllEnrolled
  <1>6. QED  BY <1>2, <1>3, <1>4, <1>5

LEMMA NextKeepsBulkInv ==
  ASSUME RowsOnce PROVE BulkInv /\ [BulkNext]_bulkVars => BulkInv'
  <1> SUFFICES ASSUME BulkInv, [BulkNext]_bulkVars PROVE BulkInv'
    OBVIOUS
  <1>1. CASE UNCHANGED bulkVars
    BY <1>1 DEF bulkVars, BulkInv, BatchTyped, RowsAhead, RowAtHand, RowsReported, SinceRead,
                BatchAnswered, Untouched, CurrentStudent, AllEnrolled
  <1>2. CASE BulkNext
    BY <1>2, ValidationSound, RowStepSound, FailureSound, ElsewhereSound DEF BulkNext, BatchNext
  <1>3. QED  BY <1>1, <1>2

\* A row reported as enrolled has its row and its file until a replacement or a deletion
\* retires them, or a deletion that read the row before its activation drops it; a batch
\* audited as a success enrolled every row.
THEOREM ReportsHold ==
  ASSUME RowsOnce PROVE BulkSpec => []ReportHolds
  <1>1. BulkInv => ReportHolds
    BY DEF BulkInv, RowsReported, BatchAnswered, ReportHolds
  <1>2. QED  BY <1>1, InitBulkInv, NextKeepsBulkInv, PTL DEF BulkSpec

\* A rejected batch and a failed row leave neither a row nor a file behind, unless the
\* clean-up itself failed or a commit took place that the batch was not told of.
THEOREM FailuresLeaveNothing ==
  ASSUME RowsOnce PROVE BulkSpec => []FailureLeavesNothing
  <1>1. BulkInv => FailureLeavesNothing
    BY DEF BulkInv, RowsReported, BatchAnswered, FailureLeavesNothing
  <1>2. QED  BY <1>1, InitBulkInv, NextKeepsBulkInv, PTL DEF BulkSpec
=============================================================================
