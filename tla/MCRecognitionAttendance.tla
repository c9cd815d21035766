----------------------- MODULE MCRecognitionAttendance -----------------------
(***************************************************************************)
(* Instances of RecognitionAttendance for TLC.                             *)
(***************************************************************************)
EXTENDS RecognitionAttendance, TLC

CONSTANTS s1, s2

\* Batches that mark both students, in both orders.
BothOrders(status) ==
    {<<[student |-> s, status |-> status], [student |-> t, status |-> status]>> :
        <<s, t>> \in {<<s1, s2>>, <<s2, s1>>}}

AbsentBatches  == BothOrders("absent")
PresentBatches == BothOrders("present")

Interchangeable == Permutations(Requests)
=============================================================================
