-------------------------- MODULE MCEnrollmentHistory -------------------------
(***************************************************************************)
(* Instances of EnrollmentHistory for TLC.                                 *)
(***************************************************************************)
EXTENDS EnrollmentHistory, TLC

\* Keys, images and request slots are interchangeable.
Interchangeable == Permutations(Keys) \cup Permutations(Contents) \cup Permutations(Requests)
===============================================================================
