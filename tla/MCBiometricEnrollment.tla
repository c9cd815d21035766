------------------------ MODULE MCBiometricEnrollment ------------------------
(***************************************************************************)
(* Instances of BiometricEnrollment for TLC.                               *)
(***************************************************************************)
EXTENDS EnrollmentReconciliation, TLC

\* Keys, images and request slots are interchangeable.
Interchangeable == Permutations(Keys) \cup Permutations(Contents) \cup Permutations(Requests)
=============================================================================
