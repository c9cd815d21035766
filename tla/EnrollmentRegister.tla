-------------------------- MODULE EnrollmentRegister --------------------------
(***************************************************************************)
(* What biometric enrollment promises the rest of the system about one     *)
(* student: at any moment at most one image represents the student, it     *)
(* appears, changes and disappears atomically, and it disappears only      *)
(* after a deletion was requested.  Files, sample rows, requests and       *)
(* failures are not visible at this level.                                 *)
(***************************************************************************)
CONSTANTS Contents, None

VARIABLES
    phase,  \* the public status of the enrollment
    image   \* the image that represents the student, or None

register == <<phase, image>>

Init == phase = "absent" /\ image = None

\* The first upload opens the enrollment, whatever becomes of the upload.
Open == phase = "absent" /\ phase' = "pending" /\ image' = image

\* A first image, or a first one after a deletion; never while one is going on.
Enroll(c) ==
    /\ phase \in {"pending", "deleted"} /\ image = None
    /\ phase' = "active" /\ image' = c

\* The successor differs from the image it replaces.
Replace(c) ==
    /\ phase = "active" /\ image \notin {None, c}
    /\ image' = c /\ phase' = phase

RequestDeletion ==
    /\ phase \notin {"absent", "deletion_pending"}
    /\ phase' = "deletion_pending" /\ image' = image

Forget == phase = "deletion_pending" /\ image # None /\ image' = None /\ phase' = phase

Close == phase = "deletion_pending" /\ image = None /\ phase' = "deleted" /\ image' = image

Next ==
    \/ Open \/ RequestDeletion \/ Forget \/ Close
    \/ \E c \in Contents : Enroll(c) \/ Replace(c)

Spec == Init /\ [][Next]_register
=============================================================================
