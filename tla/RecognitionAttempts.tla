------------------------- MODULE RecognitionAttempts -------------------------
(***************************************************************************)
(* What a recognition attempt promises, whoever works on it and however    *)
(* their transactions interleave: it is decided once, it is settled at     *)
(* most once, on one student of the roster it was decided for, and never   *)
(* before that student has an attendance row.                              *)
(***************************************************************************)
CONSTANTS Attempts, Students, None

VARIABLES
    roster,   \* students the attempt was decided for; {} before that
    found,    \* the student the matcher found, if it found one
    settled,  \* the student whose attendance row the attempt points at
    attended  \* students with an attendance row

vars == <<roster, found, settled, attended>>

Init ==
    /\ roster = [a \in Attempts |-> {}]
    /\ found = [a \in Attempts |-> None]
    /\ settled = [a \in Attempts |-> None]
    /\ attended = {}

Decide(a) ==
    /\ roster[a] = {}
    /\ \E c \in (SUBSET Students) \ {{}} :
          /\ roster' = [roster EXCEPT ![a] = c]
          /\ \E s \in c \cup {None} : found' = [found EXCEPT ![a] = s]
    /\ UNCHANGED <<settled, attended>>

\* A found student is the only one the attempt can be settled on.
Settle(a, s) ==
    /\ settled[a] = None /\ s \in roster[a] \cap attended
    /\ found[a] \in {None, s}
    /\ settled' = [settled EXCEPT ![a] = s]
    /\ UNCHANGED <<roster, found, attended>>

Attend ==
    /\ attended' \in {attended \cup c : c \in SUBSET Students}
    /\ UNCHANGED <<roster, found, settled>>

Next ==
    \/ \E a \in Attempts : Decide(a) \/ \E s \in Students : Settle(a, s)
    \/ Attend

Spec == Init /\ [][Next]_vars
=============================================================================
