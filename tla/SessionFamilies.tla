--------------------------- MODULE SessionFamilies ---------------------------
(***************************************************************************)
(* What refresh sessions promise one user: every login opens one session,  *)
(* a session is represented by one token at a time, the token is exchanged *)
(* for a successor at most once, and what was given up never comes back.   *)
(* Requests, locks, expiry and failures are not visible at this level.     *)
(***************************************************************************)
CONSTANT Tokens

VARIABLES
    known,    \* tokens handed out so far
    current,  \* tokens that can be exchanged
    logins    \* tokens handed out at a login; one for every session ever opened

families == <<known, current, logins>>

Init == known = {} /\ current = {} /\ logins = {}

Open(c) ==
    /\ c \notin known
    /\ known' = known \cup {c} /\ current' = current \cup {c} /\ logins' = logins \cup {c}

Advance(t, c) ==
    /\ t \in current /\ c \notin known
    /\ known' = known \cup {c} /\ current' = (current \ {t}) \cup {c} /\ logins' = logins

\* Logout closes one session, reuse detection many.
Close(S) ==
    /\ S # {} /\ S \subseteq current
    /\ current' = current \ S /\ UNCHANGED <<known, logins>>

Next ==
    \/ \E c \in Tokens : Open(c) \/ \E t \in Tokens : Advance(t, c)
    \/ \E S \in SUBSET Tokens : Close(S)

Spec == Init /\ [][Next]_families
=============================================================================
