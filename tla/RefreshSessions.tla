--------------------------- MODULE RefreshSessions ---------------------------
(***************************************************************************)
(* The refresh sessions of one user (AuthService): login, rotation, reuse  *)
(* detection and logout as concurrent PostgreSQL transactions at READ      *)
(* COMMITTED.  The variables are the committed rows; what a transaction    *)
(* wrote appears when it commits, what it locked others wait for.  A       *)
(* session row is identified with its token.                               *)
(***************************************************************************)
EXTENDS Naturals, FiniteSets

CONSTANTS
    Requests,  \* request slots: how many requests can be in flight at once
    Tokens,    \* refresh tokens; bounds the number of sessions ever issued
    None       \* no token

ASSUME NoneAssumption == None \notin Tokens
ASSUME TokensAssumption == IsFiniteSet(Tokens)

VARIABLES
    issued,      \* tokens with a session row
    revoked,     \* tokens whose row has revoked_at
    replacedBy,  \* replaced_by_id of each row
    expired,     \* tokens whose expires_at has passed
    userActive,  \* is_active of the user
    req          \* what each request slot is doing

sessions == <<issued, revoked, replacedBy>>
vars     == <<issued, revoked, replacedBy, expired, userActive, req>>

(***************************************************************************)
(* A request: its program point, the token it was given, the rows its      *)
(* transaction has locked, and for a mass revocation the rows its UPDATE   *)
(* selected when it began.                                                 *)
(***************************************************************************)
Points == {"idle", "issue", "read_user", "rotate", "revoke_all", "revoking", "logout"}

Idle == [pc |-> "idle", token |-> None, locked |-> {}, scan |-> {}]

Init ==
    /\ issued = {} /\ revoked = {} /\ expired = {}
    /\ replacedBy = [t \in Tokens |-> None]
    /\ userActive = TRUE
    /\ req = [r \in Requests |-> Idle]

Live == issued \ revoked

\* A row lock is held until its transaction ends.
Unlocked(t, r) == \A q \in Requests \ {r} : t \notin req[q].locked

Goto(r, pc) == req' = [req EXCEPT ![r].pc = pc]

Finish(r) == req' = [req EXCEPT ![r] = Idle]

(***************************************************************************)
(* login.                                                                  *)
(***************************************************************************)
\* Wrong credentials and deactivated accounts change nothing.
StartLogin(r) ==
    /\ req[r].pc = "idle" /\ userActive
    /\ Goto(r, "issue")
    /\ UNCHANGED <<sessions, expired, userActive>>

IssueFirst(r) ==
    /\ req[r].pc = "issue"
    /\ \E c \in Tokens \ issued : issued' = issued \cup {c}
    /\ Finish(r)
    /\ UNCHANGED <<revoked, replacedBy, expired, userActive>>

(***************************************************************************)
(* refresh.  Whoever was ever given a token may present it at any time:    *)
(* the client, another tab, a retry after a lost response.                 *)
(***************************************************************************)
\* Mutant: the lookup reads the row without FOR UPDATE.
LookupWithoutLock(r, t) ==
    /\ req[r].pc = "idle" /\ t \in issued
    /\ \E pc \in {"revoke_all", "read_user"} :
          /\ pc = "revoke_all" => t \in revoked /\ replacedBy[t] # None
          /\ pc = "read_user"  => t \notin revoked /\ t \notin expired
          /\ req' = [req EXCEPT ![r] = [Idle EXCEPT !.pc = pc, !.token = t]]
    /\ UNCHANGED <<sessions, expired, userActive>>

\* SELECT ... FOR UPDATE waits for the row and then sees its latest version.  A
\* token that was revoked without a successor, or has expired, is refused.
Lookup(r, t) ==
    /\ req[r].pc = "idle" /\ t \in issued /\ Unlocked(t, r)
    /\ \E pc \in {"revoke_all", "read_user"} :
          /\ pc = "revoke_all" => t \in revoked /\ replacedBy[t] # None
          /\ pc = "read_user"  => t \notin revoked /\ t \notin expired
          /\ req' = [req EXCEPT ![r] = [Idle EXCEPT !.pc = pc, !.token = t, !.locked = {t}]]
    /\ UNCHANGED <<sessions, expired, userActive>>

ReadUser(r) ==
    /\ req[r].pc = "read_user"
    /\ IF userActive THEN Goto(r, "rotate") ELSE Finish(r)
    /\ UNCHANGED <<sessions, expired, userActive>>

\* Mutants: the old row is committed before the new one is inserted; the exchanged
\* token is linked to its successor but not revoked.
RotateBeforeInsert(r) ==
    /\ req[r].pc = "rotate"
    /\ \E c \in Tokens \ issued : replacedBy' = [replacedBy EXCEPT ![req[r].token] = c]
    /\ revoked' = revoked \cup {req[r].token}
    /\ Finish(r)
    /\ UNCHANGED <<issued, expired, userActive>>

RotateKeepingParent(r) ==
    /\ req[r].pc = "rotate"
    /\ \E c \in Tokens \ issued :
          /\ issued' = issued \cup {c}
          /\ replacedBy' = [replacedBy EXCEPT ![req[r].token] = c]
    /\ Finish(r)
    /\ UNCHANGED <<revoked, expired, userActive>>

\* The new row and the revocation of the old one become visible together.
Rotate(r) ==
    /\ req[r].pc = "rotate"
    /\ \E c \in Tokens \ issued :
          /\ issued' = issued \cup {c}
          /\ replacedBy' = [replacedBy EXCEPT ![req[r].token] = c]
    /\ revoked' = revoked \cup {req[r].token}
    /\ Finish(r)
    /\ UNCHANGED <<expired, userActive>>

(***************************************************************************)
(* Reuse detection: one UPDATE ... WHERE revoked_at IS NULL.  It selects   *)
(* rows in the snapshot taken when it begins, then locks each one, waiting *)
(* for whoever holds it, and leaves out a row that is revoked by then.     *)
(***************************************************************************)
RevokeScan(r) ==
    /\ req[r].pc = "revoke_all"
    /\ req' = [req EXCEPT ![r].pc = "revoking", ![r].scan = Live]
    /\ UNCHANGED <<sessions, expired, userActive>>

RevokeRow(r) ==
    /\ req[r].pc = "revoking"
    /\ \E t \in (req[r].scan \cap Live) \ req[r].locked :
          /\ Unlocked(t, r)
          /\ req' = [req EXCEPT ![r].locked = @ \cup {t}]
    /\ UNCHANGED <<sessions, expired, userActive>>

RevokeCommit(r) ==
    /\ req[r].pc = "revoking"
    /\ req[r].scan \cap Live \subseteq req[r].locked
    /\ revoked' = revoked \cup req[r].locked
    /\ Finish(r)
    /\ UNCHANGED <<issued, replacedBy, expired, userActive>>

(***************************************************************************)
(* logout: a plain read, then an UPDATE by primary key that waits for the  *)
(* row but does not look at it again.  replaced_by_id was read as null and *)
(* is assigned null, so the UPDATE leaves the column alone.                *)
(***************************************************************************)
StartLogout(r, t) ==
    /\ req[r].pc = "idle" /\ t \in Live
    /\ req' = [req EXCEPT ![r] = [Idle EXCEPT !.pc = "logout", !.token = t]]
    /\ UNCHANGED <<sessions, expired, userActive>>

\* Mutant: the UPDATE writes every column as it was read, the successor included.
LogoutUpdateAll(r) ==
    /\ req[r].pc = "logout" /\ Unlocked(req[r].token, r)
    /\ revoked' = revoked \cup {req[r].token}
    /\ replacedBy' = [replacedBy EXCEPT ![req[r].token] = None]
    /\ Finish(r)
    /\ UNCHANGED <<issued, expired, userActive>>

LogoutUpdate(r) ==
    /\ req[r].pc = "logout" /\ Unlocked(req[r].token, r)
    /\ revoked' = revoked \cup {req[r].token}
    /\ Finish(r)
    /\ UNCHANGED <<issued, replacedBy, expired, userActive>>

(***************************************************************************)
(* The environment.                                                        *)
(***************************************************************************)
\* A database error, a cancelled request, a crash: the transaction rolls back.
Abort(r) ==
    /\ req[r].pc # "idle"
    /\ Finish(r)
    /\ UNCHANGED <<sessions, expired, userActive>>

\* Lifetimes are equal, so a token expires before its successor.
Expire(t) ==
    /\ t \in issued \ expired
    /\ \A p \in issued : replacedBy[p] = t => p \in expired
    /\ expired' = expired \cup {t}
    /\ UNCHANGED <<sessions, userActive, req>>

SetUserActive ==
    /\ userActive' = ~userActive
    /\ UNCHANGED <<sessions, expired, req>>

Login(r) == StartLogin(r) \/ IssueFirst(r)

Refresh(r) ==
    \/ \E t \in Tokens : Lookup(r, t)
    \/ ReadUser(r) \/ Rotate(r) \/ RevokeScan(r) \/ RevokeRow(r) \/ RevokeCommit(r)

Logout(r) == (\E t \in Tokens : StartLogout(r, t)) \/ LogoutUpdate(r)

Next ==
    \/ \E r \in Requests : Login(r) \/ Refresh(r) \/ Logout(r) \/ Abort(r)
    \/ \E t \in Tokens : Expire(t)
    \/ SetUserActive

Spec == Init /\ [][Next]_vars

(***************************************************************************)
(* Properties.                                                             *)
(***************************************************************************)
Request == [pc : Points, token : Tokens \cup {None}, locked : SUBSET Tokens,
            scan : SUBSET Tokens]

\* Every variable has the shape the declarations above describe.
TypeOK ==
    /\ issued \subseteq Tokens /\ revoked \subseteq issued /\ expired \subseteq issued
    /\ replacedBy \in [Tokens -> issued \cup {None}]
    /\ userActive \in BOOLEAN
    /\ req \in [Requests -> Request]

\* The tokens handed out at a login are those no rotation produced.
Logins == {t \in issued : \A p \in Tokens : replacedBy[p] # t}

\* The user never has more sessions than logins: a token exchanged twice, or kept
\* after its exchange, would make two sessions out of one.
SessionsNeverMultiply == Cardinality(Live) <= Cardinality(Logins)

\* Reuse detection has "every active session for that user ... revoked, forcing a fresh
\* login everywhere": what is live after the answer was handed out at a login.
ReuseForcesLogin ==
    [][\A r \in Requests : RevokeCommit(r) => issued' \ revoked' \subseteq Logins]_vars

\* A rotated token stays recognisable: every token that was exchanged keeps its
\* successor on record, so presenting it again is always seen as reuse.
LineageKept ==
    [][\A t \in Tokens : replacedBy[t] # None => replacedBy'[t] = replacedBy[t]]_vars

Families == INSTANCE SessionFamilies WITH known <- issued, current <- Live, logins <- Logins

\* Concurrent logins, rotations, revocations and logouts, aborted anywhere, are
\* atomic steps of session families: each token is exchanged at most once, for one
\* successor, and a closed session is never continued.
ImplementsFamilies == Families!Spec
=============================================================================
