----------------------------- MODULE SessionProofs ----------------------------
(***************************************************************************)
(* Proofs about refresh tokens: on the server, and in the page that holds  *)
(* them.                                                                   *)
(***************************************************************************)
EXTENDS RefreshSessions, WebClient, FiniteSetTheorems, TLAPS

(***************************************************************************)
(* For every number of requests and tokens: concurrent refreshes, reuse    *)
(* detections and logouts implement session families.                      *)
(***************************************************************************)

\* A row is locked by one transaction at a time.
LocksExclusive ==
    \A q, r \in Requests : q # r => req[q].locked \cap req[r].locked = {}

\* Only an exchanged token has a successor, and an exchanged token is revoked.
ExchangedRevoked == \A t \in Tokens : replacedBy[t] # None => t \in revoked

\* What the point of a request says about the rows it works on.
RowsInHand(r) ==
    /\ req[r].locked \subseteq issued
    /\ req[r].pc \in {"read_user", "rotate"} => req[r].token \in Live \cap req[r].locked
    /\ req[r].pc = "logout" => req[r].token \in issued

IInv ==
    /\ TypeOK
    /\ LocksExclusive
    /\ ExchangedRevoked
    /\ \A r \in Requests : RowsInHand(r)

(***************************************************************************)
(* Helpers.                                                                *)
(***************************************************************************)
\* A request that ends gives up its locks.
LEMMA FinishReleases ==
    ASSUME TypeOK, NEW r \in Requests, Finish(r)
    PROVE  /\ req' \in [Requests -> Request]
           /\ req'[r] = Idle
           /\ \A q \in Requests \ {r} : req'[q] = req[q]
  BY DEF TypeOK, Finish, Idle, Request, Points

\* What others do to the rows a request holds: nothing.
RowsKept(r) ==
    /\ issued \subseteq issued'
    /\ \A q \in Requests \ {r} :
          req'[q] = req[q] /\ req[q].locked \cap (revoked' \ revoked) = {}

LEMMA OthersKept ==
    ASSUME IInv, NEW r \in Requests, RowsKept(r), NEW q \in Requests \ {r}
    PROVE  RowsInHand(q)'
  BY DEF IInv, RowsKept, RowsInHand, Live

\* A step that leaves the rows alone and takes no lock away from anybody.
LEMMA QuietStep ==
    ASSUME IInv, NEW r \in Requests, UNCHANGED sessions, expired' \subseteq issued,
           userActive' \in BOOLEAN,
           req' \in [Requests -> Request], \A q \in Requests \ {r} : req'[q] = req[q],
           \A q \in Requests \ {r} : req'[r].locked \cap req[q].locked = {},
           RowsInHand(r)'
    PROVE  IInv'
  <1>1. TypeOK'
    BY DEF IInv, TypeOK, sessions
  <1>2. LocksExclusive'
    BY DEF IInv, LocksExclusive
  <1>3. ExchangedRevoked'
    BY DEF IInv, ExchangedRevoked, sessions
  <1>4. RowsKept(r)
    BY DEF RowsKept, sessions
  <1>5. QED  BY <1>1, <1>2, <1>3, <1>4, OthersKept DEF IInv

\* A request that ends without having written anything.
LEMMA QuietFinish ==
    ASSUME IInv, NEW r \in Requests, Finish(r), UNCHANGED <<sessions, expired, userActive>>
    PROVE  IInv'
  <1>1. /\ req' \in [Requests -> Request] /\ req'[r] = Idle
        /\ \A q \in Requests \ {r} : req'[q] = req[q]
    BY FinishReleases DEF IInv
  <1>2. RowsInHand(r)'
    BY <1>1 DEF RowsInHand, Idle
  <1>3. expired' \subseteq issued /\ userActive' \in BOOLEAN
    BY DEF IInv, TypeOK
  <1>4. QED  BY <1>1, <1>2, <1>3, QuietStep DEF Idle

\* A request that ends with a commit: rows appear, rows are revoked that no other
\* transaction holds.
LEMMA CommitStep ==
    ASSUME IInv, NEW r \in Requests, Finish(r), UNCHANGED <<expired, userActive>>,
           issued \subseteq issued', issued' \subseteq Tokens,
           revoked \subseteq revoked', revoked' \subseteq issued',
           \A q \in Requests \ {r} : req[q].locked \cap (revoked' \ revoked) = {},
           replacedBy' \in [Tokens -> issued' \cup {None}],
           \A t \in Tokens : replacedBy'[t] # None => t \in revoked'
    PROVE  IInv'
  <1>1. /\ req' \in [Requests -> Request] /\ req'[r] = Idle
        /\ \A q \in Requests \ {r} : req'[q] = req[q]
    BY FinishReleases DEF IInv
  <1>2. TypeOK'
    BY <1>1 DEF IInv, TypeOK
  <1>3. LocksExclusive'
    BY <1>1 DEF IInv, LocksExclusive, Idle
  <1>4. ExchangedRevoked'
    BY DEF ExchangedRevoked
  <1>5. RowsInHand(r)'
    BY <1>1 DEF RowsInHand, Idle
  <1>6. RowsKept(r)
    BY <1>1 DEF RowsKept
  <1>7. QED  BY <1>2, <1>3, <1>4, <1>5, <1>6, OthersKept DEF IInv

(***************************************************************************)
(* The inductive step, one lemma per kind of request.                      *)
(***************************************************************************)
LEMMA LoginStep == ASSUME IInv, NEW r \in Requests, Login(r) PROVE IInv'
  <1>1. CASE StartLogin(r)
    <2>1. /\ req' \in [Requests -> Request] /\ req'[r] = [req[r] EXCEPT !.pc = "issue"]
          /\ \A q \in Requests \ {r} : req'[q] = req[q]
      BY <1>1 DEF StartLogin, Goto, IInv, TypeOK, Request, Points
    <2>2. RowsInHand(r)' /\ req'[r].locked = req[r].locked
      BY <1>1, <2>1 DEF StartLogin, IInv, TypeOK, Request, RowsInHand, sessions
    <2>3. QED
      BY <1>1, <2>1, <2>2, QuietStep DEF StartLogin, IInv, TypeOK, LocksExclusive, sessions
  <1>2. CASE IssueFirst(r)
    <2>1. PICK c \in Tokens \ issued : issued' = issued \cup {c}
      BY <1>2 DEF IssueFirst
    <2>2. QED
      BY <1>2, <2>1, CommitStep DEF IssueFirst, IInv, TypeOK, ExchangedRevoked
  <1>3. QED  BY <1>1, <1>2 DEF Login

LEMMA LookupStep ==
    ASSUME IInv, NEW r \in Requests, NEW t \in Tokens, Lookup(r, t) PROVE IInv'
  <1>1. PICK pc \in {"revoke_all", "read_user"} :
           /\ pc = "read_user"  => t \notin revoked
           /\ req' = [req EXCEPT ![r] = [Idle EXCEPT !.pc = pc, !.token = t, !.locked = {t}]]
    BY DEF Lookup
  <1>2. /\ req' \in [Requests -> Request]
        /\ req'[r] = [Idle EXCEPT !.pc = pc, !.token = t, !.locked = {t}]
        /\ \A q \in Requests \ {r} : req'[q] = req[q]
    BY <1>1 DEF IInv, TypeOK, Request, Points, Idle
  <1>3. RowsInHand(r)'
    BY <1>1, <1>2 DEF Lookup, RowsInHand, Live, sessions, Idle
  <1>4. \A q \in Requests \ {r} : req'[r].locked \cap req[q].locked = {}
    BY <1>2 DEF Lookup, Unlocked, Idle
  <1>5. QED
    BY <1>2, <1>3, <1>4, QuietStep DEF Lookup, IInv, TypeOK, sessions

LEMMA RotateStep ==
    ASSUME IInv, NEW r \in Requests, Rotate(r) PROVE IInv'
  <1> DEFINE t == req[r].token
  <1>1. PICK c \in Tokens \ issued :
           issued' = issued \cup {c} /\ replacedBy' = [replacedBy EXCEPT ![t] = c]
    BY DEF Rotate
  <1>2. t \in Live /\ t \in req[r].locked /\ t \in Tokens
    BY DEF Rotate, IInv, RowsInHand, Live, TypeOK
  <1>3. revoked' = revoked \cup {t}
    BY DEF Rotate
  <1>4. \A q \in Requests \ {r} : req[q].locked \cap (revoked' \ revoked) = {}
    BY <1>2, <1>3 DEF IInv, LocksExclusive
  <1>5. replacedBy' \in [Tokens -> issued' \cup {None}]
    BY <1>1 DEF IInv, TypeOK
  <1>6. \A u \in Tokens : replacedBy'[u] # None => u \in revoked'
    BY <1>1, <1>3 DEF IInv, TypeOK, ExchangedRevoked
  <1>7. QED
    BY <1>1, <1>2, <1>3, <1>4, <1>5, <1>6, CommitStep DEF Rotate, IInv, TypeOK, Live

LEMMA RefreshStep == ASSUME IInv, NEW r \in Requests, Refresh(r) PROVE IInv'
  <1>1. CASE \E t \in Tokens : Lookup(r, t)
    BY <1>1, LookupStep
  <1>2. CASE ReadUser(r)
    <2>1. CASE Finish(r)
      BY <1>2, <2>1, QuietFinish DEF ReadUser
    <2>2. CASE Goto(r, "rotate")
      <3>1. /\ req' \in [Requests -> Request] /\ req'[r] = [req[r] EXCEPT !.pc = "rotate"]
            /\ \A q \in Requests \ {r} : req'[q] = req[q]
        BY <2>2 DEF Goto, IInv, TypeOK, Request, Points
      <3>2. RowsInHand(r)' /\ req'[r].locked = req[r].locked
        BY <1>2, <3>1 DEF ReadUser, IInv, TypeOK, Request, RowsInHand, Live, sessions
      <3>3. QED
        BY <1>2, <3>1, <3>2, QuietStep DEF ReadUser, IInv, TypeOK, LocksExclusive, sessions
    <2>3. QED  BY <1>2, <2>1, <2>2 DEF ReadUser
  <1>3. CASE Rotate(r)
    BY <1>3, RotateStep
  <1>4. CASE RevokeScan(r)
    <2>1. Live \in SUBSET Tokens
      BY DEF IInv, TypeOK, Live
    <2>2. /\ req' \in [Requests -> Request]
          /\ req'[r] = [req[r] EXCEPT !.pc = "revoking", !.scan = Live]
          /\ \A q \in Requests \ {r} : req'[q] = req[q]
      BY <1>4, <2>1, ZenonT(40) DEF RevokeScan, IInv, TypeOK, Request, Points
    <2>3. RowsInHand(r)' /\ req'[r].locked = req[r].locked
      BY <1>4, <2>2 DEF RevokeScan, IInv, TypeOK, Request, RowsInHand, sessions
    <2>4. QED
      BY <1>4, <2>2, <2>3, QuietStep DEF RevokeScan, IInv, TypeOK, LocksExclusive, sessions
  <1>5. CASE RevokeRow(r)
    <2>1. PICK t \in req[r].scan \cap Live :
             Unlocked(t, r) /\ req' = [req EXCEPT ![r].locked = @ \cup {t}]
      BY <1>5 DEF RevokeRow
    <2>2. /\ req' \in [Requests -> Request]
          /\ req'[r] = [req[r] EXCEPT !.locked = @ \cup {t}]
          /\ \A q \in Requests \ {r} : req'[q] = req[q]
      BY <2>1 DEF IInv, TypeOK, Request, Live
    <2>3. req'[r].locked = req[r].locked \cup {t} /\ req'[r].pc = "revoking"
      BY <1>5, <2>2 DEF RevokeRow, IInv, TypeOK, Request
    <2>4. RowsInHand(r)'
      BY <1>5, <2>1, <2>3 DEF RevokeRow, IInv, RowsInHand, Live, sessions
    <2>5. \A q \in Requests \ {r} : req'[r].locked \cap req[q].locked = {}
      BY <2>1, <2>3 DEF IInv, LocksExclusive, Unlocked
    <2>6. QED
      BY <1>5, <2>2, <2>4, <2>5, QuietStep DEF RevokeRow, IInv, TypeOK, sessions
  <1>6. CASE RevokeCommit(r)
    <2>1. \A q \in Requests \ {r} : req[q].locked \cap (revoked' \ revoked) = {}
      BY <1>6 DEF RevokeCommit, IInv, LocksExclusive
    <2>2. req[r].locked \subseteq issued
      BY DEF IInv, RowsInHand
    <2>3. QED
      BY <1>6, <2>1, <2>2, CommitStep DEF RevokeCommit, IInv, TypeOK, ExchangedRevoked
  <1>7. QED  BY <1>1, <1>2, <1>3, <1>4, <1>5, <1>6 DEF Refresh

LEMMA LogoutStep == ASSUME IInv, NEW r \in Requests, Logout(r) PROVE IInv'
  <1>1. ASSUME NEW t \in Tokens, StartLogout(r, t) PROVE IInv'
    <2>1. /\ req' \in [Requests -> Request]
          /\ req'[r] = [Idle EXCEPT !.pc = "logout", !.token = t]
          /\ \A q \in Requests \ {r} : req'[q] = req[q]
      BY <1>1 DEF StartLogout, IInv, TypeOK, Request, Points, Idle
    <2>2. RowsInHand(r)' /\ req'[r].locked = {}
      BY <1>1, <2>1 DEF StartLogout, RowsInHand, Live, sessions, Idle
    <2>3. QED
      BY <1>1, <2>1, <2>2, QuietStep DEF StartLogout, IInv, TypeOK, sessions
  <1>2. CASE LogoutUpdate(r)
    <2>1. \A q \in Requests \ {r} : req[q].locked \cap (revoked' \ revoked) = {}
      BY <1>2 DEF LogoutUpdate, Unlocked
    <2>2. req[r].token \in issued
      BY <1>2 DEF LogoutUpdate, IInv, RowsInHand
    <2>3. QED
      BY <1>2, <2>1, <2>2, CommitStep DEF LogoutUpdate, IInv, TypeOK, ExchangedRevoked
  <1>3. QED  BY <1>1, <1>2 DEF Logout

\* Expiry and deactivation touch no row the invariant speaks of.
LEMMA EnvironmentStep ==
    ASSUME IInv, UNCHANGED <<sessions, req>>, expired' \subseteq issued, userActive' \in BOOLEAN
    PROVE  IInv'
  BY DEF IInv, TypeOK, LocksExclusive, ExchangedRevoked, RowsInHand, Live, sessions

LEMMA IInvInit == Init => IInv
  BY DEF Init, IInv, TypeOK, LocksExclusive, ExchangedRevoked, RowsInHand, Live, Idle,
         Request, Points

LEMMA IInvStep == IInv /\ [Next]_vars => IInv'
  <1> SUFFICES ASSUME IInv, [Next]_vars PROVE IInv'
    OBVIOUS
  <1>1. ASSUME NEW r \in Requests, Login(r) PROVE IInv'
    BY <1>1, LoginStep
  <1>2. ASSUME NEW r \in Requests, Refresh(r) PROVE IInv'
    BY <1>2, RefreshStep
  <1>3. ASSUME NEW r \in Requests, Logout(r) PROVE IInv'
    BY <1>3, LogoutStep
  <1>4. ASSUME NEW r \in Requests, Abort(r) PROVE IInv'
    BY <1>4, QuietFinish DEF Abort
  <1>5. ASSUME NEW t \in Tokens, Expire(t) PROVE IInv'
    BY <1>5, EnvironmentStep DEF Expire, IInv, TypeOK, sessions
  <1>6. CASE SetUserActive
    BY <1>6, EnvironmentStep DEF SetUserActive, IInv, TypeOK, sessions
  <1>7. CASE UNCHANGED vars
    BY <1>7, EnvironmentStep DEF vars, IInv, TypeOK, sessions
  <1>8. QED  BY <1>1, <1>2, <1>3, <1>4, <1>5, <1>6, <1>7 DEF Next

LEMMA Invariance == Spec => []IInv
  BY IInvInit, IInvStep, PTL DEF Spec

\* Every variable keeps its type.
THEOREM SessionsTypeCorrect == Spec => []TypeOK
  <1>1. IInv => TypeOK
    BY DEF IInv
  <1>2. QED  BY Invariance, <1>1, PTL

(***************************************************************************)
(* Lineage and refinement.                                                 *)
(***************************************************************************)
\* The successor of an exchanged token is on record for good: refresh links a token
\* under its row lock, and no other statement writes replaced_by_id.
THEOREM LineageIsKept == Spec => LineageKept
  <1>1. ASSUME IInv, [Next]_vars, NEW t \in Tokens, replacedBy[t] # None
        PROVE  replacedBy'[t] = replacedBy[t]
    <2>1. ASSUME NEW r \in Requests, Rotate(r) PROVE replacedBy'[t] = replacedBy[t]
      <3>1. t # req[r].token
        BY <1>1, <2>1 DEF Rotate, IInv, ExchangedRevoked, RowsInHand, Live
      <3>2. QED  BY <1>1, <2>1, <3>1 DEF Rotate, IInv, TypeOK
    <2>2. CASE UNCHANGED replacedBy
      BY <2>2
    <2>3. QED
      BY <1>1, <2>1, <2>2
      DEF Next, vars, sessions, Login, Refresh, Logout, StartLogin, IssueFirst, Lookup,
          ReadUser, RevokeScan, RevokeRow, RevokeCommit, StartLogout, LogoutUpdate, Abort,
          Expire, SetUserActive
  <1>2. IInv /\ [Next]_vars =>
           [\A t \in Tokens : replacedBy[t] # None => replacedBy'[t] = replacedBy[t]]_vars
    BY <1>1
  <1>3. QED  BY Invariance, <1>2, PTL DEF Spec, LineageKept

\* Revoking rows closes their sessions, or nothing when they were closed already.
LEMMA RevokingCloses ==
    ASSUME TypeOK, NEW S \in SUBSET Tokens, revoked' = revoked \cup S,
           UNCHANGED <<issued, replacedBy>>
    PROVE  [Families!Next]_(Families!families)
  <1>1. Live' = Live \ (S \cap Live) /\ Logins' = Logins
    BY DEF Live, Logins
  <1>2. CASE S \cap Live = {}
    BY <1>1, <1>2 DEF Families!families
  <1>3. CASE S \cap Live # {}
    <2>1. Families!Close(S \cap Live)
      BY <1>1, <1>3 DEF Families!Close
    <2>2. QED  BY <2>1 DEF Families!Next
  <1>4. QED  BY <1>2, <1>3

LEMMA StepImplements == IInv /\ [Next]_vars => [Families!Next]_(Families!families)
  <1> SUFFICES ASSUME IInv, [Next]_vars PROVE [Families!Next]_(Families!families)
    OBVIOUS
  <1>1. ASSUME NEW r \in Requests, IssueFirst(r) PROVE [Families!Next]_(Families!families)
    <2>1. PICK c \in Tokens \ issued : issued' = issued \cup {c}
      BY <1>1 DEF IssueFirst
    <2>2. Live' = Live \cup {c}
      BY <1>1, <2>1 DEF IssueFirst, Live, IInv, TypeOK
    <2>3. Logins' = Logins \cup {c}
      BY <1>1, <2>1, NoneAssumption DEF IssueFirst, Logins, IInv, TypeOK
    <2>4. Families!Open(c)
      BY <2>1, <2>2, <2>3 DEF Families!Open
    <2>5. QED  BY <2>4 DEF Families!Next
  <1>2. ASSUME NEW r \in Requests, Rotate(r) PROVE [Families!Next]_(Families!families)
    <2> DEFINE t == req[r].token
    <2>1. PICK c \in Tokens \ issued :
             issued' = issued \cup {c} /\ replacedBy' = [replacedBy EXCEPT ![t] = c]
      BY <1>2 DEF Rotate
    <2>2. t \in Live /\ t \in Tokens /\ revoked' = revoked \cup {t}
      BY <1>2 DEF Rotate, IInv, TypeOK, RowsInHand, Live
    <2>3. Live' = (Live \ {t}) \cup {c}
      BY <2>1, <2>2 DEF Live, IInv, TypeOK
    <2>4. replacedBy[t] = None
      BY <2>2 DEF IInv, ExchangedRevoked, Live
    <2>5. Logins' = Logins
      <3>1. replacedBy'[t] = c /\ \A p \in Tokens \ {t} : replacedBy'[p] = replacedBy[p]
        BY <2>1, <2>2 DEF IInv, TypeOK
      <3>2. c \notin Logins'
        BY <2>2, <3>1 DEF Logins
      <3>3. \A u \in issued : u # c /\ u # None
        BY <2>1, NoneAssumption DEF IInv, TypeOK
      <3>4. QED  BY <2>1, <2>2, <2>4, <3>1, <3>2, <3>3 DEF Logins
    <2>6. Families!Advance(t, c)
      BY <2>1, <2>2, <2>3, <2>5 DEF Families!Advance
    <2>7. QED  BY <2>2, <2>6 DEF Families!Next
  <1>3. ASSUME NEW r \in Requests, RevokeCommit(r) PROVE [Families!Next]_(Families!families)
    <2>1. req[r].locked \in SUBSET Tokens
      BY DEF IInv, TypeOK, Request
    <2>2. QED  BY <1>3, <2>1, RevokingCloses DEF RevokeCommit, IInv
  <1>4. ASSUME NEW r \in Requests, LogoutUpdate(r) PROVE [Families!Next]_(Families!families)
    <2>1. {req[r].token} \in SUBSET Tokens
      BY <1>4 DEF LogoutUpdate, IInv, TypeOK, RowsInHand
    <2>2. QED  BY <1>4, <2>1, RevokingCloses DEF LogoutUpdate, IInv
  <1>5. CASE UNCHANGED sessions
    BY <1>5 DEF sessions, Families!families, Live, Logins
  <1>6. QED
    BY <1>1, <1>2, <1>3, <1>4, <1>5
    DEF Next, vars, sessions, Login, Refresh, Logout, StartLogin, Lookup, ReadUser,
        RevokeScan, RevokeRow, StartLogout, Abort, Expire, SetUserActive

\* The sessions of a user implement session families, whatever runs concurrently.
THEOREM SessionsImplementFamilies == Spec => ImplementsFamilies
  <1>1. Init => Families!Init
    BY DEF Init, Families!Init, Live, Logins
  <1>2. QED
    BY <1>1, Invariance, StepImplements, PTL DEF Spec, ImplementsFamilies, Families!Spec

(***************************************************************************)
(* Counting sessions.                                                      *)
(***************************************************************************)
LEMMA CountStep ==
    ASSUME IInv, IInv', SessionsNeverMultiply, [Families!Next]_(Families!families)
    PROVE  SessionsNeverMultiply'
  <1>1. /\ IsFiniteSet(Live) /\ IsFiniteSet(Live') /\ IsFiniteSet(Logins) /\ IsFiniteSet(Logins')
        /\ Logins \subseteq issued
    BY TokensAssumption, FS_Subset DEF IInv, TypeOK, Live, Logins
  <1>2. /\ Cardinality(Live) \in Nat /\ Cardinality(Live') \in Nat
        /\ Cardinality(Logins) \in Nat /\ Cardinality(Logins') \in Nat
    BY <1>1, FS_CardinalityType
  <1>3. ASSUME NEW c \in Tokens, Families!Open(c) PROVE SessionsNeverMultiply'
    <2>1. c \notin Live /\ c \notin Logins
      BY <1>1, <1>3 DEF Families!Open, Live
    <2>2. /\ Cardinality(Live') = Cardinality(Live) + 1
          /\ Cardinality(Logins') = Cardinality(Logins) + 1
      BY <1>1, <1>3, <2>1, FS_AddElement DEF Families!Open
    <2>3. QED  BY <1>2, <2>2 DEF SessionsNeverMultiply
  <1>4. ASSUME NEW c \in Tokens, NEW t \in Tokens, Families!Advance(t, c)
        PROVE  SessionsNeverMultiply'
    <2>1. c \notin Live \ {t} /\ t \in Live
      BY <1>4 DEF Families!Advance, Live
    <2>2. IsFiniteSet(Live \ {t}) /\ Cardinality(Live \ {t}) = Cardinality(Live) - 1
      BY <1>1, <2>1, FS_RemoveElement
    <2>3. Cardinality(Live') = Cardinality(Live \ {t}) + 1
      BY <1>4, <2>1, <2>2, FS_AddElement DEF Families!Advance
    <2>4. QED
      BY <1>2, <1>4, <2>2, <2>3 DEF SessionsNeverMultiply, Families!Advance
  <1>5. ASSUME NEW S \in SUBSET Tokens, Families!Close(S) PROVE SessionsNeverMultiply'
    <2>1. Live' \subseteq Live /\ Logins' = Logins
      BY <1>5 DEF Families!Close
    <2>2. Cardinality(Live') <= Cardinality(Live)
      BY <1>1, <2>1, FS_Subset
    <2>3. QED  BY <1>2, <2>1, <2>2 DEF SessionsNeverMultiply
  <1>6. CASE UNCHANGED Families!families
    BY <1>6 DEF Families!families, SessionsNeverMultiply
  <1>7. QED  BY <1>3, <1>4, <1>5, <1>6 DEF Families!Next

\* The user never has more sessions than logins.
THEOREM SessionsDoNotMultiply == Spec => []SessionsNeverMultiply
  <1>1. Init => SessionsNeverMultiply
    <2>1. ASSUME Init PROVE Live = {} /\ Logins = {}
      BY <2>1 DEF Init, Live, Logins
    <2>2. Cardinality({}) = 0
      BY FS_EmptySet
    <2>3. QED  BY <2>1, <2>2 DEF SessionsNeverMultiply
  <1>2. IInv /\ IInv' /\ SessionsNeverMultiply /\ [Next]_vars => SessionsNeverMultiply'
    BY StepImplements, CountStep
  <1>3. QED  BY <1>1, <1>2, Invariance, PTL DEF Spec

(***************************************************************************)
(* A page that misses no answer never looks like a thief, for any number   *)
(* of calls and token pairs.  The argument follows the token that has been *)
(* exchanged last: while the page does not know its successor, the refresh *)
(* that will deliver it is in flight, and no second one is sent.           *)
(***************************************************************************)

\* The tokens are those the server has issued, and 0.
TokensIssued ==
    /\ pairs \in Nat /\ cookie \in 0 .. pairs
    /\ refresh \in [pc : {"none", "sent", "answered"}, token : 0 .. pairs]
    /\ sign \in [pc : {"none", "login", "signed_in", "logout", "signed_out"},
                 token : 0 .. pairs]
    /\ sign.pc = "signed_out" => sign.token = 0
    /\ live \subseteq 1 .. pairs /\ exchanged \subseteq 1 .. pairs

\* The answer in flight carries a new pair.
Delivers == refresh.pc = "answered" /\ refresh.token # 0

\* The token in the cookie has been exchanged only while its successor is on the
\* way; what is sent or on the way has not been exchanged; the token of a login
\* is nobody else's before the page has seen it.
TokensUnspent ==
    /\ cookie \notin exchanged \/ Delivers
    /\ refresh.pc # "none" => refresh.token \notin exchanged
    /\ sign.pc = "signed_in" =>
          /\ sign.token \notin exchanged \cup {0, cookie}
          /\ refresh.pc # "none" => sign.token # refresh.token

ClientInv == TokensIssued /\ (~missed => TokensUnspent /\ ~reused)

\* What the browser may keep of an answer the page does not take: its cookie.
KeptCookie ==
    \/ cookie' = cookie
    \/ cookie' = refresh.token /\ Delivers
    \/ cookie' = sign.token /\ sign.pc = "signed_in"
    \/ cookie' = 0

\* A refresh that is given up had nothing to deliver, or the browser has kept its
\* cookie, or the page has missed it.
LEMMA LossIsMissed ==
  ASSUME ClientInv, refresh' = [pc |-> "none", token |-> 0], KeptCookie,
         missed' = (missed \/ (Delivers /\ cookie' # refresh.token)),
         sign' \in {sign, [pc |-> "none", token |-> 0]},
         sign'.pc = "signed_in" => cookie' = cookie \/ (cookie' = refresh.token /\ Delivers),
         UNCHANGED <<live, exchanged, pairs, reused>>
  PROVE  ClientInv'
  <1>1. TokensIssued'
    BY DEF ClientInv, TokensIssued, KeptCookie
  <1>2. ASSUME ~missed' PROVE TokensUnspent' /\ ~reused'
    <2>1. ~missed /\ TokensUnspent /\ ~reused /\ (Delivers => cookie' = refresh.token)
      BY <1>2 DEF ClientInv
    <2>2. 0 \notin exchanged
      BY DEF ClientInv, TokensIssued
    <2>3. cookie' \notin exchanged
      BY <2>1, <2>2 DEF KeptCookie, TokensUnspent, Delivers
    <2>4. sign'.pc = "signed_in" => sign'.token \notin exchanged \cup {0, cookie'}
      BY <2>1 DEF TokensUnspent, Delivers, KeptCookie
    <2>5. QED  BY <2>1, <2>3, <2>4 DEF TokensUnspent
  <1>3. QED  BY <1>1, <1>2 DEF ClientInv

\* A request served keeps the tokens among those the server has issued.
LEMMA ServedIssued ==
  ASSUME TokensIssued, NEW t,
         Exchange(t) \/ OpenSession \/ EndSession(t)
  PROVE  /\ pairs' \in {pairs, pairs + 1}
         /\ live' \subseteq 1 .. pairs' /\ exchanged' \subseteq 1 .. pairs'
  <1>1. /\ pairs' \in {pairs, pairs + 1}
        /\ live' \subseteq live \/ (pairs' = pairs + 1 /\ live' \subseteq live \cup {pairs'})
        /\ exchanged' \subseteq exchanged \cup live
    <2>1. CASE Exchange(t)
      BY <2>1 DEF Exchange, Issue
    <2>2. CASE OpenSession \/ EndSession(t)
      BY <2>2 DEF OpenSession, EndSession, Issue
    <2>3. QED  BY <2>1, <2>2
  <1>2. live \subseteq 1 .. pairs /\ exchanged \subseteq 1 .. pairs /\ pairs \in Nat
    BY DEF TokensIssued
  <1>3. \A n : n \in 1 .. pairs => n \in 1 .. pairs'
    BY <1>1, <1>2
  <1>4. pairs' = pairs + 1 => pairs' \in 1 .. pairs'
    BY <1>2
  <1>5. live \subseteq 1 .. pairs' /\ exchanged' \subseteq 1 .. pairs'
    BY <1>1, <1>2, <1>3
  <1>6. live' \subseteq 1 .. pairs'
    BY <1>1, <1>4, <1>5
  <1>7. QED  BY <1>1, <1>5, <1>6

\* What the page gave up may be served at any time: it has missed the answer.
LEMMA LateStep ==
  ASSUME ClientInv, NEW m \in Requested, ServeLate(m)
  PROVE  ClientInv'
  <1>1. Exchange(m.token) \/ OpenSession \/ EndSession(m.token)
    BY DEF ServeLate
  <1>2. UNCHANGED <<cookie, refresh, sign>>
    BY DEF ServeLate, page
  <1>3. TokensIssued'
    <2>1. pairs' \in {pairs, pairs + 1} /\ pairs \in Nat
          /\ live' \subseteq 1 .. pairs' /\ exchanged' \subseteq 1 .. pairs'
      BY <1>1, ServedIssued DEF ClientInv, TokensIssued
    <2>2. QED  BY <1>2, <2>1 DEF ClientInv, TokensIssued
  <1>4. CASE missed'
    BY <1>3, <1>4 DEF ClientInv
  <1>5. CASE ~missed'
    <2>1. OpenSession \/ EndSession(m.token)
      BY <1>5 DEF ServeLate
    <2>2. UNCHANGED <<exchanged, reused>> /\ ~missed
      BY <1>5, <2>1 DEF ServeLate, OpenSession, EndSession
    <2>3. QED  BY <1>2, <1>3, <2>2 DEF ClientInv, TokensUnspent, Delivers
  <1>6. QED  BY <1>4, <1>5

LEMMA ServerSteps ==
  ASSUME ClientInv, ServeRefresh \/ ServeLogin \/ ServeLogout
  PROVE  ClientInv'
  <1>1. CASE ServeRefresh
    <2>1. /\ refresh.pc = "sent" /\ Exchange(refresh.token)
          /\ UNCHANGED <<cookie, sign, missed>>
      BY <1>1 DEF ServeRefresh, page
    <2>2. pairs' \in {pairs, pairs + 1} /\ pairs \in Nat
          /\ live' \subseteq 1 .. pairs' /\ exchanged' \subseteq 1 .. pairs'
      BY <2>1, ServedIssued DEF ClientInv, TokensIssued
    <2>3. refresh' = [pc |-> "answered", token |-> IF refresh.token \in live THEN pairs' ELSE 0]
      BY <1>1, <2>1 DEF ServeRefresh, Exchange, Issue
    <2>4. TokensIssued'
      BY <2>1, <2>2, <2>3 DEF ClientInv, TokensIssued
    <2>5. ASSUME ~missed' PROVE TokensUnspent' /\ ~reused'
      <3>1. TokensUnspent /\ ~reused /\ refresh.token \notin exchanged
        BY <2>1, <2>5 DEF ClientInv, TokensUnspent
      <3>2. CASE refresh.token \in live
        <4>1. /\ refresh' = [pc |-> "answered", token |-> pairs + 1] /\ ~reused'
              /\ exchanged' = exchanged \cup {refresh.token}
          BY <2>1, <3>1, <3>2, <1>1 DEF ServeRefresh, Exchange, Issue
        <4>2. pairs + 1 \notin exchanged' /\ pairs + 1 # 0
          BY <4>1 DEF ClientInv, TokensIssued
        <4>3. sign.pc = "signed_in" =>
                 sign.token \notin exchanged' \cup {0, cookie} /\ sign.token # pairs + 1
          BY <2>1, <3>1, <4>1 DEF ClientInv, TokensIssued, TokensUnspent
        <4>4. QED  BY <2>1, <4>1, <4>2, <4>3 DEF TokensUnspent, Delivers
      <3>3. CASE refresh.token \notin live
        <4>1. refresh' = [pc |-> "answered", token |-> 0] /\ ~reused' /\ exchanged' = exchanged
          BY <2>1, <3>1, <3>3, <1>1 DEF ServeRefresh, Exchange
        <4>2. QED
          BY <2>1, <3>1, <4>1 DEF ClientInv, TokensIssued, TokensUnspent, Delivers
      <3>4. QED  BY <3>2, <3>3
    <2>6. QED  BY <2>4, <2>5 DEF ClientInv
  <1>2. CASE ServeLogin
    BY <1>2 DEF ServeLogin, OpenSession, Issue, page,
                ClientInv, TokensIssued, TokensUnspent, Delivers
  <1>3. CASE ServeLogout
    <2>1. /\ sign' = [pc |-> "signed_out", token |-> 0] /\ EndSession(sign.token)
          /\ UNCHANGED <<cookie, refresh, exchanged, pairs, reused, missed>>
      BY <1>3 DEF ServeLogout, EndSession, page
    <2>2. TokensIssued'
      <3>1. live' \subseteq 1 .. pairs'
        BY <2>1, ServedIssued DEF ClientInv
      <3>2. QED  BY <2>1, <3>1 DEF ClientInv, TokensIssued
    <2>3. QED  BY <2>1, <2>2 DEF ClientInv, TokensUnspent, Delivers
  <1>4. QED  BY <1>1, <1>2, <1>3

LEMMA RefreshSteps ==
  ASSUME ClientInv, FinishRefresh \/ RefuseRefresh \/ LoseRefresh
  PROVE  ClientInv'
  <1> USE DEF ClientInv, TokensIssued, TokensUnspent, Delivers, server, Quiet
  <1>1. CASE FinishRefresh
    <2>1. /\ refresh.pc = "answered" /\ refresh.token # 0
          /\ cookie' = refresh.token /\ refresh' = [pc |-> "none", token |-> 0]
          /\ UNCHANGED <<sign, live, exchanged, pairs, reused, missed>>
      BY <1>1 DEF FinishRefresh
    <2>2. TokensIssued'
      BY <2>1
    <2>3. ~missed' => TokensUnspent' /\ ~reused'
      BY <2>1
    <2>4. QED  BY <2>2, <2>3
  <1>2. CASE RefuseRefresh
    BY <1>2 DEF RefuseRefresh, FailRefresh
  <1>3. CASE LoseRefresh
    <2>1. /\ refresh' = [pc |-> "none", token |-> 0]
          /\ missed' = (missed \/ (Delivers /\ cookie' # refresh.token))
          /\ UNCHANGED <<sign, live, exchanged, pairs, reused>>
      BY <1>3 DEF LoseRefresh, FailRefresh, Miss
    <2>2. cookie' = cookie \/ (cookie' = refresh.token /\ Delivers)
      BY <1>3 DEF LoseRefresh, Cookies
    <2>3. QED  BY <2>1, <2>2, LossIsMissed DEF KeptCookie
  <1>4. QED  BY <1>1, <1>2, <1>3

LEMMA SignSteps ==
  ASSUME ClientInv, SignIn \/ SignOut \/ SignedOut \/ LoseSign \/ \E i \in Calls : SignedIn(i)
  PROVE  ClientInv'
  <1> USE DEF ClientInv, TokensIssued, TokensUnspent, Delivers, page, server, Quiet
  <1>1. CASE SignIn
    BY <1>1 DEF SignIn
  <1>2. CASE SignOut
    BY <1>2 DEF SignOut
  <1>3. CASE SignedOut
    BY <1>3 DEF SignedOut
  <1>4. CASE LoseSign
    <2>1. /\ sign' = [pc |-> "none", token |-> 0]
          /\ UNCHANGED <<refresh, live, exchanged, pairs, reused, missed>>
      BY <1>4 DEF LoseSign
    <2>2. \/ cookie' = cookie
          \/ cookie' = sign.token /\ sign.pc \in {"signed_in", "signed_out"}
      BY <1>4 DEF LoseSign, Cookies
    <2>3. ~missed => (cookie' \notin exchanged \/ Delivers)
      BY <2>2
    <2>4. QED  BY <2>1, <2>2, <2>3
  <1>5. CASE \E i \in Calls : SignedIn(i)
    BY <1>5 DEF SignedIn
  <1>6. QED  BY <1>1, <1>2, <1>3, <1>4, <1>5

\* The calls change nothing of it, but for those that ask for a refresh.
LEMMA CallSteps ==
  ASSUME ClientInv, NEW i \in Calls,
         ServeCall(i) \/ Send(i) \/ Receive(i) \/ Restore(i) \/ LoseCall(i)
  PROVE  ClientInv'
  <1> USE DEF ClientInv, TokensIssued, TokensUnspent, Delivers, page, server
  <1>1. CASE ServeCall(i) \/ Send(i)
    BY <1>1 DEF ServeCall, Send
  <1>2. CASE Receive(i)
    BY <1>2 DEF Receive, Reject, JoinRefresh
  <1>3. CASE Restore(i)
    BY <1>3 DEF Restore, JoinRefresh
  <1>4. CASE LoseCall(i)
    BY <1>4 DEF LoseCall, Reject
  <1>5. QED  BY <1>1, <1>2, <1>3, <1>4

LEMMA NextKeepsClientInv == ClientInv /\ [PageNext]_pageVars => ClientInv'
  <1> SUFFICES ASSUME ClientInv, [PageNext]_pageVars PROVE ClientInv'
    OBVIOUS
  <1>1. CASE \E t \in valid : ExpireAccess(t)
    BY <1>1 DEF ExpireAccess, page, ClientInv, TokensIssued, TokensUnspent, Delivers
  <1>2. CASE Reload
    <2>1. /\ refresh' = [pc |-> "none", token |-> 0]
          /\ missed' = (missed \/ (Delivers /\ cookie' # refresh.token))
          /\ sign' = [pc |-> "none", token |-> 0]
          /\ UNCHANGED <<live, exchanged, pairs, reused>>
      BY <1>2 DEF Reload, Miss, server, Quiet, Delivers
    <2>2. KeptCookie
      BY <1>2 DEF Reload, Cookies, KeptCookie, Delivers, ClientInv, TokensIssued
    <2>3. QED  BY <2>1, <2>2, LossIsMissed
  <1>3. CASE UNCHANGED pageVars
    BY <1>3 DEF pageVars, ClientInv, TokensIssued, TokensUnspent, Delivers
  <1>4. QED
    BY <1>1, <1>2, <1>3, ServerSteps, LateStep, RefreshSteps, SignSteps, CallSteps DEF PageNext

\* For any number of calls, token pairs and requests given up: as long as the
\* server serves no refresh whose answer fails to reach the page, no refresh token
\* is presented a second time, whatever else is lost, late or reloaded.
THEOREM OnlyTheMissedLookStolen == PageSpec => []OnlyMissedAnswersLookStolen
  <1>1. PageInit => ClientInv
    BY DEF PageInit, ClientInv, TokensIssued, TokensUnspent, Delivers, Quiet
  <1>2. ClientInv => OnlyMissedAnswersLookStolen
    BY DEF ClientInv, TokensIssued, OnlyMissedAnswersLookStolen
  <1>3. QED  BY <1>1, <1>2, NextKeepsClientInv, PTL DEF PageSpec
===============================================================================
