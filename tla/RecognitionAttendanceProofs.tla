--------------------- MODULE RecognitionAttendanceProofs ---------------------
(***************************************************************************)
(* For every number of concurrent flows, batches, attempts and students:   *)
(* attendance batches count each row once and keep the marks they were     *)
(* answered for, flows built on them keep what they guarantee, an attempt  *)
(* points only at rows it has marked, and the attempts implement           *)
(* RecognitionAttempts.                                                    *)
(***************************************************************************)
EXTENDS RecognitionAttendance, FiniteSetTheorems, TLAPS

(***************************************************************************)
(* Batches.  The count of rows is kept by three facts about the rows a     *)
(* batch is about to insert: no other batch inserts them too, none is      *)
(* committed, and every mark of a batch is about another student.          *)
(***************************************************************************)
\* The rows a batch has inserted and not committed.
NewRows(r) ==
    {s \in Students : req[r].loaded[s] = None /\ \E m \in Passed(r) : m.student = s}

Distinct(r) ==
    \A i, j \in DOMAIN req[r].batch : req[r].batch[i].student = req[r].batch[j].student => i = j

Sized(r) ==
    req[r].pc \in {"connect", "authorize", "validate"} => Len(req[r].batch) >= 1

HasCaller(r) ==
    req[r].pc \in Points \ {"idle", "saved", "failed"} => req[r].user \in Users

\* Rows are never deleted.
LoadedExists(r) ==
    \A s \in Students : req[r].loaded[s] # None => record[s] # None

Uncommitted(r) == \A s \in NewRows(r) : record[s] = None

BatchSound(r) == Distinct(r) /\ Sized(r) /\ HasCaller(r) /\ LoadedExists(r)

Exclusive(r, q) == NewRows(r) \cap NewRows(q) = {}

BatchInv ==
    /\ TypeOK
    /\ CreationsAuditedOnce
    /\ \A r \in Requests : BatchSound(r) /\ Uncommitted(r)
    /\ \A r, q \in Requests : r # q => Exclusive(r, q)

(***************************************************************************)
(* Helpers.                                                                *)
(***************************************************************************)
Bodies == Seq([student : Students, status : Statuses])

Call0 == [pc : Points, user : Users \cup {None},
          batch : Bodies, at : Nat, loaded : [Students -> Row \cup {None}]]

\* The variables other than the requests.
TypedRest ==
    /\ record \in [Students -> Row \cup {None}]
    /\ created \in Nat /\ denied \subseteq Users
    /\ teaches \subseteq Teachers /\ roster \subseteq Students /\ open \in BOOLEAN
    /\ out \subseteq Requests \X {"request", "batch", "audit"}

InBatch(r) == req[r].pc \in {"read", "write"} => req[r].at \in DOMAIN req[r].batch

LEMMA TypeSplit ==
    TypeOK <=> TypedRest /\ req \in [Requests -> Call0] /\ \A r \in Requests : InBatch(r)
  BY DEF TypeOK, TypedRest, Call0, Bodies, InBatch

LEMMA TypeJoin ==
    ASSUME TypedRest', req' \in [Requests -> Call0], \A r \in Requests : InBatch(r)'
    PROVE  TypeOK'
  BY DEF TypeOK, TypedRest, Call0, Bodies, InBatch

LEMMA MarkOfBatch ==
    ASSUME NEW b \in Bodies, NEW i \in DOMAIN b
    PROVE  b[i] \in [student : Students, status : Statuses]
  <1> DEFINE Marking == [student : Students, status : Statuses]
  <1>1. b \in Seq(Marking) => b[i] \in Marking
    <2> HIDE DEF Marking
    <2> QED  OBVIOUS
  <1>2. QED  BY <1>1 DEF Bodies

\* A step of one request that commits nothing and inserts nothing.
LEMMA QuietStep ==
    ASSUME BatchInv, NEW r \in Requests, UNCHANGED <<record, created>>, TypedRest',
           req' \in [Requests -> Call0], \A q \in Requests \ {r} : req'[q] = req[q],
           InBatch(r)', BatchSound(r)', NewRows(r)' \subseteq NewRows(r)
    PROVE  BatchInv'
  <1>1. ASSUME NEW q \in Requests \ {r}
        PROVE  InBatch(q)' /\ BatchSound(q)' /\ NewRows(q)' = NewRows(q)
    <2>1. req'[q] = req[q] /\ InBatch(q) /\ BatchSound(q)
      BY TypeSplit DEF BatchInv
    <2>2. InBatch(q)' /\ BatchSound(q)'
      BY <2>1 DEF InBatch, BatchSound, Distinct, Sized, HasCaller, LoadedExists
    <2>3. Passed(q)' = Passed(q)
      BY <2>1 DEF Passed, Marks
    <2>4. QED  BY <2>1, <2>2, <2>3 DEF NewRows
  <1>2. TypeOK'
    BY <1>1, TypeJoin
  <1>3. CreationsAuditedOnce'
    BY DEF BatchInv, CreationsAuditedOnce
  <1>4. \A q \in Requests : NewRows(q)' \subseteq NewRows(q)
    BY <1>1
  <1>5. \A q \in Requests : Uncommitted(q)'
    BY <1>4 DEF BatchInv, Uncommitted
  <1>6. \A p, q \in Requests : p # q => Exclusive(p, q)'
    BY <1>4 DEF BatchInv, Exclusive
  <1>7. QED  BY <1>1, <1>2, <1>3, <1>5, <1>6 DEF BatchInv

\* A request that goes to a point before its first statement or after its last.
LEMMA GotoStep ==
    ASSUME BatchInv, NEW r \in Requests, UNCHANGED <<record, created>>, TypedRest',
           NEW pc \in Points \ {"read", "write", "commit"}, Goto(r, pc),
           pc \in {"idle", "saved", "failed"} \/ req[r].pc \in Points \ {"idle", "saved", "failed"},
           pc \in {"connect", "authorize", "validate"} =>
              req[r].pc \in {"connect", "authorize", "validate"}
    PROVE  BatchInv'
  <1>1. /\ req' \in [Requests -> Call0] /\ \A q \in Requests \ {r} : req'[q] = req[q]
        /\ req'[r] = [req[r] EXCEPT !.pc = pc] /\ req[r] \in Call0
    BY TypeSplit DEF Goto, Call0, BatchInv
  <1>2. /\ req'[r].pc = pc /\ req'[r].batch = req[r].batch /\ req'[r].user = req[r].user
        /\ req'[r].loaded = req[r].loaded
    BY <1>1 DEF Call0
  <1>3. BatchSound(r)' /\ InBatch(r)'
    BY <1>2 DEF BatchInv, BatchSound, Distinct, Sized, HasCaller, LoadedExists, InBatch, Points
  <1>4. NewRows(r)' = {}
    BY <1>2 DEF NewRows, Passed
  <1>5. QED  BY <1>1, <1>3, <1>4, QuietStep

LEMMA FailStep == ASSUME BatchInv, NEW r \in Requests, Fail(r) PROVE BatchInv'
  <1>1. Goto(r, "failed") /\ TypedRest'
    BY TypeSplit DEF Fail, End, register, school, TypedRest, BatchInv
  <1>2. QED  BY <1>1, GotoStep DEF Fail, register, Points

(***************************************************************************)
(* The steps of a batch.                                                   *)
(***************************************************************************)
LEMMA ReadStep == ASSUME BatchInv, NEW r \in Requests, Read(r) PROVE BatchInv'
  <1> DEFINE s0 == Mark(r).student
  <1>1. /\ TypedRest' /\ UNCHANGED <<record, created>>
        /\ req \in [Requests -> Call0] /\ req[r] \in Call0 /\ InBatch(r)
    BY TypeSplit DEF Read, register, school, TypedRest, BatchInv
  <1>2. s0 \in Students /\ record[s0] \in Row \cup {None}
    <2>1. req[r].at \in DOMAIN req[r].batch
      BY <1>1 DEF InBatch, Read
    <2>2. Mark(r) \in [student : Students, status : Statuses]
      BY <1>1, <2>1, MarkOfBatch DEF Mark, Call0
    <2>3. QED  BY <2>2, TypeSplit DEF BatchInv, TypedRest
  <1>3. /\ req' \in [Requests -> Call0] /\ \A q \in Requests \ {r} : req'[q] = req[q]
        /\ req'[r].pc = "write" /\ req'[r].batch = req[r].batch
        /\ req'[r].user = req[r].user /\ req'[r].at = req[r].at
        /\ req'[r].loaded = [req[r].loaded EXCEPT ![s0] = record[s0]]
    BY <1>1, <1>2 DEF Read, Call0, Points
  <1>4. \A s \in Students : req'[r].loaded[s] = IF s = s0 THEN record[s] ELSE req[r].loaded[s]
    BY <1>1, <1>2, <1>3 DEF Call0
  <1>5. BatchSound(r) /\ req[r].pc = "read"
    BY DEF BatchInv, Read
  <1>6. BatchSound(r)' /\ InBatch(r)'
    BY <1>1, <1>3, <1>4, <1>5
    DEF BatchSound, Distinct, Sized, HasCaller, LoadedExists, InBatch, Points
  <1>7. Passed(r)' = Passed(r)
    BY <1>3, <1>5 DEF Passed
  <1>8. NewRows(r)' \subseteq NewRows(r)
    BY <1>4, <1>5, <1>7 DEF NewRows, BatchSound, LoadedExists
  <1>9. QED  BY <1>1, <1>3, <1>6, <1>8, QuietStep

\* The marks a flush passes.
LEMMA FlushPasses ==
    ASSUME BatchInv, NEW r \in Requests, Write(r), ~ Fail(r)
    PROVE  /\ req' \in [Requests -> Call0] /\ \A q \in Requests \ {r} : req'[q] = req[q]
           /\ req'[r].batch = req[r].batch /\ req'[r].user = req[r].user
           /\ req'[r].loaded = req[r].loaded /\ req'[r].pc \in {"read", "commit"}
           /\ InBatch(r)' /\ UNCHANGED <<record, created>> /\ TypedRest'
           /\ Passed(r)' = Passed(r) \cup {Mark(r)}
  <1> DEFINE n == Len(req[r].batch)
  <1>1. req \in [Requests -> Call0] /\ req[r] \in Call0 /\ req[r].at \in DOMAIN req[r].batch
    BY TypeSplit DEF BatchInv, InBatch, Write
  <1>2. req[r].at \in 1 .. n /\ n \in Nat /\ DOMAIN req[r].batch = 1 .. n
    BY <1>1 DEF Call0
  <1>3. UNCHANGED <<register, school, out>> /\ req[r].pc = "write"
    BY DEF Write
  <1>4. UNCHANGED <<record, created>> /\ TypedRest'
    BY <1>3, TypeSplit DEF register, school, BatchInv, TypedRest
  <1>5. CASE req[r].at < n
    <2>1. req' = [req EXCEPT ![r].pc = "read", ![r].at = @ + 1]
      BY <1>5 DEF Write
    <2>2. /\ req' \in [Requests -> Call0] /\ \A q \in Requests \ {r} : req'[q] = req[q]
          /\ req'[r].batch = req[r].batch /\ req'[r].user = req[r].user
          /\ req'[r].loaded = req[r].loaded /\ req'[r].pc = "read" /\ req'[r].at = req[r].at + 1
      BY <1>1, <1>2, <2>1 DEF Call0, Points
    <2>3. InBatch(r)'
      BY <1>2, <1>5, <2>2 DEF InBatch
    <2>4. 1 .. (req'[r].at - 1) = 1 .. (req[r].at - 1) \cup {req[r].at}
      BY <1>2, <2>2
    <2>5. Passed(r)' = {req[r].batch[i] : i \in 1 .. (req'[r].at - 1)}
      BY <2>2 DEF Passed
    <2>6. Passed(r) = {req[r].batch[i] : i \in 1 .. (req[r].at - 1)}
      BY <1>3 DEF Passed
    <2>7. Passed(r)' = Passed(r) \cup {Mark(r)}
      BY <2>4, <2>5, <2>6 DEF Mark
    <2>8. QED  BY <1>4, <2>2, <2>3, <2>7
  <1>6. CASE ~ (req[r].at < n)
    <2>1. Goto(r, "commit")
      BY <1>6 DEF Write
    <2>2. /\ req' \in [Requests -> Call0] /\ \A q \in Requests \ {r} : req'[q] = req[q]
          /\ req'[r].batch = req[r].batch /\ req'[r].user = req[r].user
          /\ req'[r].loaded = req[r].loaded /\ req'[r].pc = "commit"
      BY <1>1, <2>1 DEF Call0, Points, Goto
    <2>3. InBatch(r)'
      BY <2>2 DEF InBatch
    <2>4. req[r].at = n /\ DOMAIN req[r].batch = 1 .. (req[r].at - 1) \cup {req[r].at}
      BY <1>2, <1>6
    <2>5. Passed(r)' = {req[r].batch[i] : i \in DOMAIN req[r].batch}
      BY <2>2 DEF Passed, Marks
    <2>6. Passed(r) = {req[r].batch[i] : i \in 1 .. (req[r].at - 1)}
      BY <1>3 DEF Passed
    <2>7. Passed(r)' = Passed(r) \cup {Mark(r)}
      BY <2>4, <2>5, <2>6 DEF Mark
    <2>8. QED  BY <1>4, <2>2, <2>3, <2>7
  <1>7. QED  BY <1>5, <1>6

\* A request with an insert that nobody has committed holds the lock on it.
LEMMA InsertsLock ==
    ASSUME BatchInv, NEW q \in Requests, NEW s \in NewRows(q)
    PROVE  s \in Locks(q)
  <1>1. PICK m \in Passed(q) : m.student = s
    BY DEF NewRows
  <1>2. req[q].pc \in {"read", "write", "commit"}
    BY <1>1 DEF Passed
  <1>3. Wanted(q, m).by \in Users
    BY <1>2 DEF BatchInv, BatchSound, HasCaller, Points, Wanted
  <1>4. m \in [student : Students, status : Statuses]
    <2>1. req[q] \in Call0 /\ InBatch(q)
      BY TypeSplit DEF BatchInv
    <2>2. PICK i \in DOMAIN req[q].batch : m = req[q].batch[i]
      <3>1. CASE req[q].pc = "commit"
        BY <1>1, <3>1 DEF Passed, Marks
      <3>2. CASE req[q].pc \in {"read", "write"}
        <4>1. m \in {req[q].batch[i] : i \in 1 .. (req[q].at - 1)}
          BY <1>1, <3>2 DEF Passed
        <4>2. 1 .. (req[q].at - 1) \subseteq DOMAIN req[q].batch
          BY <2>1, <3>2 DEF InBatch, Call0, Bodies
        <4>3. QED  BY <4>1, <4>2
      <3>3. QED  BY <1>2, <3>1, <3>2
    <2>3. QED  BY <2>1, <2>2, MarkOfBatch DEF Call0
  <1>5. Wanted(q, m) # None
    BY <1>3, <1>4, NoneAssumption DEF Wanted, Row
  <1>6. Writes(q, m)
    BY <1>1, <1>5 DEF Writes, NewRows
  <1>7. QED  BY <1>1, <1>6 DEF Locks

LEMMA WriteStep == ASSUME BatchInv, NEW r \in Requests, Write(r) PROVE BatchInv'
  <1>1. CASE Fail(r)
    BY <1>1, FailStep
  <1>2. CASE ~ Fail(r)
    <2> DEFINE s0 == Mark(r).student
    <2>1. /\ req' \in [Requests -> Call0] /\ \A q \in Requests \ {r} : req'[q] = req[q]
          /\ req'[r].batch = req[r].batch /\ req'[r].user = req[r].user
          /\ req'[r].loaded = req[r].loaded /\ req'[r].pc \in {"read", "commit"}
          /\ InBatch(r)' /\ UNCHANGED <<record, created>> /\ TypedRest'
          /\ Passed(r)' = Passed(r) \cup {Mark(r)}
      BY <1>2, FlushPasses
    <2>2. req[r].pc = "write" /\ BatchSound(r)
      BY DEF Write, BatchInv
    <2>3. BatchSound(r)'
      BY <2>1, <2>2 DEF BatchSound, Distinct, Sized, HasCaller, LoadedExists, Points
    <2>4. Mark(r) \in Marks(r) /\ s0 \in Students
      <3>1. req[r] \in Call0 /\ req[r].at \in DOMAIN req[r].batch
        BY <2>2, TypeSplit DEF BatchInv, InBatch
      <3>2. req[r].batch[req[r].at] \in [student : Students, status : Statuses]
        BY <3>1, MarkOfBatch DEF Call0
      <3>3. QED  BY <3>1, <3>2 DEF Mark, Marks
    <2>5. NewRows(r)' \subseteq NewRows(r) \cup {s \in {s0} : req[r].loaded[s] = None}
      BY <2>1 DEF NewRows
    <2>6. CASE req[r].loaded[s0] # None
      <3>1. NewRows(r)' \subseteq NewRows(r)
        BY <2>5, <2>6
      <3>2. QED  BY <2>1, <2>3, <3>1, QuietStep
    <2>7. CASE req[r].loaded[s0] = None
      <3>1. Mark(r) \in Inserts(r) /\ record[s0] = None
        BY <1>2, <2>4, <2>7 DEF Inserts, Write
      <3>2. ASSUME NEW q \in Requests \ {r} PROVE s0 \notin NewRows(q)
        <4>1. Wanted(r, Mark(r)) \in Row
          <5>1. Mark(r) \in [student : Students, status : Statuses]
            BY <2>2, TypeSplit, MarkOfBatch DEF BatchInv, InBatch, Mark, Call0
          <5>2. QED  BY <2>2, <5>1 DEF Wanted, Row, BatchSound, HasCaller, Points
        <4>2. Writes(r, Mark(r))
          BY <2>7, <4>1, NoneAssumption DEF Writes
        <4>3. ~ Waits(r, q)
          BY DEF Write
        <4>4. s0 \notin Locks(q)
          BY <2>2, <4>2, <4>3 DEF Waits
        <4>5. QED  BY <4>4, InsertsLock
      <3>3. ASSUME NEW q \in Requests \ {r}
            PROVE  InBatch(q)' /\ BatchSound(q)' /\ NewRows(q)' = NewRows(q)
        <4>1. req'[q] = req[q] /\ InBatch(q) /\ BatchSound(q)
          BY <2>1, TypeSplit DEF BatchInv
        <4>2. InBatch(q)' /\ BatchSound(q)'
          BY <2>1, <4>1 DEF InBatch, BatchSound, Distinct, Sized, HasCaller, LoadedExists
        <4>3. Passed(q)' = Passed(q)
          BY <4>1 DEF Passed, Marks
        <4>4. QED  BY <4>1, <4>2, <4>3 DEF NewRows
      <3>4. TypeOK'
        BY <2>1, <3>3, TypeJoin
      <3>5. CreationsAuditedOnce'
        BY <2>1 DEF BatchInv, CreationsAuditedOnce
      <3>6. \A q \in Requests : Uncommitted(q)'
        BY <2>1, <2>5, <3>1, <3>3 DEF BatchInv, Uncommitted
      <3>7. \A q \in Requests \ {r} : Exclusive(r, q)' /\ Exclusive(q, r)'
        BY <2>5, <3>2, <3>3 DEF BatchInv, Exclusive
      <3>8. \A p, q \in Requests : p # q => Exclusive(p, q)'
        BY <3>3, <3>7 DEF BatchInv, Exclusive
      <3>9. QED  BY <2>3, <3>3, <3>4, <3>5, <3>6, <3>8 DEF BatchInv
    <2>8. QED  BY <2>6, <2>7
  <1>3. QED  BY <1>1, <1>2

\* A row a committed mark leaves is a row.
LEMMA ResultIsRow ==
    ASSUME BatchInv, NEW r \in Requests, req[r].pc = "commit", NEW m \in Marks(r)
    PROVE  m.student \in Students /\ Result(r, m) \in Row
  <1>1. req[r] \in Call0 /\ BatchSound(r) /\ TypedRest
    BY TypeSplit DEF BatchInv
  <1>2. m \in [student : Students, status : Statuses]
    <2>1. PICK i \in DOMAIN req[r].batch : m = req[r].batch[i]
      BY DEF Marks
    <2>2. QED  BY <1>1, <2>1, MarkOfBatch DEF Call0
  <1>3. m.student \in Students /\ m.status \in Statuses
    BY <1>2
  <1>4. req[r].user \in Users
    BY <1>1 DEF BatchSound, HasCaller, Points
  <1>5. CASE req[r].loaded[m.student] = None
    BY <1>3, <1>4, <1>5 DEF Result, Wanted, Row
  <1>6. CASE req[r].loaded[m.student] # None
    <2>1. record[m.student] \in Row /\ req[r].loaded[m.student] \in Row
      BY <1>1, <1>3, <1>6 DEF BatchSound, LoadedExists, TypedRest, Call0
    <2>2. record[m.student].status \in Statuses /\ record[m.student].by \in Users
      BY <2>1 DEF Row
    <2>3. QED  BY <1>3, <1>4, <1>6, <2>2 DEF Result, Row
  <1>7. QED  BY <1>3, <1>5, <1>6

\* A commit removes no row.
LEMMA RowsStay ==
    ASSUME BatchInv, NEW r \in Requests, Commit(r), NEW t \in Students, record[t] # None
    PROVE  record'[t] # None
  <1>1. CASE \E m \in Marks(r) : m.student = t
    <2> DEFINE m == CHOOSE n \in Marks(r) : n.student = t
    <2>1. m \in Marks(r) /\ record'[t] = Result(r, m) /\ req[r].pc = "commit"
      BY <1>1 DEF Commit
    <2>2. QED  BY <2>1, ResultIsRow, NoneAssumption
  <1>2. CASE ~ \E m \in Marks(r) : m.student = t
    BY <1>2 DEF Commit
  <1>3. QED  BY <1>1, <1>2

\* created_count is the number of rows a batch inserts.
LEMMA InsertsAreNewRows ==
    ASSUME BatchInv, NEW r \in Requests, req[r].pc = "commit"
    PROVE  IsFiniteSet(NewRows(r)) /\ Cardinality(Inserts(r)) = Cardinality(NewRows(r))
  <1> DEFINE f == [s \in NewRows(r) |-> CHOOSE m \in Inserts(r) : m.student = s]
  <1>1. Passed(r) = Marks(r)
    BY DEF Passed
  <1>2. \A s \in NewRows(r) : f[s] \in Inserts(r) /\ f[s].student = s
    <2>1. ASSUME NEW s \in NewRows(r) PROVE \E m \in Inserts(r) : m.student = s
      BY <1>1 DEF NewRows, Inserts
    <2>2. QED  BY <2>1
  <1>3. \A m \in Inserts(r) : m.student \in NewRows(r)
    BY <1>1, ResultIsRow DEF Inserts, NewRows
  <1>4. \A m, n \in Marks(r) : m.student = n.student => m = n
    <2>1. \A i, j \in DOMAIN req[r].batch :
             req[r].batch[i].student = req[r].batch[j].student => i = j
      BY DEF BatchInv, BatchSound, Distinct
    <2>2. QED  BY <2>1 DEF Marks
  <1>5. \A m \in Inserts(r) : f[m.student] = m
    BY <1>2, <1>3, <1>4 DEF Inserts
  <1>6. f \in Bijection(NewRows(r), Inserts(r))
    <2>1. f \in [NewRows(r) -> Inserts(r)]
      BY <1>2
    <2>2. \A s, t \in NewRows(r) : f[s] = f[t] => s = t
      BY <1>2
    <2>3. \A m \in Inserts(r) : \E s \in NewRows(r) : f[s] = m
      BY <1>3, <1>5
    <2> HIDE DEF f
    <2>4. QED  BY <2>1, <2>2, <2>3 DEF Bijection, Injection, Surjection, IsInjective
  <1>7. IsFiniteSet(NewRows(r))
    <2>1. NewRows(r) \subseteq Students
      BY DEF NewRows
    <2>2. QED  BY <2>1, FiniteAssumption, FS_Subset
  <1>8. ExistsBijection(NewRows(r), Inserts(r))
    BY <1>6 DEF ExistsBijection
  <1>9. QED  BY <1>7, <1>8, FS_Bijection

LEMMA CommitStep == ASSUME BatchInv, NEW r \in Requests, Commit(r) PROVE BatchInv'
  <1> DEFINE D == {s \in Students : record[s] # None}
             N == NewRows(r)
  <1>1. req[r].pc = "commit" /\ req[r] \in Call0 /\ BatchSound(r) /\ TypedRest
    BY TypeSplit DEF Commit, BatchInv
  <1>2. ASSUME NEW s \in Students
        PROVE  /\ record'[s] \in Row \cup {None}
               /\ record'[s] # None <=> record[s] # None \/ s \in N
    <2>1. CASE \E m \in Marks(r) : m.student = s
      <3> DEFINE m == CHOOSE n \in Marks(r) : n.student = s
      <3>1. m \in Marks(r) /\ m.student = s
        BY <2>1
      <3>2. record'[s] = Result(r, m)
        BY <2>1 DEF Commit
      <3>3. record'[s] \in Row /\ record'[s] # None
        BY <1>1, <3>1, <3>2, ResultIsRow, NoneAssumption
      <3>4. record[s] # None \/ s \in N
        BY <1>1, <3>1 DEF NewRows, Passed, BatchSound, LoadedExists
      <3>5. QED  BY <3>3, <3>4
    <2>2. CASE ~ \E m \in Marks(r) : m.student = s
      <3>1. record'[s] = record[s] /\ s \notin N
        BY <1>1, <2>2 DEF Commit, NewRows, Passed
      <3>2. QED  BY <1>1, <3>1 DEF TypedRest
    <2>3. QED  BY <2>1, <2>2
  <1>3. N \subseteq Students /\ N \cap D = {}
    BY DEF NewRows, BatchInv, Uncommitted
  <1>4. {s \in Students : record'[s] # None} = D \cup N
    BY <1>2, <1>3
  <1>5. IsFiniteSet(D) /\ IsFiniteSet(N)
    <2>1. D \subseteq Students
      OBVIOUS
    <2>2. QED  BY <1>3, <2>1, FiniteAssumption, FS_Subset
  <1>6. Cardinality(D \cup N) = Cardinality(D) + Cardinality(N)
    <2> HIDE DEF D, N
    <2>1. Cardinality(D \cup N) = Cardinality(D) + Cardinality(N) - Cardinality(D \cap N)
      BY <1>5, FS_Union
    <2>2. Cardinality(D \cap N) = 0
      BY <1>3, FS_EmptySet
    <2>3. Cardinality(D) \in Nat /\ Cardinality(N) \in Nat
      BY <1>5, FS_CardinalityType
    <2>4. QED  BY <2>1, <2>2, <2>3
  <1>7. created' = Cardinality({s \in Students : record'[s] # None})
    <2>1. created' = created + Cardinality(N)
      BY <1>1, InsertsAreNewRows DEF Commit
    <2>2. created = Cardinality(D)
      BY DEF BatchInv, CreationsAuditedOnce
    <2>3. QED  BY <1>4, <1>6, <2>1, <2>2
  <1>8. PICK pc \in {"saved", "failed"} : End(r, pc)
    BY DEF Commit
  <1>9. /\ req' \in [Requests -> Call0] /\ \A q \in Requests \ {r} : req'[q] = req[q]
        /\ req'[r].pc \in {"saved", "failed"} /\ req'[r].batch = req[r].batch
        /\ req'[r].loaded = req[r].loaded
    BY <1>1, <1>8, TypeSplit DEF BatchInv, End, Goto, Call0, Points
  <1>10. TypedRest'
    <2>1. record' \in [Students -> Row \cup {None}]
      BY <1>2 DEF Commit
    <2>2. created' \in Nat
      BY <1>4, <1>5, <1>7, FS_Union, FS_CardinalityType
    <2>3. out' \subseteq Requests \X {"request", "batch", "audit"}
      BY <1>1, <1>8 DEF End, TypedRest
    <2>4. QED  BY <1>1, <2>1, <2>2, <2>3 DEF TypedRest, Commit, school
  <1>11. ASSUME NEW q \in Requests PROVE InBatch(q)' /\ BatchSound(q)'
    <2>1. InBatch(q) /\ BatchSound(q)
      BY TypeSplit DEF BatchInv
    <2>2. LoadedExists(q)'
      BY <1>2, <1>9, <2>1 DEF BatchSound, LoadedExists
    <2>3. CASE q = r
      BY <1>1, <1>9, <2>1, <2>2, <2>3 DEF InBatch, BatchSound, Distinct, Sized, HasCaller
    <2>4. CASE q # r
      BY <1>9, <2>1, <2>2, <2>4 DEF InBatch, BatchSound, Distinct, Sized, HasCaller
    <2>5. QED  BY <2>3, <2>4
  <1>12. NewRows(r)' = {} /\ \A q \in Requests \ {r} : NewRows(q)' = NewRows(q)
    <2>1. NewRows(r)' = {}
      BY <1>9 DEF NewRows, Passed
    <2>2. ASSUME NEW q \in Requests \ {r} PROVE NewRows(q)' = NewRows(q)
      <3>1. req'[q] = req[q]
        BY <1>9
      <3>2. Passed(q)' = Passed(q)
        BY <3>1 DEF Passed, Marks
      <3>3. QED  BY <3>1, <3>2 DEF NewRows
    <2>3. QED  BY <2>1, <2>2
  <1>13. ASSUME NEW q \in Requests PROVE Uncommitted(q)'
    <2>1. CASE q = r
      BY <1>12, <2>1 DEF Uncommitted
    <2>2. CASE q # r
      <3>1. \A s \in NewRows(q) : s \in Students /\ record[s] = None /\ s \notin N
        BY <2>2 DEF BatchInv, Uncommitted, Exclusive, NewRows
      <3>2. QED  BY <1>2, <1>12, <2>2, <3>1 DEF Uncommitted
    <2>3. QED  BY <2>1, <2>2
  <1>14. \A p, q \in Requests : p # q => Exclusive(p, q)'
    BY <1>12 DEF BatchInv, Exclusive
  <1>15. CreationsAuditedOnce'
    BY <1>7 DEF CreationsAuditedOnce
  <1>16. TypeOK'
    BY <1>9, <1>10, <1>11, TypeJoin
  <1>17. QED  BY <1>11, <1>13, <1>14, <1>15, <1>16 DEF BatchInv

\* A slot takes a new call, or its answer frees it.
LEMMA RenewStep ==
    ASSUME BatchInv, NEW r \in Requests, UNCHANGED <<record, created>>, TypedRest',
           NEW c \in Call0, req' = [req EXCEPT ![r] = c],
           c.pc \notin {"read", "write", "commit"}, c.loaded = Unread,
           c.user \in Users \/ c.pc \in {"idle", "saved", "failed"},
           \A i, j \in DOMAIN c.batch : c.batch[i].student = c.batch[j].student => i = j,
           c.pc \in {"connect", "authorize", "validate"} => Len(c.batch) >= 1
    PROVE  BatchInv'
  <1>1. /\ req' \in [Requests -> Call0] /\ \A q \in Requests \ {r} : req'[q] = req[q]
        /\ req'[r] = c
    BY TypeSplit DEF BatchInv
  <1>2. \A s \in Students : c.loaded[s] = None
    BY DEF Unread
  <1>3. BatchSound(r)'
    BY <1>1, <1>2 DEF BatchSound, Distinct, Sized, HasCaller, LoadedExists
  <1>4. InBatch(r)'
    BY <1>1 DEF InBatch
  <1>5. NewRows(r)' = {}
    BY <1>1 DEF NewRows, Passed
  <1>6. QED  BY <1>1, <1>3, <1>4, <1>5, QuietStep

LEMMA IdleFields ==
    /\ Idle \in Call0 /\ Idle.pc = "idle" /\ Idle.user = None /\ Idle.batch = <<>>
    /\ Idle.at = 0 /\ Idle.loaded = Unread
  BY DEF Idle, Call0, Bodies, Points, Unread

\* A call as a slot takes it.
CallOf(pc, u, b) == [Idle EXCEPT !.pc = pc, !.user = u, !.batch = b]

LEMMA NewCall ==
    ASSUME NEW pc \in Points, NEW u \in Users,
           NEW b \in Bodies
    PROVE  /\ CallOf(pc, u, b) \in Call0 /\ CallOf(pc, u, b).pc = pc
           /\ CallOf(pc, u, b).user = u /\ CallOf(pc, u, b).batch = b
           /\ CallOf(pc, u, b).at = 0 /\ CallOf(pc, u, b).loaded = Unread
  <1> DEFINE c == CallOf(pc, u, b)
  <1>1. Unread \in [Students -> Row \cup {None}]
    BY DEF Unread
  <1>2. c.pc = pc /\ c.user = u /\ c.batch = b /\ c.at = 0 /\ c.loaded = Unread
    BY DEF Idle, CallOf
  <1>3. c \in Call0
    BY <1>1 DEF Call0, Idle, CallOf
  <1>4. QED  BY <1>2, <1>3

LEMMA SubmitStep ==
    ASSUME BatchInv, NEW r \in Requests, NEW u \in Users, NEW b \in Batches, Submit(r, u, b)
    PROVE  BatchInv'
  <1> DEFINE c == CallOf("connect", u, b)
  <1>1. UNCHANGED <<record, created>> /\ TypedRest'
    BY TypeSplit DEF Submit, register, school, TypedRest, BatchInv
  <1>2. b \in Bodies
    BY BatchesAssumption DEF Bodies
  <1>3. Len(b) >= 1
    BY <1>2 DEF Submit, ValidShape, Bodies
  <1>4. c \in Call0 /\ c.pc = "connect" /\ c.user = u /\ c.batch = b /\ c.loaded = Unread
    <2>1. "connect" \in Points
      BY DEF Points
    <2>2. QED  BY <1>2, <2>1, NewCall
  <1>5. req' = [req EXCEPT ![r] = c]
    BY DEF Submit, CallOf
  <1>6. \A i, j \in DOMAIN b : b[i].student = b[j].student => i = j
    BY DEF Submit, ValidShape
  <1> HIDE DEF c
  <1>7. QED  BY <1>1, <1>3, <1>4, <1>5, <1>6, RenewStep

LEMMA ReplyStep == ASSUME BatchInv, NEW r \in Requests, Reply(r) PROVE BatchInv'
  <1>1. UNCHANGED <<record, created>> /\ TypedRest'
    BY TypeSplit DEF Reply, register, school, TypedRest, BatchInv
  <1>2. req' = [req EXCEPT ![r] = Idle] /\ \A i, j \in DOMAIN Idle.batch : i = j
    BY IdleFields DEF Reply
  <1>3. QED  BY <1>1, <1>2, IdleFields, RenewStep

LEMMA ConnectStep ==
    ASSUME BatchInv, NEW r \in Requests, Connect(r) \/ OpenAudit(r) PROVE BatchInv'
  <1>1. UNCHANGED <<record, created>> /\ TypedRest'
    BY TypeSplit DEF Connect, OpenAudit, Acquire, register, school, TypedRest, BatchInv
  <1>2. QED  BY <1>1, GotoStep DEF Connect, OpenAudit, Points

LEMMA AuthorizeStep == ASSUME BatchInv, NEW r \in Requests, Authorize(r) PROVE BatchInv'
  <1>1. CASE Fail(r)
    BY <1>1, FailStep
  <1>2. CASE ~ Fail(r)
    <2>1. UNCHANGED <<record, created>> /\ TypedRest'
      BY <1>2, TypeSplit DEF Authorize, register, school, TypedRest, BatchInv
    <2>2. Goto(r, "validate") \/ Goto(r, "deny")
      BY <1>2 DEF Authorize
    <2>3. QED  BY <2>1, <2>2, GotoStep DEF Authorize, Points
  <1>3. QED  BY <1>1, <1>2

LEMMA AuditDenialStep == ASSUME BatchInv, NEW r \in Requests, AuditDenial(r) PROVE BatchInv'
  <1>1. req[r].user \in Users
    BY DEF BatchInv, BatchSound, HasCaller, AuditDenial, Points
  <1>2. UNCHANGED <<record, created>> /\ TypedRest'
    BY <1>1, TypeSplit DEF AuditDenial, End, school, TypedRest, BatchInv
  <1>3. QED  BY <1>2, GotoStep DEF AuditDenial, End, Points

LEMMA ValidateStep == ASSUME BatchInv, NEW r \in Requests, Validate(r) PROVE BatchInv'
  <1>1. CASE Fail(r)
    BY <1>1, FailStep
  <1>2. CASE ~ Fail(r)
    <2>1. UNCHANGED <<record, created>> /\ TypedRest'
      BY <1>2, TypeSplit DEF Validate, register, school, TypedRest, BatchInv
    <2>2. req' = [req EXCEPT ![r].pc = "read", ![r].at = 1]
      BY <1>2 DEF Validate
    <2>3. /\ req' \in [Requests -> Call0] /\ \A q \in Requests \ {r} : req'[q] = req[q]
          /\ req'[r].pc = "read" /\ req'[r].at = 1 /\ req'[r].batch = req[r].batch
          /\ req'[r].loaded = req[r].loaded /\ req'[r].user = req[r].user
          /\ req[r] \in Call0
      BY <2>2, TypeSplit DEF BatchInv, Call0, Points
    <2>4. req[r].pc = "validate" /\ BatchSound(r)
      BY DEF Validate, BatchInv
    <2>5. BatchSound(r)'
      BY <2>1, <2>3, <2>4 DEF BatchSound, Distinct, Sized, HasCaller, LoadedExists, Points
    <2>6. InBatch(r)'
      <3>1. Len(req[r].batch) \in Nat /\ DOMAIN req[r].batch = 1 .. Len(req[r].batch)
        BY <2>3 DEF Call0
      <3>2. Len(req[r].batch) >= 1
        BY <2>4 DEF BatchSound, Sized
      <3>3. QED  BY <2>3, <3>1, <3>2 DEF InBatch
    <2>7. NewRows(r)' = {}
      BY <2>3 DEF NewRows, Passed
    <2>8. QED  BY <2>1, <2>3, <2>5, <2>6, <2>7, QuietStep
  <1>3. QED  BY <1>1, <1>2

\* Steps of other actors leave the requests and the rows alone.
LEMMA OtherStep ==
    ASSUME BatchInv, UNCHANGED <<record, created, req>>, TypedRest' PROVE BatchInv'
  <1>1. ASSUME NEW q \in Requests
        PROVE  InBatch(q)' /\ BatchSound(q)' /\ NewRows(q)' = NewRows(q)
    <2>1. InBatch(q) /\ BatchSound(q)
      BY TypeSplit DEF BatchInv
    <2>2. Passed(q)' = Passed(q)
      BY DEF Passed, Marks
    <2>3. QED
      BY <2>1, <2>2 DEF NewRows, InBatch, BatchSound, Distinct, Sized, HasCaller, LoadedExists
  <1>2. TypeOK'
    BY <1>1, TypeSplit, TypeJoin DEF BatchInv
  <1>3. QED
    BY <1>1, <1>2 DEF BatchInv, CreationsAuditedOnce, Uncommitted, Exclusive

LEMMA AdministrationStep == ASSUME BatchInv, Administration PROVE BatchInv'
  <1>1. UNCHANGED <<record, created, req>> /\ TypedRest'
    BY TypeSplit
    DEF Administration, Unassign, Remove, Close, register, TypedRest, BatchInv
  <1>2. QED  BY <1>1, OtherStep

LEMMA ProceedStep == ASSUME BatchInv, NEW r \in Requests, Proceed(r) PROVE BatchInv'
  BY ConnectStep, AuthorizeStep, AuditDenialStep, ValidateStep, ReadStep, WriteStep DEF Proceed

LEMMA EndsEarly ==
    ASSUME BatchInv, NEW r \in Requests, GiveUp(r) \/ Abort(r) PROVE BatchInv'
  BY FailStep DEF GiveUp, PoolTimeout, DeadlockVictim, Abort

LEMMA InitSound == ASSUME AttendanceInit PROVE BatchInv
  <1>1. /\ req \in [Requests -> Call0] /\ TypedRest
        /\ \A r \in Requests : req[r] = Idle
    BY IdleFields DEF AttendanceInit, Unread, TypedRest, Users
  <1>2. ASSUME NEW r \in Requests PROVE InBatch(r) /\ BatchSound(r) /\ NewRows(r) = {}
    BY <1>1 DEF Idle, Unread, InBatch, BatchSound, Distinct, Sized, HasCaller, LoadedExists,
                NewRows, Passed
  <1>3. CreationsAuditedOnce
    <2>1. {s \in Students : record[s] # None} = {}
      BY DEF AttendanceInit, Unread
    <2>2. QED  BY <2>1, FS_EmptySet DEF AttendanceInit, CreationsAuditedOnce
  <1>4. QED  BY <1>1, <1>2, <1>3, TypeSplit DEF BatchInv, Uncommitted, Exclusive

LEMMA NextSound == ASSUME BatchInv, [AttendanceNext]_attendanceVars PROVE BatchInv'
  <1>1. CASE UNCHANGED attendanceVars
    <2>1. TypedRest'
      BY <1>1, TypeSplit DEF attendanceVars, register, school, TypedRest, BatchInv
    <2>2. QED  BY <1>1, <2>1, OtherStep DEF attendanceVars, register
  <1>2. CASE AttendanceNext
    BY <1>2, AdministrationStep, SubmitStep, ProceedStep, CommitStep, EndsEarly, ReplyStep
    DEF AttendanceNext
  <1>3. QED  BY <1>1, <1>2

(***************************************************************************)
(* The theorems.                                                           *)
(***************************************************************************)
LEMMA BatchesSound == AttendanceSpec => []BatchInv
  <1>1. AttendanceInit => BatchInv
    BY InitSound
  <1>2. BatchInv /\ [AttendanceNext]_attendanceVars => BatchInv'
    BY NextSound
  <1>3. QED  BY <1>1, <1>2, PTL DEF AttendanceSpec

\* Every variable of concurrent batches keeps its type, and each transaction of
\* bulk_save its position in the request.
THEOREM BatchesTypeCorrect == AttendanceSpec => []TypeOK
  <1>1. BatchInv => TypeOK
    BY DEF BatchInv
  <1>2. QED  BY <1>1, BatchesSound, PTL

\* created_count over the success audit rows is the number of attendance rows,
\* however the transactions of bulk_save overlap.
THEOREM RowsAreCountedOnce == AttendanceSpec => []CreationsAuditedOnce
  <1>1. BatchInv => CreationsAuditedOnce
    BY DEF BatchInv
  <1>2. QED  BY <1>1, BatchesSound, PTL

(***************************************************************************)
(* What a saved batch leaves behind.                                       *)
(***************************************************************************)
\* Only its commit gets a batch saved: the steps of others leave its slot alone,
\* and whatever ends it early does not acknowledge it.
LEMMA SavedByCommit ==
    ASSUME BatchInv, [AttendanceNext]_attendanceVars, NEW r \in Requests,
           req[r].pc = "commit", req'[r].pc = "saved"
    PROVE  Commit(r)
  <1>1. req \in [Requests -> Call0]
    BY TypeSplit DEF BatchInv
  <1>2. ASSUME NEW q \in Requests, NEW pc, Goto(q, pc) PROVE q = r => pc = "saved"
    BY <1>1, <1>2 DEF Goto, Call0
  <1>3. ~ UNCHANGED req
    OBVIOUS
  <1>4. ~ Administration /\ ~ UNCHANGED attendanceVars
    BY <1>3 DEF Administration, Unassign, Remove, Close, attendanceVars
  <1>5. ASSUME NEW q \in Requests, Fail(q) PROVE FALSE
    <2>1. Goto(q, "failed")
      BY <1>5 DEF Fail, End
    <2>2. q = r
      BY <1>1, <2>1 DEF Goto
    <2>3. QED  BY <1>2, <2>1, <2>2
  <1>6. ASSUME NEW q \in Requests,
               (\E u \in Users, b \in Batches : Submit(q, u, b)) \/ Proceed(q) \/ Reply(q)
        PROVE  FALSE
    <2>1. req[q].pc # "commit"
      BY <1>5, <1>6 DEF Submit, Reply, Proceed, Connect, Authorize, OpenAudit, AuditDenial,
                        Validate, Read, Write
    <2>2. q # r
      BY <2>1
    <2>3. req'[r] = req[r]
      BY <1>1, <1>5, <1>6, <2>2 DEF Submit, Reply, Proceed, Connect, Authorize, OpenAudit,
                             AuditDenial, Validate, Read, Write, Goto, End
    <2>4. QED  BY <2>3
  <1>7. PICK q \in Requests : Commit(q)
    BY <1>4, <1>5, <1>6
    DEF AttendanceNext, GiveUp, PoolTimeout, DeadlockVictim, Abort
  <1>8. req[q].pc = "commit" /\ \E pc \in {"saved", "failed"} : Goto(q, pc)
    BY <1>7 DEF Commit, End
  <1>9. q = r
    BY <1>1, <1>8 DEF Goto
  <1>10. QED  BY <1>7, <1>9

\* What a commit leaves of a mark whose row is as it was read.
LEMMA CommitStands ==
    ASSUME BatchInv, NEW r \in Requests, Commit(r), NEW m \in Marks(r),
           record[m.student] = req[r].loaded[m.student]
    PROVE  record'[m.student] = Wanted(r, m)
  <1>1. req[r] \in Call0 /\ Distinct(r)
    BY TypeSplit DEF BatchInv, BatchSound
  <1>2. m.student \in Students
    <2>1. PICK i \in DOMAIN req[r].batch : m = req[r].batch[i]
      BY DEF Marks
    <2>2. req[r].batch \in Bodies
      BY <1>1 DEF Call0
    <2>3. QED  BY <2>1, <2>2, MarkOfBatch
  <1>3. (CHOOSE n \in Marks(r) : n.student = m.student) = m
    <2>1. \A n \in Marks(r) : n.student = m.student => n = m
      BY <1>1 DEF Marks, Distinct
    <2>2. QED  BY <2>1
  <1>4. record'[m.student] = Result(r, m)
    <2>1. \E n \in Marks(r) : n.student = m.student
      OBVIOUS
    <2>2. QED  BY <1>2, <1>3, <2>1 DEF Commit
  <1>5. CASE req[r].loaded[m.student] = None
    BY <1>4, <1>5 DEF Result
  <1>6. CASE req[r].loaded[m.student] # None
    <2> DEFINE was == req[r].loaded[m.student]
    <2>1. Result(r, m) = [status |-> IF was.status = m.status THEN was.status ELSE m.status,
                          by     |-> IF was.by = req[r].user THEN was.by ELSE req[r].user]
      BY <1>6 DEF Result
    <2> HIDE DEF was
    <2>2. QED  BY <1>4, <2>1 DEF Wanted
  <1>7. QED  BY <1>5, <1>6

\* For every number of overlapping batches: a batch that is acknowledged as saved
\* left each of its marks as it was sent, by its own caller, wherever nobody
\* committed the row after it was read.
THEOREM SavedMarksStand == AttendanceSpec => UncontendedMarksStand
  <1>1. BatchInv /\ [AttendanceNext]_attendanceVars =>
            [\A r \in Requests : req[r].pc = "commit" /\ req'[r].pc = "saved" =>
                \A m \in Marks(r) :
                    record[m.student] = req[r].loaded[m.student]
                        => record'[m.student] = Wanted(r, m)]_attendanceVars
    BY SavedByCommit, CommitStands
  <1>2. QED  BY <1>1, BatchesSound, PTL DEF AttendanceSpec, UncontendedMarksStand

(***************************************************************************)
(* Flows and attempts.                                                     *)
(***************************************************************************)
Creating  == {"scope", "create"}
Holding   == {"check", "confirming", "refused"}
Refusing  == {"refused", "denied"}
Marking   == {"marking", "confirming"}

Flow0 == [pc : FlowPoints, user : Users \cup {None}, student : Students \cup {None},
          attempt : Attempts \cup {None}, roster : SUBSET Students]

Attempt0 == [roster : SUBSET Students, matched : Students \cup {None},
             confirmed : Students \cup {None}, linked : Students \cup {None}]

FlowTyped ==
    /\ attempt \in [Attempts -> Attempt0]
    /\ flow \in [Requests -> Flow0]
    /\ marked \in [Attempts -> SUBSET Students]

\* The row of an attempt, the students marked for it and their attendance rows.
AttemptSound(a) ==
    /\ ~ Exists(a) => attempt[a].confirmed = None /\ attempt[a].linked = None
    /\ attempt[a].matched \in attempt[a].roster \cup {None}
    /\ attempt[a].confirmed # None => /\ attempt[a].matched = None
                                      /\ attempt[a].linked = attempt[a].confirmed
    /\ attempt[a].linked # None => /\ attempt[a].linked \in marked[a]
                                   /\ attempt[a].linked \in {attempt[a].matched, attempt[a].confirmed}
    /\ marked[a] \subseteq attempt[a].roster
    /\ \A s \in marked[a] : record[s] # None

\* The batch a flow has called is about the flow's student, and what it has read
\* of its attempt still holds.
FlowSound(r) ==
    /\ flow[r].pc = "idle" => flow[r] = NoFlow
    /\ flow[r].pc # "idle" => flow[r].user \in Users /\ flow[r].attempt \in Attempts
    /\ flow[r].pc \in Creating \cup {"lock", "check"} => req[r].pc = "idle"
    /\ flow[r].pc \in Refusing => req[r].pc \in {"deny", "audit_denial", "failed"}
    /\ flow[r].pc \in Creating => ~ Exists(flow[r].attempt)
    /\ flow[r].pc = "create" => flow[r].roster # {}
    /\ flow[r].pc \in Marking =>
          /\ req[r].pc # "idle" /\ flow[r].student \in Students
          /\ req[r].batch = <<[student |-> flow[r].student, status |-> Present]>>
          /\ flow[r].student \in attempt[flow[r].attempt].roster
          /\ req[r].pc = "saved" => flow[r].student \in marked[flow[r].attempt]
    /\ flow[r].pc = "marking" => attempt[flow[r].attempt].matched = flow[r].student
    /\ flow[r].pc = "confirming" => /\ attempt[flow[r].attempt].matched = None
                                    /\ attempt[flow[r].attempt].confirmed = None

\* One flow creates an attempt, and one holds its row lock.
Alone(r) ==
    \A q \in Requests \ {r} : flow[q].attempt = flow[r].attempt =>
        /\ ~ (flow[r].pc \in Creating /\ flow[q].pc \in Creating)
        /\ ~ (flow[r].pc \in Holding /\ flow[q].pc \in Holding)

RecInv ==
    /\ BatchInv
    /\ FlowTyped
    /\ \A a \in Attempts : AttemptSound(a)
    /\ \A r \in Requests : FlowSound(r) /\ Alone(r)

(***************************************************************************)
(* What a step may leave to be shown.                                      *)
(***************************************************************************)
\* A step of the flow or the batch of r.  What it does to its attempt keeps what
\* the other flows have read of it.
LEMMA StepOf ==
    ASSUME RecInv, NEW r \in Requests, BatchInv', FlowTyped',
           \A q \in Requests \ {r} : flow'[q] = flow[q] /\ req'[q] = req[q],
           \A a \in Attempts : AttemptSound(a)',
           \A a \in Attempts : marked[a] \subseteq marked'[a],
           \A a \in Attempts : Exists(a) => /\ attempt'[a].roster = attempt[a].roster
                                            /\ attempt'[a].matched = attempt[a].matched,
           \A q \in Requests \ {r} :
              /\ flow[q].pc \in Creating => attempt'[flow[q].attempt].roster = {}
              /\ flow[q].pc = "confirming" => attempt'[flow[q].attempt].confirmed = None,
           FlowSound(r)', Alone(r)'
    PROVE  RecInv'
  <1>1. ASSUME NEW q \in Requests \ {r} PROVE FlowSound(q)'
    <2>1. FlowSound(q) /\ flow'[q] = flow[q] /\ req'[q] = req[q] /\ flow[q] \in Flow0
      BY DEF RecInv, FlowTyped
    <2>2. /\ flow[q].pc = "idle" => flow[q] = NoFlow
          /\ flow[q].pc # "idle" => flow[q].user \in Users /\ flow[q].attempt \in Attempts
          /\ flow[q].pc \in Creating \cup {"lock", "check"} => req[q].pc = "idle"
          /\ flow[q].pc \in Refusing => req[q].pc \in {"deny", "audit_denial", "failed"}
          /\ flow[q].pc = "create" => flow[q].roster # {}
      BY <2>1 DEF FlowSound
    <2>3. flow[q].pc \in Creating => ~ Exists(flow[q].attempt)'
      BY <2>1 DEF Exists
    <2>4. CASE flow[q].pc \in Marking
      <3>1. flow[q].attempt \in Attempts /\ Exists(flow[q].attempt)
        BY <2>1, <2>4 DEF FlowSound, Exists, Marking
      <3>2. /\ attempt'[flow[q].attempt].roster = attempt[flow[q].attempt].roster
            /\ attempt'[flow[q].attempt].matched = attempt[flow[q].attempt].matched
            /\ marked[flow[q].attempt] \subseteq marked'[flow[q].attempt]
        BY <3>1
      <3>3. QED  BY <2>1, <2>2, <2>3, <2>4, <3>2 DEF FlowSound, Marking, Creating, Refusing
    <2>5. CASE flow[q].pc \notin Marking
      BY <2>1, <2>2, <2>3, <2>5 DEF FlowSound, Marking
    <2>6. QED  BY <2>4, <2>5
  <1>2. ASSUME NEW p \in Requests PROVE Alone(p)'
    <2>1. CASE p = r
      BY <2>1
    <2>2. CASE p # r
      <3>1. Alone(p) /\ flow'[p] = flow[p]
        BY <2>2 DEF RecInv
      <3>2. ASSUME NEW q \in Requests \ {p}, flow'[q].attempt = flow'[p].attempt
            PROVE  /\ ~ (flow'[p].pc \in Creating /\ flow'[q].pc \in Creating)
                   /\ ~ (flow'[p].pc \in Holding /\ flow'[q].pc \in Holding)
        <4>1. CASE q = r
          BY <2>2, <3>2, <4>1 DEF Alone
        <4>2. CASE q # r
          BY <3>1, <3>2, <4>2 DEF Alone
        <4>3. QED  BY <4>1, <4>2
      <3>3. QED  BY <3>2 DEF Alone
    <2>3. QED  BY <2>1, <2>2
  <1>3. QED  BY <1>1, <1>2 DEF RecInv

\* A step that does not touch the attempts or the rows.
LEMMA QuietFlowStep ==
    ASSUME RecInv, NEW r \in Requests, BatchInv', UNCHANGED <<record, attempt, marked>>,
           flow' \in [Requests -> Flow0],
           \A q \in Requests \ {r} : flow'[q] = flow[q] /\ req'[q] = req[q],
           FlowSound(r)', Alone(r)'
    PROVE  RecInv'
  <1>1. FlowTyped'
    BY DEF RecInv, FlowTyped
  <1>2. \A a \in Attempts : AttemptSound(a)'
    BY DEF RecInv, AttemptSound, Exists
  <1>3. ASSUME NEW q \in Requests \ {r}
        PROVE  /\ flow[q].pc \in Creating => attempt'[flow[q].attempt].roster = {}
               /\ flow[q].pc = "confirming" => attempt'[flow[q].attempt].confirmed = None
    BY DEF RecInv, FlowSound, Exists
  <1>4. QED  BY <1>1, <1>2, <1>3, StepOf

(***************************************************************************)
(* What the steps of a flow do to its batch.                               *)
(***************************************************************************)
LEMMA RestTyped ==
    ASSUME BatchInv, UNCHANGED <<record, created, denied, school>>,
           out' \subseteq Requests \X {"request", "batch", "audit"}
    PROVE  TypedRest'
  BY TypeSplit DEF BatchInv, TypedRest, school

LEMMA FinishStep ==
    ASSUME RecInv, NEW r \in Requests, Finish(r), UNCHANGED <<record, created, denied, school>>
    PROVE  /\ BatchInv' /\ flow' \in [Requests -> Flow0]
           /\ \A q \in Requests \ {r} : flow'[q] = flow[q] /\ req'[q] = req[q]
           /\ flow'[r] = NoFlow /\ req'[r] = Idle /\ FlowSound(r)' /\ Alone(r)'
  <1>1. TypedRest'
    BY RestTyped, TypeSplit DEF Finish, RecInv, BatchInv, TypedRest
  <1>2. req' = [req EXCEPT ![r] = Idle] /\ \A i, j \in DOMAIN Idle.batch : i = j
    BY IdleFields DEF Finish
  <1>3. BatchInv'
    BY <1>1, <1>2, IdleFields, RenewStep DEF RecInv
  <1>4. NoFlow \in Flow0 /\ flow \in [Requests -> Flow0] /\ req \in [Requests -> Call0]
    BY TypeSplit DEF NoFlow, Flow0, FlowPoints, RecInv, FlowTyped, BatchInv
  <1>5. /\ flow' \in [Requests -> Flow0] /\ flow'[r] = NoFlow /\ req'[r] = Idle
        /\ \A q \in Requests \ {r} : flow'[q] = flow[q] /\ req'[q] = req[q]
    BY <1>4 DEF Finish
  <1>6. NoFlow.pc = "idle"
    BY DEF NoFlow
  <1>7. FlowSound(r)' /\ Alone(r)'
    BY <1>5, <1>6 DEF FlowSound, Alone, Creating, Refusing, Marking, Holding
  <1>8. QED  BY <1>3, <1>5, <1>7

LEMMA FinishKeeps ==
    ASSUME RecInv, NEW r \in Requests, Finish(r),
           UNCHANGED <<record, created, denied, school, attempt, marked>>
    PROVE  RecInv'
  BY FinishStep, QuietFlowStep

\* A flow calls bulk_save for its student, or has a refusal audited.
LEMMA CallStep ==
    ASSUME RecInv, NEW r \in Requests, UNCHANGED <<record, created, denied, school>>,
           out' \subseteq Requests \X {"request", "batch", "audit"},
           NEW c \in Call0, c.pc \in {"connect", "deny"}, c.user \in Users, c.loaded = Unread,
           Len(c.batch) \in {0, 1}, c.pc = "connect" => Len(c.batch) = 1,
           req' = [req EXCEPT ![r] = c]
    PROVE  BatchInv' /\ req'[r] = c /\ \A q \in Requests \ {r} : req'[q] = req[q]
  <1>1. TypedRest'
    BY RestTyped DEF RecInv
  <1>2. \A i, j \in DOMAIN c.batch : i = j
    BY DEF Call0, Bodies
  <1>3. /\ c.pc \in {"connect", "authorize", "validate"} => Len(c.batch) >= 1
        /\ c.pc \notin {"read", "write", "commit"}
        /\ \A i, j \in DOMAIN c.batch : c.batch[i].student = c.batch[j].student => i = j
    BY <1>2
  <1>4. BatchInv'
    BY <1>1, <1>3, RenewStep DEF RecInv
  <1>5. req \in [Requests -> Call0]
    BY TypeSplit DEF RecInv, BatchInv
  <1>6. QED  BY <1>4, <1>5

LEMMA OneMark ==
    ASSUME NEW s \in Students
    PROVE  /\ <<[student |-> s, status |-> Present]>> \in Bodies
           /\ Len(<<[student |-> s, status |-> Present]>>) = 1
  BY PresentAssumption DEF Bodies

LEMMA MarkStep ==
    ASSUME RecInv, NEW r \in Requests, NEW s \in Students, MarkPresent(r, s),
           UNCHANGED <<record, created, denied, school>>,
           out' \subseteq Requests \X {"request", "batch", "audit"}, flow[r].user \in Users
    PROVE  /\ BatchInv' /\ \A q \in Requests \ {r} : req'[q] = req[q]
           /\ req'[r].pc = "connect" /\ req'[r].batch = <<[student |-> s, status |-> Present]>>
  <1> DEFINE b == <<[student |-> s, status |-> Present]>>
  <1>1. b \in Bodies /\ Len(b) = 1
    BY OneMark
  <1> DEFINE c == CallOf("connect", flow[r].user, b)
  <1>2. req' = [req EXCEPT ![r] = c]
    BY DEF MarkPresent, CallOf
  <1> HIDE DEF b
  <1>3. c \in Call0 /\ c.pc = "connect" /\ c.user = flow[r].user /\ c.batch = b
        /\ c.loaded = Unread
    <2>1. "connect" \in Points
      BY DEF Points
    <2>2. QED  BY <1>1, <2>1, NewCall
  <1> HIDE DEF c
  <1>4. /\ c.pc \in {"connect", "deny"} /\ c.user \in Users
        /\ Len(c.batch) \in {0, 1} /\ (c.pc = "connect" => Len(c.batch) = 1)
    BY <1>1, <1>3
  <1>5. BatchInv' /\ req'[r] = c /\ \A q \in Requests \ {r} : req'[q] = req[q]
    BY <1>2, <1>3, <1>4, CallStep
  <1>6. QED  BY <1>3, <1>5 DEF b

LEMMA RefuseKeeps ==
    ASSUME RecInv, NEW r \in Requests, NEW pc \in Refusing, Refuse(r, pc),
           flow[r].pc # "idle", pc = "refused" => flow[r].pc \in Holding,
           UNCHANGED <<record, created, denied, school, attempt, marked>>,
           out' \subseteq Requests \X {"request", "batch", "audit"}
    PROVE  RecInv'
  <1>1. flow[r].user \in Users /\ flow[r].attempt \in Attempts
    BY DEF RecInv, FlowSound
  <1> DEFINE c == [Idle EXCEPT !.pc = "deny", !.user = flow[r].user]
  <1>2. req' = [req EXCEPT ![r] = c]
    BY DEF Refuse
  <1>3. /\ c \in Call0 /\ c.pc = "deny" /\ c.user = flow[r].user /\ c.loaded = Unread
        /\ Len(c.batch) = 0
    BY <1>1, IdleFields DEF Call0, Points
  <1> HIDE DEF c
  <1>4. /\ BatchInv' /\ \A q \in Requests \ {r} : req'[q] = req[q]
        /\ req'[r].pc = "deny"
    <2>1. /\ c.pc \in {"connect", "deny"} /\ c.user \in Users
          /\ Len(c.batch) \in {0, 1} /\ (c.pc = "connect" => Len(c.batch) = 1)
      BY <1>1, <1>3
    <2>2. BatchInv' /\ req'[r] = c /\ \A q \in Requests \ {r} : req'[q] = req[q]
      BY <1>2, <1>3, <2>1, CallStep
    <2>3. QED  BY <1>3, <2>2
  <1>5. /\ flow' \in [Requests -> Flow0] /\ \A q \in Requests \ {r} : flow'[q] = flow[q]
        /\ flow'[r].pc = pc /\ flow'[r].user = flow[r].user /\ flow'[r].attempt = flow[r].attempt
    BY DEF Refuse, Become, RecInv, FlowTyped, Flow0, FlowPoints, Refusing
  <1>6. FlowSound(r)'
    BY <1>1, <1>4, <1>5 DEF FlowSound, Refusing, Creating, Marking
  <1>7. Alone(r)'
    BY <1>5 DEF Alone, RecInv, Holding, Creating, Refusing
  <1>8. QED  BY <1>4, <1>5, <1>6, <1>7, QuietFlowStep

\* A step of r's flow that leaves its batch alone.
LEMMA Outside ==
    ASSUME RecInv, UNCHANGED <<record, created, denied, school, req>>,
           out' \subseteq Requests \X {"request", "batch", "audit"}
    PROVE  BatchInv'
  BY RestTyped, OtherStep DEF RecInv

LEMMA OutTyped == ASSUME RecInv PROVE out \subseteq Requests \X {"request", "batch", "audit"}
  BY TypeSplit DEF RecInv, BatchInv, TypedRest

(***************************************************************************)
(* create_attempt.                                                         *)
(***************************************************************************)
LEMMA OpenStep == ASSUME RecInv, NEW r \in Requests, Open(r) PROVE RecInv'
  <1>1. UNCHANGED <<record, created, denied, school, req, attempt, flow, marked>>
    BY DEF Open, register
  <1>2. BatchInv'
    BY <1>1, Outside, OutTyped DEF Open, Acquire
  <1>3. FlowSound(r)' /\ Alone(r)'
    BY <1>1 DEF RecInv, FlowSound, Alone, Exists
  <1>4. QED  BY <1>1, <1>2, <1>3, QuietFlowStep DEF RecInv, FlowTyped

LEMMA StartAttemptStep ==
    ASSUME RecInv, NEW r \in Requests, NEW u \in Users, NEW a \in Attempts,
           StartAttempt(r, u, a)
    PROVE  RecInv'
  <1>1. UNCHANGED <<record, created, denied, school, req, out, attempt, marked>>
        /\ req[r].pc = "idle" /\ ~ Exists(a)
    BY DEF StartAttempt, attendanceVars, school
  <1>2. BatchInv'
    BY <1>1, Outside, OutTyped
  <1>3. /\ flow' \in [Requests -> Flow0] /\ \A q \in Requests \ {r} : flow'[q] = flow[q]
        /\ flow'[r].pc = "scope" /\ flow'[r].user = u /\ flow'[r].attempt = a
    <2>1. flow \in [Requests -> Flow0]
      BY DEF RecInv, FlowTyped
    <2>2. flow' = [flow EXCEPT ![r].pc = "scope", ![r].user = u, ![r].attempt = a]
      BY DEF StartAttempt
    <2>3. flow'[r] = [flow[r] EXCEPT !.pc = "scope", !.user = u, !.attempt = a]
      BY <2>1, <2>2
    <2>4. [flow[r] EXCEPT !.pc = "scope", !.user = u, !.attempt = a] \in Flow0
      BY <2>1 DEF Flow0, FlowPoints
    <2>5. QED  BY <2>1, <2>2, <2>3, <2>4 DEF Flow0
  <1>4. FlowSound(r)'
    BY <1>1, <1>3 DEF FlowSound, Exists, Refusing, Marking, Creating
  <1>5. Alone(r)'
    BY <1>3 DEF Alone, StartAttempt, Holding, Creating
  <1>6. QED  BY <1>1, <1>2, <1>3, <1>4, <1>5, QuietFlowStep

LEMMA StartConfirmStep ==
    ASSUME RecInv, NEW r \in Requests, NEW u \in Users, NEW a \in Attempts, NEW s \in Students,
           StartConfirm(r, u, a, s)
    PROVE  RecInv'
  <1>1. UNCHANGED <<record, created, denied, school, req, out, attempt, marked>>
        /\ req[r].pc = "idle"
    BY DEF StartConfirm, attendanceVars, school
  <1>2. BatchInv'
    BY <1>1, Outside, OutTyped
  <1>3. /\ flow' \in [Requests -> Flow0] /\ \A q \in Requests \ {r} : flow'[q] = flow[q]
        /\ flow'[r].pc = "lock" /\ flow'[r].user = u /\ flow'[r].attempt = a
    <2>1. flow \in [Requests -> Flow0]
      BY DEF RecInv, FlowTyped
    <2>2. flow' = [flow EXCEPT ![r].pc = "lock", ![r].user = u, ![r].attempt = a, ![r].student = s]
      BY DEF StartConfirm
    <2>3. flow'[r] = [flow[r] EXCEPT !.pc = "lock", !.user = u, !.attempt = a, !.student = s]
      BY <2>1, <2>2
    <2>4. [flow[r] EXCEPT !.pc = "lock", !.user = u, !.attempt = a, !.student = s] \in Flow0
      BY <2>1 DEF Flow0, FlowPoints
    <2>5. QED  BY <2>1, <2>2, <2>3, <2>4 DEF Flow0
  <1>4. FlowSound(r)' /\ Alone(r)'
    BY <1>1, <1>3 DEF FlowSound, Alone, Refusing, Marking, Creating, Holding
  <1>5. QED  BY <1>1, <1>2, <1>3, <1>4, QuietFlowStep

LEMMA ResolveScopeStep == ASSUME RecInv, NEW r \in Requests, ResolveScope(r) PROVE RecInv'
  <1>1. UNCHANGED <<record, created, denied, school, attempt, marked>> /\ flow[r].pc = "scope"
    BY DEF ResolveScope, At
  <1>2. CASE Refuse(r, "denied") /\ (UNCHANGED out \/ Disconnect(r))
    BY <1>1, <1>2, RefuseKeeps, OutTyped DEF Disconnect, Refusing
  <1>3. CASE Finish(r)
    BY <1>1, <1>3, FinishKeeps
  <1>4. CASE /\ roster # {} /\ Disconnect(r) /\ UNCHANGED req
             /\ flow' = [flow EXCEPT ![r].pc = "create", ![r].roster = roster]
    <2>1. BatchInv'
      BY <1>1, <1>4, Outside, OutTyped DEF Disconnect
    <2>2. roster \subseteq Students
      BY TypeSplit DEF RecInv, BatchInv, TypedRest
    <2>3. /\ flow' \in [Requests -> Flow0] /\ \A q \in Requests \ {r} : flow'[q] = flow[q]
          /\ flow'[r].pc = "create" /\ flow'[r].user = flow[r].user
          /\ flow'[r].attempt = flow[r].attempt /\ flow'[r].roster = roster
      BY <1>4, <2>2, ZenonT(40) DEF RecInv, FlowTyped, Flow0, FlowPoints
    <2>4. FlowSound(r)'
      BY <1>1, <1>4, <2>3 DEF RecInv, FlowSound, Exists, Refusing, Marking, Creating
    <2>5. Alone(r)'
      BY <1>1, <2>3 DEF RecInv, Alone, Creating, Holding
    <2>6. QED  BY <1>1, <1>4, <2>1, <2>3, <2>4, <2>5, QuietFlowStep
  <1>5. QED  BY <1>2, <1>3, <1>4 DEF ResolveScope

\* The attempt is inserted before anybody knows of it.
LEMMA CreateAttemptStep ==
    ASSUME RecInv, NEW r \in Requests, NEW s, CreateAttempt(r, s) PROVE RecInv'
  <1> DEFINE a == flow[r].attempt
             c == flow[r].roster
  <1>1. /\ UNCHANGED <<record, created, denied, school, marked>> /\ flow[r].pc = "create"
        /\ s \in c \cup {None}
        /\ attempt' = [attempt EXCEPT ![a].roster = c, ![a].matched = s]
    BY DEF CreateAttempt, At
  <1>2. /\ a \in Attempts /\ ~ Exists(a) /\ c # {} /\ c \subseteq Students /\ s \in Students \cup {None}
        /\ flow[r].user \in Users /\ flow[r] \in Flow0 /\ flow \in [Requests -> Flow0]
        /\ attempt \in [Attempts -> Attempt0] /\ marked \in [Attempts -> SUBSET Students]
    BY <1>1 DEF RecInv, FlowSound, FlowTyped, Flow0, Creating
  <1>3. /\ attempt' \in [Attempts -> Attempt0]
        /\ \A b \in Attempts \ {a} : attempt'[b] = attempt[b]
        /\ attempt'[a].roster = c /\ attempt'[a].matched = s
        /\ attempt'[a].confirmed = attempt[a].confirmed /\ attempt'[a].linked = attempt[a].linked
    BY <1>1, <1>2 DEF Attempt0
  <1>4. ASSUME NEW b \in Attempts PROVE AttemptSound(b)'
    <2>1. AttemptSound(b)
      BY DEF RecInv
    <2>2. CASE b = a
      <3>1. marked[a] = {} /\ attempt[a].confirmed = None /\ attempt[a].linked = None
        BY <1>2, <2>1, <2>2 DEF AttemptSound, Exists
      <3>2. QED  BY <1>1, <1>2, <1>3, <2>2, <3>1 DEF AttemptSound, Exists
    <2>3. CASE b # a
      BY <1>1, <1>3, <2>1, <2>3 DEF AttemptSound, Exists
    <2>4. QED  BY <2>2, <2>3
  <1>5. ASSUME NEW b \in Attempts, Exists(b)
        PROVE  attempt'[b].roster = attempt[b].roster /\ attempt'[b].matched = attempt[b].matched
    BY <1>2, <1>3, <1>5
  <1>6. ASSUME NEW q \in Requests \ {r}
        PROVE  /\ flow[q].pc \in Creating => attempt'[flow[q].attempt].roster = {}
               /\ flow[q].pc = "confirming" => attempt'[flow[q].attempt].confirmed = None
    <2>1. FlowSound(q) /\ Alone(r) /\ flow[q] \in Flow0
      BY <1>2 DEF RecInv
    <2>2. CASE flow[q].pc \in Creating
      <3>1. flow[q].attempt \in Attempts \ {a} /\ ~ Exists(flow[q].attempt)
        BY <1>1, <2>1, <2>2 DEF Alone, FlowSound, Creating
      <3>2. QED  BY <1>3, <2>2, <3>1 DEF Exists, Creating
    <2>3. CASE flow[q].pc = "confirming"
      <3>1. flow[q].attempt \in Attempts /\ attempt[flow[q].attempt].confirmed = None
        BY <2>1, <2>3 DEF FlowSound
      <3>2. QED  BY <1>3, <2>3, <3>1 DEF Creating
    <2>4. QED  BY <2>2, <2>3
  <1>7. CASE Finish(r)
    <2>1. /\ BatchInv' /\ flow' \in [Requests -> Flow0] /\ FlowSound(r)' /\ Alone(r)'
          /\ \A q \in Requests \ {r} : flow'[q] = flow[q] /\ req'[q] = req[q]
      BY <1>1, <1>7, FinishStep
    <2>2. FlowTyped'
      BY <1>1, <1>2, <1>3, <2>1 DEF FlowTyped
    <2>3. QED  BY <1>1, <1>4, <1>5, <1>6, <2>1, <2>2, StepOf
  <1>8. CASE /\ s # None /\ MarkPresent(r, s) /\ Disconnect(r)
             /\ flow' = [flow EXCEPT ![r].pc = "marking", ![r].student = s]
    <2>1. /\ BatchInv' /\ \A q \in Requests \ {r} : req'[q] = req[q]
          /\ req'[r].pc = "connect" /\ req'[r].batch = <<[student |-> s, status |-> Present]>>
      <3>1. s \in Students /\ out' \subseteq Requests \X {"request", "batch", "audit"}
        BY <1>2, <1>8, OutTyped DEF Disconnect
      <3>2. QED  BY <1>1, <1>2, <1>8, <3>1, MarkStep
    <2>2. /\ flow' \in [Requests -> Flow0] /\ \A q \in Requests \ {r} : flow'[q] = flow[q]
          /\ flow'[r].pc = "marking" /\ flow'[r].student = s /\ flow'[r].user = flow[r].user
          /\ flow'[r].attempt = a
      BY <1>2, <1>8 DEF Flow0, FlowPoints
    <2>3. FlowTyped'
      BY <1>1, <1>2, <1>3, <2>2 DEF FlowTyped
    <2>4. FlowSound(r)'
      BY <1>1, <1>2, <1>3, <1>8, <2>1, <2>2 DEF FlowSound, Refusing, Marking, Creating
    <2>5. Alone(r)'
      BY <2>2 DEF Alone, Creating, Holding
    <2>6. QED  BY <1>1, <1>4, <1>5, <1>6, <2>1, <2>2, <2>3, <2>4, <2>5, StepOf
  <1>9. QED  BY <1>7, <1>8 DEF CreateAttempt

\* A step that points r's attempt at the row of r's student, or confirms it.
LEMMA SettleStep ==
    ASSUME RecInv, NEW r \in Requests, Finish(r), UNCHANGED <<record, created, denied, school, marked>>,
           flow[r].pc \in Marking, req[r].pc = "saved",
           attempt' \in [Attempts -> Attempt0],
           \A b \in Attempts \ {flow[r].attempt} : attempt'[b] = attempt[b],
           attempt'[flow[r].attempt].roster = attempt[flow[r].attempt].roster,
           attempt'[flow[r].attempt].matched = attempt[flow[r].attempt].matched,
           attempt'[flow[r].attempt].linked = flow[r].student,
           \/ /\ flow[r].pc = "marking"
              /\ attempt'[flow[r].attempt].confirmed = attempt[flow[r].attempt].confirmed
           \/ flow[r].pc = "confirming" /\ attempt'[flow[r].attempt].confirmed = flow[r].student
    PROVE  RecInv'
  <1> DEFINE a == flow[r].attempt
             s == flow[r].student
  <1>1. /\ a \in Attempts /\ s \in Students /\ s \in attempt[a].roster /\ s \in marked[a]
        /\ FlowSound(r) /\ AttemptSound(a)
    BY DEF RecInv, FlowSound, Marking
  <1>2. /\ BatchInv' /\ flow' \in [Requests -> Flow0] /\ FlowSound(r)' /\ Alone(r)'
        /\ \A q \in Requests \ {r} : flow'[q] = flow[q] /\ req'[q] = req[q]
    BY FinishStep
  <1>3. FlowTyped'
    BY <1>2 DEF FlowTyped, RecInv
  <1>4. ASSUME NEW b \in Attempts PROVE AttemptSound(b)'
    <2>1. CASE b = a
      <3>1. CASE flow[r].pc = "marking"
        <4>1. attempt[a].matched = s /\ s # None
          BY <1>1, <3>1, AttemptsAssumption DEF FlowSound
        <4>2. attempt[a].confirmed = None
          BY <1>1, <4>1 DEF AttemptSound
        <4>3. QED  BY <1>1, <2>1, <3>1, <4>1, <4>2 DEF AttemptSound, Exists
      <3>2. CASE flow[r].pc = "confirming"
        <4>1. attempt[a].matched = None
          BY <1>1, <3>2 DEF FlowSound
        <4>2. attempt'[a].confirmed = s
          BY <3>2
        <4>3. QED  BY <1>1, <2>1, <4>1, <4>2 DEF AttemptSound, Exists
      <3>3. QED  BY <3>1, <3>2
    <2>2. CASE b # a
      <3>1. AttemptSound(b) /\ attempt'[b] = attempt[b]
        BY <2>2 DEF RecInv
      <3>2. QED  BY <3>1 DEF AttemptSound, Exists
    <2>3. QED  BY <2>1, <2>2
  <1>5. ASSUME NEW q \in Requests \ {r}
        PROVE  /\ flow[q].pc \in Creating => attempt'[flow[q].attempt].roster = {}
               /\ flow[q].pc = "confirming" => attempt'[flow[q].attempt].confirmed = None
    <2>1. FlowSound(q) /\ Alone(r)
      BY DEF RecInv
    <2>2. CASE flow[q].pc \in Creating
      <3>1. flow[q].attempt \in Attempts /\ ~ Exists(flow[q].attempt)
        BY <2>1, <2>2 DEF FlowSound, Creating
      <3>2. attempt'[flow[q].attempt].roster = attempt[flow[q].attempt].roster
        BY <3>1
      <3>3. QED  BY <2>2, <3>1, <3>2 DEF Exists, Creating
    <2>3. CASE flow[q].pc = "confirming"
      <3>1. flow[q].attempt \in Attempts /\ attempt[flow[q].attempt].confirmed = None
        BY <2>1, <2>3 DEF FlowSound
      <3>2. CASE flow[q].attempt = a
        <4>1. flow[r].pc = "marking"
          BY <2>1, <2>3, <3>2 DEF Alone, Holding
        <4>2. QED  BY <2>3, <3>1, <3>2, <4>1 DEF Creating
      <3>3. CASE flow[q].attempt # a
        BY <2>3, <3>1, <3>3 DEF Creating
      <3>4. QED  BY <3>2, <3>3
    <2>4. QED  BY <2>2, <2>3
  <1>6. ASSUME NEW b \in Attempts
        PROVE  attempt'[b].roster = attempt[b].roster /\ attempt'[b].matched = attempt[b].matched
    OBVIOUS
  <1>7. QED  BY <1>2, <1>3, <1>4, <1>5, <1>6, StepOf

LEMMA LinkStep == ASSUME RecInv, NEW r \in Requests, Link(r) PROVE RecInv'
  <1>1. flow[r].attempt \in Attempts /\ flow[r].student \in Students /\ flow[r].pc = "marking"
        /\ attempt \in [Attempts -> Attempt0]
    BY DEF Link, At, RecInv, FlowSound, Marking, FlowTyped
  <1>2. attempt' = [attempt EXCEPT ![flow[r].attempt].linked = flow[r].student]
    BY DEF Link
  <1>3. /\ attempt' \in [Attempts -> Attempt0]
        /\ \A b \in Attempts \ {flow[r].attempt} : attempt'[b] = attempt[b]
        /\ attempt'[flow[r].attempt].roster = attempt[flow[r].attempt].roster
        /\ attempt'[flow[r].attempt].matched = attempt[flow[r].attempt].matched
        /\ attempt'[flow[r].attempt].linked = flow[r].student
        /\ attempt'[flow[r].attempt].confirmed = attempt[flow[r].attempt].confirmed
    BY <1>1, <1>2 DEF Attempt0
  <1>4. Finish(r) /\ req[r].pc = "saved" /\ UNCHANGED <<record, created, denied, school, marked>>
    BY DEF Link, At
  <1>5. QED  BY <1>1, <1>3, <1>4, SettleStep DEF Marking

LEMMA RecordStep == ASSUME RecInv, NEW r \in Requests, RecordConfirmation(r) PROVE RecInv'
  <1>1. flow[r].attempt \in Attempts /\ flow[r].student \in Students /\ flow[r].pc = "confirming"
        /\ attempt \in [Attempts -> Attempt0]
    BY DEF RecordConfirmation, At, RecInv, FlowSound, Marking, FlowTyped
  <1>2. attempt' = [attempt EXCEPT ![flow[r].attempt].confirmed = flow[r].student,
                                   ![flow[r].attempt].linked = flow[r].student]
    BY DEF RecordConfirmation
  <1>3. /\ attempt' \in [Attempts -> Attempt0]
        /\ \A b \in Attempts \ {flow[r].attempt} : attempt'[b] = attempt[b]
        /\ attempt'[flow[r].attempt].roster = attempt[flow[r].attempt].roster
        /\ attempt'[flow[r].attempt].matched = attempt[flow[r].attempt].matched
        /\ attempt'[flow[r].attempt].linked = flow[r].student
        /\ attempt'[flow[r].attempt].confirmed = flow[r].student
    BY <1>1, <1>2 DEF Attempt0
  <1>4. Finish(r) /\ req[r].pc = "saved" /\ UNCHANGED <<record, created, denied, school, marked>>
    BY DEF RecordConfirmation, At
  <1>5. QED  BY <1>1, <1>3, <1>4, SettleStep DEF Marking

(***************************************************************************)
(* confirm_attempt.                                                        *)
(***************************************************************************)
LEMMA LockStep == ASSUME RecInv, NEW r \in Requests, Lock(r) PROVE RecInv'
  <1>1. UNCHANGED <<record, created, denied, school, out, attempt, marked>> /\ flow[r].pc = "lock"
    BY DEF Lock, At
  <1>2. CASE Refuse(r, "denied")
    BY <1>1, <1>2, RefuseKeeps, OutTyped DEF Refusing
  <1>3. CASE Become(r, "check") /\ UNCHANGED req /\ ~ Locked(flow[r].attempt, r)
    <2>1. BatchInv'
      BY <1>1, <1>3, Outside, OutTyped
    <2>2. /\ flow' \in [Requests -> Flow0] /\ \A q \in Requests \ {r} : flow'[q] = flow[q]
          /\ flow'[r].pc = "check" /\ flow'[r].user = flow[r].user
          /\ flow'[r].attempt = flow[r].attempt
      BY <1>3 DEF Become, RecInv, FlowTyped, Flow0, FlowPoints
    <2>3. FlowSound(r)'
      BY <1>1, <1>3, <2>2 DEF RecInv, FlowSound, Refusing, Marking, Creating
    <2>4. Alone(r)'
      BY <1>3, <2>2 DEF Alone, Locked, Creating, Holding
    <2>5. QED  BY <1>1, <1>3, <2>1, <2>2, <2>3, <2>4, QuietFlowStep
  <1>4. QED  BY <1>2, <1>3 DEF Lock

LEMMA CheckConfirmStep == ASSUME RecInv, NEW r \in Requests, CheckConfirm(r) PROVE RecInv'
  <1>1. UNCHANGED <<record, created, denied, school, attempt, marked>> /\ flow[r].pc = "check"
    BY DEF CheckConfirm, At
  <1>2. CASE Refuse(r, "refused") /\ UNCHANGED out
    BY <1>1, <1>2, RefuseKeeps, OutTyped DEF Refusing, Holding
  <1>3. CASE Finish(r)
    BY <1>1, <1>3, FinishKeeps
  <1>4. CASE /\ Confirmable(r) /\ attempt[flow[r].attempt].confirmed = None
             /\ Become(r, "confirming") /\ MarkPresent(r, flow[r].student) /\ UNCHANGED out
    <2> DEFINE s == flow[r].student
    <2>1. /\ flow[r].user \in Users /\ flow[r].attempt \in Attempts
          /\ attempt[flow[r].attempt].matched = None
          /\ s \in attempt[flow[r].attempt].roster /\ s \in Students
      BY <1>1, <1>4 DEF Confirmable, RecInv, FlowSound, FlowTyped, Attempt0
    <2>2. /\ BatchInv' /\ \A q \in Requests \ {r} : req'[q] = req[q]
          /\ req'[r].pc = "connect" /\ req'[r].batch = <<[student |-> s, status |-> Present]>>
      BY <1>1, <1>4, <2>1, MarkStep, OutTyped
    <2>3. /\ flow' \in [Requests -> Flow0] /\ \A q \in Requests \ {r} : flow'[q] = flow[q]
          /\ flow'[r].pc = "confirming" /\ flow'[r].user = flow[r].user
          /\ flow'[r].attempt = flow[r].attempt /\ flow'[r].student = s
      <3>1. flow \in [Requests -> Flow0] /\ flow' = [flow EXCEPT ![r].pc = "confirming"]
        BY <1>4 DEF Become, RecInv, FlowTyped
      <3>2. QED  BY <3>1 DEF Flow0, FlowPoints
    <2>4. FlowSound(r)'
      BY <1>1, <1>4, <2>1, <2>2, <2>3 DEF FlowSound, Refusing, Marking, Creating
    <2>5. Alone(r)'
      BY <1>1, <2>3 DEF RecInv, Alone, Creating, Holding
    <2>6. QED  BY <1>1, <2>2, <2>3, <2>4, <2>5, QuietFlowStep
  <1>5. QED  BY <1>2, <1>3, <1>4 DEF CheckConfirm

LEMMA EndStep ==
    ASSUME RecInv, NEW r \in Requests, Propagate(r) \/ FlowTimeout(r) \/ Drop(r) PROVE RecInv'
  BY FinishKeeps DEF Propagate, FlowTimeout, Drop, register

LEMMA FlowKeeps == ASSUME RecInv, NEW r \in Requests, FlowStep(r) PROVE RecInv'
  BY OpenStep, ResolveScopeStep, LinkStep, LockStep, CheckConfirmStep, RecordStep, EndStep,
     CreateAttemptStep DEF FlowStep

(***************************************************************************)
(* The batch of a flow, and batches sent as such.                          *)
(***************************************************************************)
\* What a step of a batch that commits nothing does to its own request.
LEMMA BatchMoves ==
    ASSUME BatchInv, NEW r \in Requests, Proceed(r) \/ GiveUp(r) \/ Abort(r)
    PROVE  /\ UNCHANGED <<record, created>> /\ \A q \in Requests \ {r} : req'[q] = req[q]
           /\ req[r].pc # "idle" /\ req'[r].pc \notin {"idle", "saved"}
           /\ req'[r].batch = req[r].batch
           /\ req[r].pc \in {"deny", "audit_denial", "failed"} =>
                 req'[r].pc \in {"deny", "audit_denial", "failed"}
  <1>1. req \in [Requests -> Call0] /\ req[r] \in Call0
    BY TypeSplit DEF BatchInv
  <1>2. ASSUME NEW pc \in {"authorize", "deny", "validate", "audit_denial", "commit", "failed"},
               Goto(r, pc)
        PROVE  /\ \A q \in Requests \ {r} : req'[q] = req[q]
               /\ req'[r].pc = pc /\ req'[r].batch = req[r].batch
    BY <1>1, <1>2 DEF Goto, Call0
  <1>3. CASE Fail(r) /\ req[r].pc # "idle"
    <2>1. Goto(r, "failed") /\ UNCHANGED <<record, created>>
      BY <1>3 DEF Fail, End, register
    <2>2. QED  BY <1>2, <1>3, <2>1
  <1>4. CASE Connect(r) \/ OpenAudit(r)
    <2>1. CASE Connect(r)
      <3>1. Goto(r, "authorize") /\ req[r].pc = "connect" /\ UNCHANGED <<record, created>>
        BY <2>1 DEF Connect, register
      <3>2. QED  BY <1>2, <3>1
    <2>2. CASE OpenAudit(r)
      <3>1. Goto(r, "audit_denial") /\ req[r].pc = "deny" /\ UNCHANGED <<record, created>>
        BY <2>2 DEF OpenAudit, register
      <3>2. QED  BY <1>2, <3>1
    <2>3. QED  BY <1>4, <2>1, <2>2
  <1>5. CASE Authorize(r)
    <2>1. CASE Fail(r)
      BY <1>3, <1>5, <2>1 DEF Authorize
    <2>2. CASE ~ Fail(r)
      <3>1. /\ Goto(r, "validate") \/ Goto(r, "deny")
            /\ req[r].pc = "authorize" /\ UNCHANGED <<record, created>>
        BY <1>5, <2>2 DEF Authorize, register
      <3>2. QED  BY <1>2, <3>1
    <2>3. QED  BY <2>1, <2>2
  <1>6. CASE AuditDenial(r)
    <2>1. Goto(r, "failed") /\ req[r].pc = "audit_denial" /\ UNCHANGED <<record, created>>
      BY <1>6 DEF AuditDenial, End
    <2>2. QED  BY <1>2, <2>1
  <1>7. CASE Validate(r)
    <2>1. CASE Fail(r)
      BY <1>3, <1>7, <2>1 DEF Validate
    <2>2. CASE ~ Fail(r)
      <3>1. /\ req' = [req EXCEPT ![r].pc = "read", ![r].at = 1]
            /\ req[r].pc = "validate" /\ UNCHANGED <<record, created>>
        BY <1>7, <2>2 DEF Validate, register
      <3>2. QED  BY <1>1, <3>1 DEF Call0
    <2>3. QED  BY <2>1, <2>2
  <1>8. CASE Read(r)
    <2>1. /\ req[r].pc = "read" /\ UNCHANGED <<record, created>>
          /\ req' = [req EXCEPT ![r].pc = "write",
                                ![r].loaded[Mark(r).student] = record[Mark(r).student]]
      BY <1>8 DEF Read, register
    <2>2. QED  BY <1>1, <2>1 DEF Call0
  <1>9. CASE Write(r)
    <2>1. CASE Fail(r)
      BY <1>3, <1>9, <2>1 DEF Write
    <2>2. CASE ~ Fail(r)
      BY <1>9, <2>2, FlushPasses DEF Write
    <2>3. QED  BY <2>1, <2>2
  <1>10. CASE GiveUp(r) \/ Abort(r)
    <2>1. Fail(r) /\ req[r].pc # "idle"
      BY <1>10 DEF GiveUp, PoolTimeout, DeadlockVictim, Deadlocked, Waits, Abort
    <2>2. QED  BY <1>3, <2>1
  <1>11. QED  BY <1>4, <1>5, <1>6, <1>7, <1>8, <1>9, <1>10 DEF Proceed

LEMMA MovesKeep ==
    ASSUME RecInv, NEW r \in Requests, Proceed(r) \/ GiveUp(r) \/ Abort(r),
           UNCHANGED <<attempt, flow, marked>>
    PROVE  RecInv'
  <1>1. BatchInv'
    BY ProceedStep, EndsEarly DEF RecInv
  <1>2. /\ UNCHANGED <<record, created>> /\ \A q \in Requests \ {r} : req'[q] = req[q]
        /\ req[r].pc # "idle" /\ req'[r].pc \notin {"idle", "saved"}
        /\ req'[r].batch = req[r].batch
        /\ req[r].pc \in {"deny", "audit_denial", "failed"} =>
              req'[r].pc \in {"deny", "audit_denial", "failed"}
    BY BatchMoves DEF RecInv
  <1>3. FlowSound(r)'
    BY <1>2 DEF RecInv, FlowSound, Exists
  <1>4. Alone(r)'
    BY DEF RecInv, Alone
  <1>5. QED  BY <1>1, <1>2, <1>3, <1>4, QuietFlowStep DEF RecInv, FlowTyped

\* A committed batch of a flow has marked the flow's student.
LEMMA CommitKeeps ==
    ASSUME RecInv, NEW r \in Requests, Commit(r), UNCHANGED <<attempt, flow>>,
           marked' = IF flow[r].attempt = None THEN marked
                     ELSE [marked EXCEPT ![flow[r].attempt] = @ \cup {flow[r].student}]
    PROVE  RecInv'
  <1> DEFINE a == flow[r].attempt
             s == flow[r].student
  <1>1. /\ BatchInv /\ BatchInv' /\ FlowSound(r) /\ req[r].pc = "commit"
        /\ req \in [Requests -> Call0] /\ flow[r] \in Flow0
    BY CommitStep, TypeSplit DEF RecInv, Commit, BatchInv, FlowTyped
  <1>2. PICK pc \in {"saved", "failed"} : Goto(r, pc)
    BY DEF Commit, End
  <1>3. /\ \A q \in Requests \ {r} : req'[q] = req[q]
        /\ req'[r].pc \in {"saved", "failed"} /\ req'[r].batch = req[r].batch
    BY <1>1, <1>2 DEF Goto, Call0
  <1>4. \A t \in Students : record[t] # None => record'[t] # None
    BY RowsStay DEF RecInv
  <1>5. CASE a = None
    <2>1. flow[r].pc = "idle" /\ marked' = marked
      BY <1>1, <1>5, AttemptsAssumption DEF FlowSound
    <2>2. FlowTyped'
      BY <2>1 DEF RecInv, FlowTyped
    <2>3. ASSUME NEW b \in Attempts PROVE AttemptSound(b)'
      <3>1. AttemptSound(b) /\ marked[b] \subseteq Students
        BY DEF RecInv, FlowTyped
      <3>2. QED  BY <1>4, <2>1, <3>1 DEF AttemptSound, Exists
    <2>4. FlowSound(r)' /\ Alone(r)'
      BY <1>1, <2>1 DEF RecInv, FlowSound, Alone, Creating, Refusing, Marking
    <2>5. \A q \in Requests \ {r} : FlowSound(q)
      BY DEF RecInv
    <2>6. ASSUME NEW q \in Requests \ {r}
          PROVE  /\ flow[q].pc \in Creating => attempt'[flow[q].attempt].roster = {}
                 /\ flow[q].pc = "confirming" => attempt'[flow[q].attempt].confirmed = None
      BY <2>5 DEF FlowSound, Exists
    <2>7. QED  BY <1>1, <1>3, <2>1, <2>2, <2>3, <2>4, <2>6, StepOf
  <1>6. CASE a # None
    <2>1. /\ flow[r].pc \in Marking /\ a \in Attempts /\ s \in Students
          /\ s \in attempt[a].roster
          /\ req[r].batch = <<[student |-> s, status |-> Present]>>
      <3>1. flow[r].pc # "idle"
        BY <1>1, <1>6 DEF FlowSound, NoFlow
      <3>2. flow[r].pc \in Marking
        BY <1>1, <3>1 DEF FlowSound, Flow0, FlowPoints, Creating, Refusing, Marking
      <3>3. QED  BY <1>1, <3>1, <3>2 DEF FlowSound
    <2>2. record'[s] # None
      <3>1. [student |-> s, status |-> Present] \in Marks(r)
        BY <2>1 DEF Marks
      <3>2. \E m \in Marks(r) : m.student = s
        BY <3>1
      <3> DEFINE m == CHOOSE n \in Marks(r) : n.student = s
      <3>3. m \in Marks(r) /\ record'[s] = Result(r, m)
        BY <2>1, <3>2 DEF Commit
      <3>4. QED  BY <1>1, <3>3, ResultIsRow, NoneAssumption
    <2>3. /\ marked' \in [Attempts -> SUBSET Students] /\ marked'[a] = marked[a] \cup {s}
          /\ \A b \in Attempts \ {a} : marked'[b] = marked[b]
      BY <1>6, <2>1 DEF RecInv, FlowTyped
    <2>4. FlowTyped'
      BY <2>3 DEF RecInv, FlowTyped
    <2>5. ASSUME NEW b \in Attempts PROVE AttemptSound(b)'
      <3>1. AttemptSound(b) /\ marked[b] \subseteq Students
        BY DEF RecInv, FlowTyped
      <3>2. CASE b = a
        BY <1>4, <2>1, <2>2, <2>3, <3>1, <3>2 DEF AttemptSound, Exists
      <3>3. CASE b # a
        BY <1>4, <2>3, <3>1, <3>3 DEF AttemptSound, Exists
      <3>4. QED  BY <3>2, <3>3
    <2>6. FlowSound(r)'
      BY <1>1, <1>3, <2>1, <2>3 DEF FlowSound, Exists, Marking, Creating, Refusing
    <2>7. Alone(r)'
      BY DEF RecInv, Alone
    <2>8. \A q \in Requests \ {r} : FlowSound(q)
      BY DEF RecInv
    <2>9. ASSUME NEW q \in Requests \ {r}
          PROVE  /\ flow[q].pc \in Creating => attempt'[flow[q].attempt].roster = {}
                 /\ flow[q].pc = "confirming" => attempt'[flow[q].attempt].confirmed = None
      BY <2>8 DEF FlowSound, Exists
    <2>10. \A b \in Attempts : marked[b] \subseteq marked'[b]
      BY <2>3
    <2>11. QED  BY <1>1, <1>3, <2>4, <2>5, <2>6, <2>7, <2>9, <2>10, StepOf
  <1>7. QED  BY <1>5, <1>6

LEMMA BatchKeeps == ASSUME RecInv, NEW r \in Requests, BatchStep(r) PROVE RecInv'
  BY MovesKeep, CommitKeeps DEF BatchStep

\* A slot without a flow.
LEMMA PlainKeeps ==
    ASSUME RecInv, NEW r \in Requests, flow[r].pc = "idle", BatchInv',
           UNCHANGED <<record, attempt, flow, marked>>,
           \A q \in Requests \ {r} : req'[q] = req[q]
    PROVE  RecInv'
  <1>1. FlowSound(r)' /\ Alone(r)'
    BY DEF RecInv, FlowSound, Alone, Creating, Refusing, Marking
  <1>2. QED  BY <1>1, QuietFlowStep DEF RecInv, FlowTyped

LEMMA StartKeeps == ASSUME RecInv, NEW r \in Requests, Start(r) PROVE RecInv'
  <1>1. ASSUME flow[r].pc = "idle", NEW u \in Users, NEW b \in Batches, Submit(r, u, b),
               UNCHANGED <<attempt, flow, marked>>
        PROVE  RecInv'
    <2>1. BatchInv'
      BY <1>1, SubmitStep DEF RecInv
    <2>2. UNCHANGED record /\ \A q \in Requests \ {r} : req'[q] = req[q]
      BY <1>1, TypeSplit DEF Submit, register, RecInv, BatchInv
    <2>3. QED  BY <1>1, <2>1, <2>2, PlainKeeps
  <1>2. QED  BY <1>1, StartAttemptStep, StartConfirmStep DEF Start

LEMMA AnswerKeeps == ASSUME RecInv, NEW r \in Requests, Answer(r) PROVE RecInv'
  <1>1. BatchInv'
    BY ReplyStep DEF Answer, RecInv
  <1>2. UNCHANGED record /\ \A q \in Requests \ {r} : req'[q] = req[q]
    BY TypeSplit DEF Answer, Reply, register, RecInv, BatchInv
  <1>3. QED  BY <1>1, <1>2, PlainKeeps DEF Answer

\* Steps that leave every request, every flow and every row alone.
LEMMA StillKeeps ==
    ASSUME RecInv, BatchInv', UNCHANGED <<record, req, attempt, flow, marked>> PROVE RecInv'
  <1>1. FlowTyped'
    BY DEF RecInv, FlowTyped
  <1>2. \A a \in Attempts : AttemptSound(a)'
    BY DEF RecInv, AttemptSound, Exists
  <1>3. \A r \in Requests : FlowSound(r)' /\ Alone(r)'
    BY DEF RecInv, FlowSound, Alone, Exists
  <1>4. QED  BY <1>1, <1>2, <1>3 DEF RecInv

LEMMA RecNextSound == ASSUME RecInv, [RecognitionNext]_recognitionVars PROVE RecInv'
  <1>1. CASE UNCHANGED recognitionVars
    <2>1. UNCHANGED <<record, created, denied, school, out, req, attempt, flow, marked>>
      BY <1>1 DEF recognitionVars, attendanceVars, school
    <2>2. BatchInv'
      BY <2>1, Outside, OutTyped
    <2>3. QED  BY <2>1, <2>2, StillKeeps
  <1>2. CASE Administration /\ UNCHANGED <<attempt, flow, marked>>
    <2>1. BatchInv' /\ UNCHANGED <<record, req>>
      BY <1>2, AdministrationStep
      DEF RecInv, Administration, Unassign, Remove, Close, register
    <2>2. QED  BY <1>2, <2>1, StillKeeps
  <1>3. ASSUME NEW r \in Requests, Abort(r), UNCHANGED <<attempt, flow, marked>> PROVE RecInv'
    BY <1>3, MovesKeep
  <1>4. ASSUME NEW r \in Requests, Drop(r) PROVE RecInv'
    BY <1>4, EndStep
  <1>5. QED
    BY <1>1, <1>2, <1>3, <1>4, StartKeeps, FlowKeeps, BatchKeeps, AnswerKeeps DEF RecognitionNext

LEMMA RecInitSound == ASSUME RecognitionInit PROVE RecInv
  <1>1. BatchInv /\ \A r \in Requests : req[r] = Idle
    BY InitSound DEF RecognitionInit, AttendanceInit
  <1>2. NoAttempt \in Attempt0 /\ NoFlow \in Flow0 /\ NoFlow.pc = "idle"
    BY DEF NoAttempt, Attempt0, NoFlow, Flow0, FlowPoints
  <1>3. FlowTyped
    BY <1>2 DEF RecognitionInit, FlowTyped
  <1>4. \A a \in Attempts : AttemptSound(a)
    BY DEF RecognitionInit, AttemptSound, NoAttempt, Exists
  <1>5. \A r \in Requests : flow[r] = NoFlow
    BY DEF RecognitionInit
  <1>6. \A r \in Requests : FlowSound(r) /\ Alone(r)
    BY <1>2, <1>5 DEF FlowSound, Alone, Creating, Refusing, Marking, Holding
  <1>7. QED  BY <1>1, <1>3, <1>4, <1>6 DEF RecInv

(***************************************************************************)
(* The theorems.                                                           *)
(***************************************************************************)
LEMMA RecognitionInvariance == RecognitionSpec => []RecInv
  <1>1. RecognitionInit => RecInv
    BY RecInitSound
  <1>2. RecInv /\ [RecognitionNext]_recognitionVars => RecInv'
    BY RecNextSound
  <1>3. RecognitionSpec => RecognitionInit /\ [][RecognitionNext]_recognitionVars
    BY PTL DEF RecognitionSpec
  <1>4. QED  BY <1>1, <1>2, <1>3, PTL

\* Every variable keeps its type, and an attempt the shape the check constraints of
\* its table give it, whatever flows overlap.
THEOREM RecognitionTypeCorrect == RecognitionSpec => []RecognitionTypeOK
  <1>1. RecInv => RecognitionTypeOK
    BY DEF RecInv, RecognitionTypeOK, BatchInv, FlowTyped, AttemptSound, Attempt0, Flow0
  <1>2. QED  BY <1>1, RecognitionInvariance, PTL

\* Flows that call bulk_save from two sessions leave the count of created rows right.
THEOREM RecognizedRowsAreCountedOnce == RecognitionSpec => []CreationsAuditedOnce
  <1>1. RecInv => CreationsAuditedOnce
    BY DEF RecInv, BatchInv
  <1>2. QED  BY <1>1, RecognitionInvariance, PTL

\* attendance_record_id of an attempt names a row its own batch has marked, of a student
\* it was decided for, whatever was lost between the three commits.
THEOREM LinksPointAtMarks == RecognitionSpec => []LinksAreMarks
  <1>1. RecInv => LinksAreMarks
    BY DEF RecInv, LinksAreMarks, AttemptSound
  <1>2. QED  BY <1>1, RecognitionInvariance, PTL

(***************************************************************************)
(* The attempts implement RecognitionAttempts.                             *)
(***************************************************************************)
LEMMA PromiseStutters ==
    ASSUME UNCHANGED <<attempt, record>> PROVE UNCHANGED Promise!vars
  BY DEF Promise!vars

LEMMA DecideStep ==
    ASSUME RecInv, NEW r \in Requests, NEW s, CreateAttempt(r, s)
    PROVE  \E b \in Attempts : Promise!Decide(b)
  <1> DEFINE c == flow[r].roster
  <1>0. PICK a \in Attempts : a = flow[r].attempt
    BY DEF CreateAttempt, At, RecInv, FlowSound
  <1>1. /\ record' = record /\ s \in c \cup {None} /\ flow[r].pc = "create"
        /\ attempt' = [attempt EXCEPT ![a].roster = c, ![a].matched = s]
    BY <1>0 DEF CreateAttempt, At
  <1>2. /\ a \in Attempts /\ ~ Exists(a) /\ c # {} /\ c \subseteq Students
        /\ attempt \in [Attempts -> Attempt0]
    BY <1>0, <1>1 DEF RecInv, FlowSound, FlowTyped, Flow0, Creating
  <1>3. /\ \A b \in Attempts \ {a} : attempt'[b] = attempt[b]
        /\ attempt'[a].roster = c /\ attempt'[a].matched = s /\ attempt'[a].linked = attempt[a].linked
    BY <1>1, <1>2 DEF Attempt0
  <1>4. [b \in Attempts |-> attempt'[b].roster]
           = [[b \in Attempts |-> attempt[b].roster] EXCEPT ![a] = c]
    BY <1>2, <1>3
  <1>5. [b \in Attempts |-> attempt'[b].matched]
           = [[b \in Attempts |-> attempt[b].matched] EXCEPT ![a] = s]
    BY <1>2, <1>3
  <1>6. [b \in Attempts |-> attempt'[b].linked] = [b \in Attempts |-> attempt[b].linked]
    BY <1>2, <1>3
  <1>7. Promise!Decide(a)
    <2>1. [b \in Attempts |-> attempt[b].roster][a] = {}
      BY <1>2 DEF Exists
    <2>2. c \in (SUBSET Students) \ {{}}
      BY <1>2
    <2>3. {t \in Students : record'[t] # None} = {t \in Students : record[t] # None}
      BY <1>1
    <2> HIDE DEF c
    <2>4. QED  BY ONLY <1>1, <1>4, <1>5, <1>6, <2>1, <2>2, <2>3, Zenon DEF Promise!Decide
  <1>8. QED  BY <1>7

\* Settling: the attempt is not settled, or it is settled on the same student.
LEMMA SettleOnce ==
    ASSUME RecInv, NEW r \in Requests, flow[r].pc \in Marking, req[r].pc = "saved", record' = record,
           attempt' \in [Attempts -> Attempt0],
           \A b \in Attempts \ {flow[r].attempt} : attempt'[b] = attempt[b],
           attempt'[flow[r].attempt].roster = attempt[flow[r].attempt].roster,
           attempt'[flow[r].attempt].matched = attempt[flow[r].attempt].matched,
           attempt'[flow[r].attempt].linked = flow[r].student
    PROVE  [\E b \in Attempts, t \in Students : Promise!Settle(b, t)]_(Promise!vars)
  <1>0. PICK a \in Attempts, s \in Students : a = flow[r].attempt /\ s = flow[r].student
    BY DEF RecInv, FlowSound, Marking
  <1>1. /\ a \in Attempts /\ s \in Students /\ s \in attempt[a].roster /\ s \in marked[a]
        /\ record[s] # None /\ s # None /\ FlowSound(r) /\ AttemptSound(a)
    BY <1>0, AttemptsAssumption DEF RecInv, FlowSound, AttemptSound, Marking
  <1>2. [b \in Attempts |-> attempt'[b].roster] = [b \in Attempts |-> attempt[b].roster]
    BY <1>0, <1>1
  <1>3. [b \in Attempts |-> attempt'[b].matched] = [b \in Attempts |-> attempt[b].matched]
    BY <1>0, <1>1
  <1>4. [b \in Attempts |-> attempt'[b].linked]
           = [[b \in Attempts |-> attempt[b].linked] EXCEPT ![a] = s]
    BY <1>0, <1>1
  <1>5. /\ attempt[a].matched \in {None, s}
        /\ attempt[a].linked \in {None, s}
    <2>1. CASE flow[r].pc = "marking"
      <3>1. attempt[a].matched = s
        BY <1>0, <1>1, <2>1 DEF FlowSound
      <3>2. attempt[a].confirmed = None
        BY <1>1, <3>1 DEF AttemptSound
      <3>3. QED  BY <1>1, <3>1, <3>2 DEF AttemptSound
    <2>2. CASE flow[r].pc = "confirming"
      <3>1. attempt[a].matched = None /\ attempt[a].confirmed = None
        BY <1>0, <1>1, <2>2 DEF FlowSound
      <3>2. QED  BY <1>1, <3>1 DEF AttemptSound
    <2>3. QED  BY <2>1, <2>2 DEF Marking
  <1>6. CASE attempt[a].linked = None
    <2>1. Promise!Settle(a, s)
      BY <1>1, <1>2, <1>3, <1>4, <1>5, <1>6 DEF Promise!Settle
    <2>2. QED  BY <2>1
  <1>7. CASE attempt[a].linked = s
    <2>1. [b \in Attempts |-> attempt'[b].linked] = [b \in Attempts |-> attempt[b].linked]
      BY <1>0, <1>1, <1>7
    <2>2. QED  BY <1>2, <1>3, <2>1 DEF Promise!vars
  <1>8. QED  BY <1>5, <1>6, <1>7

LEMMA AttendStep ==
    ASSUME RecInv, NEW r \in Requests, Commit(r), attempt' = attempt PROVE Promise!Attend
  <1> DEFINE D == {s \in Students : record[s] # None}
             E == {s \in Students : record'[s] # None}
  <1>1. \A t \in Students : record[t] # None => record'[t] # None
    BY RowsStay DEF RecInv
  <1>2. E = D \cup E /\ E \in SUBSET Students
    BY <1>1
  <1>3. E \in {D \cup c : c \in SUBSET Students}
    BY <1>2
  <1>4. QED  BY <1>3 DEF Promise!Attend

LEMMA StepKeepsPromise ==
    ASSUME RecInv, [RecognitionNext]_recognitionVars PROVE [Promise!Next]_(Promise!vars)
  <1>1. CASE UNCHANGED recognitionVars
    BY <1>1, PromiseStutters DEF recognitionVars, attendanceVars
  <1>2. CASE Administration /\ UNCHANGED <<attempt, flow, marked>>
    BY <1>2, PromiseStutters DEF Administration, Unassign, Remove, Close, register
  <1>3. ASSUME NEW r \in Requests, Start(r) \/ Answer(r)
        PROVE  UNCHANGED Promise!vars
    BY <1>3, PromiseStutters
    DEF Start, StartAttempt, StartConfirm, Submit, Answer, Reply, register, attendanceVars
  <1>4. ASSUME NEW r \in Requests, Abort(r), UNCHANGED <<attempt, flow, marked>>
        PROVE  UNCHANGED Promise!vars
    BY <1>4, PromiseStutters DEF Abort, Fail, register
  <1>5. ASSUME NEW r \in Requests, Drop(r) PROVE UNCHANGED Promise!vars
    BY <1>5, PromiseStutters DEF Drop, register
  <1>6. ASSUME NEW r \in Requests, BatchStep(r) PROVE [Promise!Next]_(Promise!vars)
    <2>1. CASE Proceed(r) \/ GiveUp(r)
      <3>1. UNCHANGED record
        BY <2>1, BatchMoves DEF RecInv
      <3>2. QED  BY <1>6, <3>1, PromiseStutters DEF BatchStep
    <2>2. CASE Commit(r)
      BY <1>6, <2>2, AttendStep DEF BatchStep, Promise!Next
    <2>3. QED  BY <1>6, <2>1, <2>2 DEF BatchStep
  <1>7. ASSUME NEW r \in Requests, FlowStep(r) PROVE [Promise!Next]_(Promise!vars)
    <2>1. CASE \/ Open(r) \/ ResolveScope(r) \/ Lock(r) \/ CheckConfirm(r)
               \/ Propagate(r) \/ FlowTimeout(r)
      BY <2>1, PromiseStutters
      DEF Open, ResolveScope, Lock, CheckConfirm, Propagate, FlowTimeout, At, register
    <2>2. ASSUME NEW s, CreateAttempt(r, s) PROVE Promise!Next
      BY <2>2, DecideStep DEF Promise!Next
    <2>3. CASE Link(r)
      <3>1. flow[r].attempt \in Attempts /\ flow[r].student \in Students /\ flow[r].pc = "marking"
            /\ attempt \in [Attempts -> Attempt0]
        BY <2>3 DEF Link, At, RecInv, FlowSound, Marking, FlowTyped
      <3>2. attempt' = [attempt EXCEPT ![flow[r].attempt].linked = flow[r].student]
        BY <2>3 DEF Link
      <3>3. req[r].pc = "saved" /\ record' = record
        BY <2>3 DEF Link, At
      <3>4. [\E b \in Attempts, t \in Students : Promise!Settle(b, t)]_(Promise!vars)
        BY <3>1, <3>2, <3>3, SettleOnce DEF Attempt0, Marking
      <3>5. QED  BY <3>4 DEF Promise!Next
    <2>4. CASE RecordConfirmation(r)
      <3>1. flow[r].attempt \in Attempts /\ flow[r].student \in Students /\ flow[r].pc = "confirming"
            /\ attempt \in [Attempts -> Attempt0]
        BY <2>4 DEF RecordConfirmation, At, RecInv, FlowSound, Marking, FlowTyped
      <3>2. attempt' = [attempt EXCEPT ![flow[r].attempt].confirmed = flow[r].student,
                                       ![flow[r].attempt].linked = flow[r].student]
        BY <2>4 DEF RecordConfirmation
      <3>3. req[r].pc = "saved" /\ record' = record
        BY <2>4 DEF RecordConfirmation, At
      <3>4. [\E b \in Attempts, t \in Students : Promise!Settle(b, t)]_(Promise!vars)
        BY <3>1, <3>2, <3>3, SettleOnce DEF Attempt0, Marking
      <3>5. QED  BY <3>4 DEF Promise!Next
    <2>5. QED  BY <1>7, <2>1, <2>2, <2>3, <2>4 DEF FlowStep
  <1>8. QED
    BY <1>1, <1>2, <1>3, <1>4, <1>5, <1>6, <1>7 DEF RecognitionNext

\* Recognition attempts are decided once and settled at most once, on a student of their
\* roster who has a row, however the commits of create_attempt and confirm_attempt overlap
\* and whatever ends them early.
THEOREM FlowsImplementAttempts == RecognitionSpec => ImplementsAttempts
  <1>1. RecognitionInit => Promise!Init
    BY DEF RecognitionInit, AttendanceInit, Unread, NoAttempt, Promise!Init
  <1>2. RecognitionSpec => RecognitionInit /\ [][RecognitionNext]_recognitionVars
    BY PTL DEF RecognitionSpec
  <1>3. RecInv /\ [RecognitionNext]_recognitionVars => [Promise!Next]_(Promise!vars)
    BY StepKeepsPromise
  <1>4. QED
    BY <1>1, <1>2, <1>3, RecognitionInvariance, PTL DEF ImplementsAttempts, Promise!Spec
=============================================================================
