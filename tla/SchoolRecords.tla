----------------------------- MODULE SchoolRecords -----------------------------
(***************************************************************************)
(* The administrators' writes of classrooms, subjects, profiles,           *)
(* assignments, timetable entries and announcements.  Each is one READ     *)
(* COMMITTED transaction without row locks: it reads its row and the rows  *)
(* that row refers to, validates, and later flushes the columns that       *)
(* differ from those it read, under the unique constraints of the table.   *)
(* The reads of one request are one step; they are of independent rows.    *)
(***************************************************************************)
EXTENDS SchoolViews

CONSTANTS
    Writers,      \* request slots
    Entries,       \* timetable entry ids
    Announcements, \* announcement ids
    Slots,         \* days and times, in order
    Rolls,         \* roll numbers
    EntryColumns,  \* bound: the columns of an entry an update names
    Schools,       \* the tables a behaviour may start from
    MaxRequests    \* bound: requests validated in a behaviour

VARIABLES
    write,    \* request slot -> the write it has validated, or Null
    held    \* requests validated so far

schoolVars == <<db, write, held>>

Keys(table) ==
    CASE table = "classroom"    -> Classrooms
      [] table = "subject"      -> Subjects
      [] table = "teacher"      -> Staff
      [] table = "student"      -> Pupils
      [] table = "assignment"   -> Triples
      [] table = "entry"        -> Entries
      [] table = "announcement" -> Announcements

Tables == {"classroom", "subject", "teacher", "student", "assignment", "entry",
           "announcement"}

StudentRows ==
    [active : BOOLEAN, classroom : Classrooms \cup {Null}, roll : Rolls \cup {Null}]

EntryRows ==
    [active : BOOLEAN, classroom : Classrooms, subject : Subjects, teacher : Staff,
     start : Slots, end : Slots]

AnnouncementRows ==
    [active : BOOLEAN, audience : {"all", "teacher", "student", "classroom"},
     classrooms : SUBSET Classrooms]

RowsOf(table) ==
    CASE table = "student"      -> StudentRows
      [] table = "entry"        -> EntryRows
      [] table = "announcement" -> AnnouncementRows
      [] OTHER                  -> [active : BOOLEAN]

\* A school's tables as the schema types them.
Typed(s) ==
    /\ DOMAIN s = Tables \cup {"login"}
    /\ \A table \in Tables : s[table] \in [Keys(table) -> RowsOf(table) \cup {Null}]
    /\ s.login \in [Staff \cup Pupils -> BOOLEAN]

\* What its unique constraints are for.
Distinct(s) ==
    /\ \A e, f \in {i \in Entries : s.entry[i] # Null} :
          e # f /\ s.entry[e].start = s.entry[f].start =>
              /\ s.entry[e].classroom # s.entry[f].classroom
              /\ s.entry[e].teacher # s.entry[f].teacher
    /\ \A p, q \in {i \in Pupils : s.student[i] # Null /\ s.student[i].classroom # Null} :
          p # q /\ s.student[p].classroom = s.student[q].classroom =>
              s.student[p].roll # s.student[q].roll \/ s.student[p].roll = Null

ASSUME NullAssumption ==
    /\ Null \notin Classrooms /\ Null \notin Rolls
    /\ \A table \in Tables : Null \notin RowsOf(table)
ASSUME SchoolsAssumption == \A s \in Schools : Typed(s) /\ Distinct(s)
ASSUME RequestsAssumption == MaxRequests \in Nat

\* Records over some of the columns of the rows.
Parts(rows, columns) ==
    UNION {{[f \in F |-> row[f]] : row \in rows} : F \in SUBSET columns \ {{}}}

StudentBodies == Parts(StudentRows, {"active", "classroom", "roll"})

EntryBodies == Parts(EntryRows, EntryColumns)

\* The bodies of an update: some of the columns.
Bodies(table) ==
    CASE table = "student" -> StudentBodies
      [] table = "entry"   -> EntryBodies
      [] OTHER             -> [active : BOOLEAN]

(***************************************************************************)
(* Validation.                                                             *)
(***************************************************************************)
ReferencesActive(k) ==
    /\ ActiveClassroom(k.classroom) /\ Active(db.subject[k.subject])
    /\ ActiveTeacher(k.teacher)

ValidMembership(c) == c = Null \/ ActiveClassroom(c)

TargetsActive(row) ==
    /\ row.audience = "classroom" => row.classrooms # {}
    /\ \A c \in row.classrooms : ActiveClassroom(c)

\* The request bodies the schemas accept, and what the services check of them.
MayCreate(table, key, row) ==
    /\ row.active
    /\ CASE table = "teacher"      -> db.login[key]
         [] table = "student"      -> /\ db.login[key]
                                      /\ row.classroom = Null => row.roll = Null
                                      /\ ValidMembership(row.classroom)
         [] table = "assignment"   -> ReferencesActive(key)
         [] table = "entry"        -> /\ row.start < row.end
                                      /\ ReferencesActive(Triple(row))
                                      /\ Assigned(Triple(row))
         [] table = "announcement" -> /\ row.audience # "classroom" => row.classrooms = {}
                                      /\ TargetsActive(row)
         [] OTHER                  -> TRUE

\* The row the session would hold: the fields sent over the row it loaded.
Resulting(row, changes) ==
    [f \in DOMAIN row |-> IF f \in DOMAIN changes THEN changes[f] ELSE row[f]]

Sets(changes, field, value) == field \in DOMAIN changes /\ changes[field] = value

ValidStudent(row, changes) ==
    LET result == Resulting(row, changes)
    IN  /\ "classroom" \in DOMAIN changes => ValidMembership(changes.classroom)
        /\ result.classroom = Null => result.roll = Null
        /\ Sets(changes, "active", TRUE) => ValidMembership(result.classroom)

\* Mutant: only an update that sends is_active is validated.
ValidEntrySent(row, changes) ==
    LET result == Resulting(row, changes)
    IN  /\ Sets(changes, "active", TRUE) =>
              ReferencesActive(Triple(result)) /\ Assigned(Triple(result))
        /\ result.start < result.end

ValidEntry(row, changes) ==
    LET result == Resulting(row, changes)
    IN  /\ result.active =>
              ReferencesActive(Triple(result)) /\ Assigned(Triple(result))
        /\ result.start < result.end

MayUpdate(table, key, row, changes) ==
    CASE table = "student"      -> /\ Sets(changes, "active", TRUE) => db.login[key]
                                   /\ ValidStudent(row, changes)
      [] table = "entry"        -> ValidEntry(row, changes)
      [] table = "teacher"      -> changes.active => db.login[key]
      [] table = "assignment"   -> changes.active => ReferencesActive(key)
      [] table = "announcement" -> changes.active => TargetsActive(row)
      [] OTHER                  -> TRUE

\* StudentProfileService.update clears the roll number with the classroom.
Completed(changes) ==
    IF Sets(changes, "classroom", Null) /\ "roll" \notin DOMAIN changes
    THEN [f \in DOMAIN changes \cup {"roll"} |->
             IF f = "roll" THEN Null ELSE changes[f]]
    ELSE changes

(***************************************************************************)
(* Requests.  One that is refused changes nothing and is left out.         *)
(***************************************************************************)
Hold(r, table, key, loaded, changes) ==
    /\ write[r] = Null /\ held < MaxRequests
    /\ write' = [write EXCEPT ![r] = [table |-> table, key |-> key,
                                  loaded |-> loaded, changes |-> changes]]
    /\ held' = held + 1
    /\ UNCHANGED db

\* A create knows of a row with its key only through the unique constraint.
Create(r, table, key) ==
    /\ table \in {"entry", "announcement"} => db[table][key] = Null
    /\ \E row \in RowsOf(table) :
          MayCreate(table, key, row) /\ Hold(r, table, key, Null, row)

Update(r, table, key) ==
    /\ db[table][key] # Null
    /\ \E changes \in Bodies(table) :
          /\ MayUpdate(table, key, db[table][key], Completed(changes))
          /\ Hold(r, table, key, db[table][key], Completed(changes))

\* StudentClassroomMembershipService.assign
AssignClassroom(r, p) ==
    /\ db.student[p] # Null
    /\ \E c \in Classrooms \cup {Null}, n \in Rolls \cup {Null} :
          /\ c = Null => n = Null
          /\ ValidMembership(c)
          /\ Hold(r, "student", p, db.student[p], [classroom |-> c, roll |-> n])

Deactivate(r, table, key) ==
    db[table][key] # Null /\ Hold(r, table, key, db[table][key], [active |-> FALSE])

\* Mutant: the unique constraint on classroom and roll number is missing.
CollideEntries(table, a, b) ==
    table = "entry" /\ a.start = b.start /\ (a.classroom = b.classroom \/ a.teacher = b.teacher)

\* Two rows the unique constraints of the table do not allow together; NULLs
\* are never equal.
Collide(table, a, b) ==
    CASE table = "entry"   -> a.start = b.start /\ (a.classroom = b.classroom
                                                   \/ a.teacher = b.teacher)
      [] table = "student" -> /\ a.classroom # Null /\ a.classroom = b.classroom
                              /\ a.roll # Null /\ a.roll = b.roll
      [] OTHER             -> FALSE

\* The unique constraints, the foreign keys and start < end.
Allowed(table, key, row) ==
    /\ \A other \in Keys(table) \ {key} :
          db[table][other] # Null => ~Collide(table, row, db[table][other])
    /\ table = "entry" =>
          /\ row.start < row.end
          /\ db.classroom[row.classroom] # Null /\ db.subject[row.subject] # Null
          /\ db.teacher[row.teacher] # Null

\* The row after the flush: only columns that differ from the loaded row are
\* written, over what is committed now.
Flushed(r) ==
    LET now == db[write[r].table][write[r].key]
        was == write[r].loaded
        to  == write[r].changes
    IN  IF was = Null THEN to
        ELSE [f \in DOMAIN now |->
                 IF f \in DOMAIN to /\ to[f] # was[f] THEN to[f] ELSE now[f]]

Insertable(r) == write[r].loaded = Null => db[write[r].table][write[r].key] = Null

Save(r) ==
    /\ write[r] # Null
    /\ Insertable(r) /\ Allowed(write[r].table, write[r].key, Flushed(r))
    /\ db' = [db EXCEPT ![write[r].table][write[r].key] = Flushed(r)]
    /\ write' = [write EXCEPT ![r] = Null]
    /\ UNCHANGED held

\* A constraint violation, a database error or a lost process: rolled back.
FailWrite(r) ==
    /\ write[r] # Null
    /\ write' = [write EXCEPT ![r] = Null]
    /\ UNCHANGED <<db, held>>

WriteStep(r) ==
    \/ \E table \in Tables : \E key \in Keys(table) :
          Create(r, table, key) \/ Update(r, table, key) \/ Deactivate(r, table, key)
    \/ \E p \in Pupils : AssignClassroom(r, p)
    \/ Save(r) \/ FailWrite(r)

SchoolInit ==
    /\ db \in Schools
    /\ write = [r \in Writers |-> Null]
    /\ held = 0

SchoolNext == \E r \in Writers : WriteStep(r)

SchoolSpec == SchoolInit /\ [][SchoolNext]_schoolVars

(***************************************************************************)
(* Properties.                                                             *)
(***************************************************************************)
\* What the services promise of a row: a roll number needs a classroom, and an
\* active entry a slot in order and an assignment of its teacher.
Coherent(table, row) ==
    /\ table = "student" => (row.classroom = Null => row.roll = Null)
    /\ table = "entry" => /\ row.start < row.end
                          /\ row.active => db.assignment[Triple(row)] # Null

\* A write that nobody raced on its row creates a coherent row or keeps one
\* coherent, whatever partial changes were validated against the row as it was read.
UncontendedSavesCohere ==
    [][\A r \in Writers :
          LET w == write[r]
          IN  /\ w # Null /\ write'[r] = Null /\ db' # db
              /\ w.loaded = Null \/ (w.loaded = db[w.table][w.key] /\ Coherent(w.table, w.loaded))
              => Coherent(w.table, db'[w.table][w.key])]_schoolVars

\* Every table keeps rows of its type under any interleaving of writes: no classroom or teacher is
\* booked twice for a start, and no roll number is given twice in a classroom.
TablesConsistent == Typed(db) /\ Distinct(db) /\ held \in 0 .. MaxRequests
=============================================================================
