------------------------------ MODULE SchoolViews ------------------------------
(***************************************************************************)
(* What teachers and students see of the school's tables: the paged lists  *)
(* and the reads by id of classrooms, subjects, timetable entries and      *)
(* announcements, each answered by queries of its own.  Administrators see *)
(* every row.  Rows are functions from columns; an absent row is Null.     *)
(***************************************************************************)
EXTENDS Naturals, FiniteSets

CONSTANTS Classrooms, Subjects, Staff, Pupils, Null

\* A user has one role.
ASSUME RolesAssumption == Staff \cap Pupils = {}

VARIABLE db  \* the committed tables: db.classroom[c], db.subject[s], ...

Triples == [classroom : Classrooms, subject : Subjects, teacher : Staff]

Active(row) == row # Null /\ row.active

ActiveClassroom(c) == c # Null /\ Active(db.classroom[c])

ActiveTeacher(t) == Active(db.teacher[t]) /\ db.login[t]

\* The (teacher, classroom, subject) triple a timetable entry names.
Triple(row) == [classroom |-> row.classroom, subject |-> row.subject, teacher |-> row.teacher]

Assigned(k) == Active(db.assignment[k])

(***************************************************************************)
(* Lists and counts.                                                       *)
(***************************************************************************)
\* The student's classroom, or Null when the profile or the classroom is not active.
OwnClassroom(p) ==
    IF Active(db.student[p]) /\ ActiveClassroom(db.student[p].classroom)
    THEN db.student[p].classroom ELSE Null

ClassroomsOf(t) ==
    {c \in Classrooms : ActiveClassroom(c) /\ \E k \in Triples :
        k.teacher = t /\ k.classroom = c /\ Assigned(k)}

ListedClassrooms(u) ==
    IF u \in Staff
    THEN IF Active(db.teacher[u]) THEN ClassroomsOf(u) ELSE {}
    ELSE {OwnClassroom(u)} \ {Null}

SubjectsOf(t) ==
    {s \in Subjects : Active(db.subject[s]) /\ \E k \in Triples :
        k.teacher = t /\ k.subject = s /\ Assigned(k) /\ ActiveClassroom(k.classroom)}

\* Mutant: the subject list of a classroom ignores whether its teachers are active.
SubjectsOnceIn(c) ==
    {s \in Subjects : Active(db.subject[s]) /\ \E k \in Triples :
        k.classroom = c /\ k.subject = s /\ Assigned(k)}

SubjectsIn(c) ==
    {s \in Subjects : Active(db.subject[s]) /\ \E k \in Triples :
        k.classroom = c /\ k.subject = s /\ Assigned(k) /\ ActiveTeacher(k.teacher)}

ListedSubjects(u) ==
    IF u \in Staff
    THEN IF Active(db.teacher[u]) THEN SubjectsOf(u) ELSE {}
    ELSE IF OwnClassroom(u) = Null THEN {} ELSE SubjectsIn(OwnClassroom(u))

\* Mutant: an entry outlives the assignment of its teacher.
ScheduledUnassigned(row) ==
    /\ Active(row)
    /\ ActiveClassroom(row.classroom) /\ Active(db.subject[row.subject])
    /\ ActiveTeacher(row.teacher)

\* The joins and conditions of list_by_classroom and list_by_teacher.
Scheduled(row) ==
    /\ Active(row) /\ Assigned(Triple(row))
    /\ ActiveClassroom(row.classroom) /\ Active(db.subject[row.subject])
    /\ ActiveTeacher(row.teacher)

ListedEntries(u) ==
    {e \in DOMAIN db.entry : Scheduled(db.entry[e]) /\
        IF u \in Staff THEN Active(db.teacher[u]) /\ db.entry[e].teacher = u
        ELSE OwnClassroom(u) # Null /\ db.entry[e].classroom = OwnClassroom(u)}

\* The classrooms whose announcements the user may read.
AudienceClassrooms(u) ==
    IF u \in Pupils THEN {OwnClassroom(u)} \ {Null}
    ELSE IF Active(db.teacher[u]) THEN ClassroomsOf(u) ELSE {}

Addressed(row, u) ==
    \/ row.audience = "all"
    \/ row.audience = (IF u \in Staff THEN "teacher" ELSE "student")
    \/ row.audience = "classroom" /\ row.classrooms \cap AudienceClassrooms(u) # {}

ListedAnnouncements(u) ==
    {a \in DOMAIN db.announcement :
        Active(db.announcement[a]) /\ Addressed(db.announcement[a], u)}

(***************************************************************************)
(* Reads by id: TRUE when the row is returned, FALSE when it is not found. *)
(***************************************************************************)
GetsClassroom(u, c) ==
    /\ ActiveClassroom(c)
    /\ IF u \in Staff THEN Active(db.teacher[u]) /\ c \in ClassroomsOf(u)
       ELSE Active(db.student[u]) /\ c = db.student[u].classroom

AvailableForTeacher(s, t) ==
    \E k \in Triples : /\ k.subject = s /\ k.teacher = t
                       /\ Active(db.subject[s]) /\ Assigned(k) /\ ActiveClassroom(k.classroom)

AvailableForClassroom(s, c) ==
    \E k \in Triples : /\ k.subject = s /\ k.classroom = c
                       /\ Active(db.subject[s]) /\ Assigned(k) /\ ActiveTeacher(k.teacher)

GetsSubject(u, s) ==
    /\ Active(db.subject[s])
    /\ IF u \in Staff THEN Active(db.teacher[u]) /\ AvailableForTeacher(s, u)
       ELSE OwnClassroom(u) # Null /\ AvailableForClassroom(s, OwnClassroom(u))

GetsEntry(u, e) ==
    LET row == db.entry[e]
    IN  /\ Active(row)
        /\ ActiveClassroom(row.classroom) /\ Active(db.subject[row.subject])
        /\ Active(db.teacher[row.teacher]) /\ db.login[row.teacher]
        /\ IF u \in Staff THEN Active(db.teacher[u]) /\ row.teacher = u
           ELSE OwnClassroom(u) # Null /\ OwnClassroom(u) = row.classroom
        /\ Assigned(Triple(row))

GetsAnnouncement(u, a) ==
    db.announcement[a] # Null /\ db.announcement[a].active /\ Addressed(db.announcement[a], u)

\* AttendanceReadService.authorize_scope: what is not the teacher's is not found,
\* whether it exists or not.
ReadAnswer(t, c, s) ==
    IF ~Active(db.teacher[t]) \/ db.classroom[c] = Null \/ db.subject[s] = Null
       \/ ~Assigned([classroom |-> c, subject |-> s, teacher |-> t]) THEN "scope_not_found"
    ELSE IF ~ActiveClassroom(c) \/ ~Active(db.subject[s]) THEN "inactive_reference"
    ELSE "granted"

\* AttendanceService._authorize_teacher_scope and the active checks after it.
MarksAttendance(t, c, s) ==
    /\ ActiveClassroom(c) /\ Active(db.subject[s]) /\ Active(db.teacher[t])
    /\ Assigned([classroom |-> c, subject |-> s, teacher |-> t])

(***************************************************************************)
(* Properties.                                                             *)
(***************************************************************************)
\* A list shows exactly the rows the same user can open by id, for each kind
\* of row, although the two are answered by different queries.
ListsMatchGets ==
    \A u \in Staff \cup Pupils :
        /\ ListedClassrooms(u) = {c \in Classrooms : GetsClassroom(u, c)}
        /\ ListedSubjects(u) = {s \in Subjects : GetsSubject(u, s)}
        /\ ListedEntries(u) = {e \in DOMAIN db.entry : GetsEntry(u, e)}
        /\ ListedAnnouncements(u) = {a \in DOMAIN db.announcement : GetsAnnouncement(u, a)}

\* A timetable entry or a classroom announcement never names what the user who
\* sees it cannot open; a teacher can mark attendance for every entry shown, and
\* reads the register of exactly the classes whose attendance she can mark.
ScopesAgree ==
    \A u \in Staff \cup Pupils :
        /\ \A e \in ListedEntries(u) :
              LET row == db.entry[e]
              IN  /\ row.classroom \in ListedClassrooms(u)
                  /\ row.subject \in ListedSubjects(u)
                  /\ u \in Staff => MarksAttendance(u, row.classroom, row.subject)
        /\ \A a \in ListedAnnouncements(u) :
              db.announcement[a].audience = "classroom" =>
                  db.announcement[a].classrooms \cap ListedClassrooms(u) # {}
        /\ u \in Staff => \A c \in Classrooms, s \in Subjects :
              MarksAttendance(u, c, s) <=> ReadAnswer(u, c, s) = "granted"
=============================================================================
