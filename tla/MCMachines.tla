------------------------------ MODULE MCMachines ------------------------------
(***************************************************************************)
(* Small instances of the components that share no state with each other,  *)
(* explored in one run: every behaviour belongs to one machine, the        *)
(* variables of the others keep their first value.                         *)
(***************************************************************************)
EXTENDS SampleProcessing, AttendanceBatches, SchoolRecords, RecognitionProviders,
        WebClient, TLC

VARIABLE machine

Machines == {"sample", "attendance", "school", "provider", "client"}

\* created_at of the two samples.
TwoSamples == 1 .. 2

(***************************************************************************)
(* Attendance: a class that may be closed, an administrator and a teacher, *)
(* and batches of one mark and of both pupils.                             *)
(***************************************************************************)
Marking(s, x) == [student |-> s, status |-> x]

ClassBatches ==
    {<<Marking("s1", "absent")>>, <<Marking("s2", "absent")>>,
     <<Marking("s2", "present"), Marking("s1", "present")>>}

(***************************************************************************)
(* The school's tables: two classrooms, one lesson, in the timetable or    *)
(* dropped from it before its class was assigned, one pupil without a roll *)
(* number and one who has no profile yet.                                  *)
(***************************************************************************)
On == [active |-> TRUE]

Lesson == [active |-> TRUE, classroom |-> "c1", subject |-> "sub", teacher |-> "t1",
           start |-> 1, end |-> 2]

School(lesson) ==
    [classroom    |-> [c \in Classrooms |-> On],
     subject      |-> [s \in Subjects |-> On],
     teacher      |-> [t \in Staff |-> On],
     login        |-> [u \in Staff \cup Pupils |-> TRUE],
     assignment   |-> [k \in Triples |-> IF k.classroom = "c1" THEN On ELSE Null],
     student      |-> [p \in Pupils |->
                          IF p = "s1" THEN [active |-> TRUE, classroom |-> "c1", roll |-> Null]
                          ELSE Null],
     entry        |-> [e \in Entries |-> IF e = "e1" THEN lesson ELSE Null],
     announcement |-> [a \in Announcements |-> Null]]

SmallSchools == {School(Lesson), School([Lesson EXCEPT !.active = FALSE, !.classroom = "c2"])}

SlotsOfDay == 1 .. 3

(***************************************************************************)
(* The run.  A machine that does not run keeps one of its first states.    *)
(***************************************************************************)
MachinesInit ==
    /\ machine \in Machines
    /\ SampleInit /\ AttendanceInit /\ SchoolInit /\ ProviderInit /\ PageInit
    /\ machine # "school" => db = School(Lesson)
    /\ machine # "client" => cookie = 0

MachinesNext ==
    /\ UNCHANGED machine
    /\ \/ /\ machine = "sample" /\ SampleNext
          /\ UNCHANGED <<attendanceVars, schoolVars, providerVars, pageVars>>
       \/ /\ machine = "attendance" /\ AttendanceNext
          /\ UNCHANGED <<sampleVars, schoolVars, providerVars, pageVars>>
       \/ /\ machine = "school" /\ SchoolNext
          /\ UNCHANGED <<sampleVars, attendanceVars, providerVars, pageVars>>
       \/ /\ machine = "provider" /\ ProviderNext
          /\ UNCHANGED <<sampleVars, attendanceVars, schoolVars, pageVars>>
       \/ /\ machine = "client" /\ PageNext
          /\ UNCHANGED <<sampleVars, attendanceVars, schoolVars, providerVars>>

MachinesSpec == MachinesInit /\ [][MachinesNext]_<<machine, sampleVars, attendanceVars,
                                                  schoolVars, providerVars, pageVars>>

Interchangeable == Permutations(Requests)
===============================================================================
