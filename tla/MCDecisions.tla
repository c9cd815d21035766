----------------------------- MODULE MCDecisions -----------------------------
(***************************************************************************)
(* The pure decisions of the program over bounded inputs: every initial    *)
(* state is one input of one of them, tagged with its kind, and nothing    *)
(* changes afterwards.  The input "batch" is an archive whose rows are     *)
(* enrolled, step by step, beside other requests for one of its students.  *)
(***************************************************************************)
EXTENDS Decisions, SchoolViews, BulkEnrollment, TLC

\* db holds the tables of a "school" input, an empty school for the others.

\* All sequences over S of at most n elements.
SeqsUpTo(S, n) == UNION {[1 .. k -> S] : k \in 0 .. n}

SomeCandidates ==
    [student : {1, 2, 3}, dimension : {4}, similarity : 0 .. 3]
        \cup {[student |-> 1, dimension |-> 5, similarity |-> 3]}

Pairs == [genuine : BOOLEAN, similarity : 0 .. 3]

Face == [landmarks : {0, 5}, estimable : BOOLEAN]

SomeLoading == {"ready", "FaceProviderUnavailable", "ModelArtifactMissing"}

SomeModels ==
    [detector : SomeLoading, detects : BOOLEAN, faces : SeqsUpTo(Face, 2),
     embedder : SomeLoading, infers : BOOLEAN, descriptor : SeqsUpTo({0, 1, NotFinite}, 3)]

Photo == [stored |-> TRUE, decodes |-> TRUE, width |-> 6, height |-> 5]

Photos == {Photo, [Photo EXCEPT !.stored = FALSE], [Photo EXCEPT !.decodes = FALSE],
           [Photo EXCEPT !.width = 7]}

Images ==
    [bytes : 0 .. 4, header : Outcomes, declared : {<<3, 2>>, <<3, 3>>, <<0, 1>>, <<1, 4>>},
     stream : Outcomes, body : Outcomes, format : {"JPEG", "PNG", "GIF"},
     size : {<<3, 2>>, <<3, 3>>, <<0, 1>>}, frames : 1 .. 2]

Entry == [name |-> "a.jpg", path |-> "safe", directory |-> FALSE, encrypted |-> FALSE,
          symlink |-> FALSE, size |-> 2, compressed |-> 1, holds |-> 2, kind |-> "image"]

Manifest == [Entry EXCEPT !.name = "manifest.csv", !.kind = "manifest"]

Entries ==
    {Entry, [Entry EXCEPT !.name = "b.jpg"], [Entry EXCEPT !.name = "b.jpg", !.holds = 3],
     [Entry EXCEPT !.name = "b.jpg", !.size = 3], [Entry EXCEPT !.compressed = 0],
     [Entry EXCEPT !.symlink = TRUE], [Entry EXCEPT !.encrypted = TRUE],
     [Entry EXCEPT !.path = "ZIP_MEMBER_PATH_TRAVERSAL"], [Entry EXCEPT !.directory = TRUE],
     [Entry EXCEPT !.name = "c.jpg"], [Entry EXCEPT !.kind = "archive"],
     [Entry EXCEPT !.size = 0], Manifest, [Manifest EXCEPT !.size = 3]}

\* Up to three plain images around a manifest, which may be listed first or last,
\* and up to three rows, named in the order in which they first appear.
Plain == {[Entry EXCEPT !.name = n, !.size = k] : n \in {"a.jpg", "b.jpg"}, k \in 1 .. 2}
             \cup {[Entry EXCEPT !.name = "c.jpg", !.size = 1]}

Packed ==
    UNION {{<<Manifest>> \o images, Append(images, Manifest)} : images \in SeqsUpTo(Plain, 3)}

Paired == [student : {"s1", "s2", "s3"}, file : {"a.jpg", "b.jpg", "c.jpg"}]

Pairings ==
    {r \in SeqsUpTo(Paired, 3) :
        \A n \in DOMAIN r : /\ r[n].student = "s2" => \E k \in 1 .. n - 1 : r[k].student = "s1"
                            /\ r[n].student = "s3" => \E k \in 1 .. n - 1 : r[k].student = "s2"}

ManifestRows == [student : {"s1", "s2", "malformed"}, file : {"a.jpg", "b.jpg", ""}]

\* Tables with every mixture of active rows; one timetable entry or announcement.
Flags == [active : BOOLEAN]

SmallSchools ==
    {[classroom |-> room, subject |-> topic, teacher |-> staff, login |-> login,
      assignment |-> taught, student |-> pupil, entry |-> [e \in {"e1"} |-> lesson[1]],
      announcement |-> [a \in {"a1"} |-> lesson[2]]] :
        room \in [Classrooms -> Flags], topic \in [Subjects -> Flags],
        staff \in {f \in [Staff -> Flags \cup {Null}] : f["t2"] # Null},
        login \in {f \in [Staff -> BOOLEAN] : f["t1"] \/ f["t2"]},
        taught \in [[classroom : Classrooms, subject : Subjects, teacher : Staff] ->
                      {[active |-> TRUE], Null}],
        pupil \in [Pupils -> [active : {TRUE}, classroom : Classrooms \cup {Null}]
                              \cup {Null, [active |-> FALSE, classroom |-> "c1"]}],
        lesson \in
            {<<[active |-> on, classroom |-> c, subject |-> s, teacher |-> t], Null>> :
                on \in {TRUE}, c \in {"c1"}, s \in Subjects, t \in Staff}
            \cup {<<Null, [active |-> on, audience |-> "classroom", classrooms |-> S]>> :
                    on \in BOOLEAN, S \in SUBSET Classrooms \ {{}}}}

Cells == {<<"k1", "x">>, <<"k1", "y">>, <<"k2", "x">>, <<"k2">>, <<"bad", "x">>, <<"", "">>,
          <<"k2", "nan">>, <<"k2", "y", "z">>, <<>>}

Files ==
    [bytes : {1}, extension : {".csv", ".xlsx"}, readable : {TRUE},
     headers : {<<"key", "code">>, <<"key", "other">>}, rows : SeqsUpTo(Cells, 3)]
    \cup [bytes : 0 .. 3, extension : {".csv", ".txt"}, readable : BOOLEAN,
          headers : {<<"key", "">>, <<"key", "key">>, <<>>, <<"code", "key">>},
          rows : {<<<<"k1", "k2">>, <<"k2", "k1">>>>}]

SavedTables == {<<>>, <<[key |-> "k2"]>>, <<[key |-> "k3", code |-> "x"]>>}

\* One student has a row of a former classroom too, one has none.
Sheet(s, c, d) == {{}} \cup {{[student |-> s, classroom |-> c, date |-> d, status |-> x]} :
                              x \in {"present", "absent"}}

Registers ==
    {a \cup b \cup c \cup d \cup e :
        a \in Sheet(1, 1, 1), b \in Sheet(1, 1, 2), c \in Sheet(1, 2, 1),
        d \in Sheet(2, 1, 1), e \in Sheet(3, 1, 2)}

Enrolled == [active : {TRUE}, classroom : {1}, roll : 0 .. 1]

Profiles ==
    {<<p, q, r, t>> :
        p \in Enrolled, q \in [active : {TRUE}, classroom : {1}, roll : {0}],
        r \in {[active |-> TRUE, classroom |-> 1, roll |-> 3],
               [active |-> FALSE, classroom |-> 1, roll |-> 3],
               [active |-> TRUE, classroom |-> 2, roll |-> 3]},
        t \in [active : {TRUE}, classroom : {1}, roll : {4}]}

SmallInputs ==
    [kind : {"match"}, dimension : {4}, candidates : SeqsUpTo(SomeCandidates, 3)]
    \cup [kind : {"pairs"}, dimension : {4}, pairs : SeqsUpTo(Pairs, 3)]
    \cup [kind : {"box"}, at : -3 .. 9 \cup {NotFinite}, extent : -2 .. 9 \cup {NotFinite},
          size : 1 .. 3]
    \cup [kind : {"photo"}, models : SomeModels, image : Photos]
    \cup [kind : {"image"}, image : Images, type : {"image/jpeg", "image/png", "text/html"}]
    \cup [kind : {"archive"}, members : SeqsUpTo(Entries, 3), bytes : {2}, readable : {TRUE},
          rows : SeqsUpTo(ManifestRows, 2)]
    \cup [kind : {"archive"}, members : SeqsUpTo(Entries, 2), bytes : 2 .. 3,
          readable : BOOLEAN, rows : {<<[student |-> "s1", file |-> "a.jpg"]>>}]
    \cup [kind : {"archive"}, members : Packed, bytes : {2}, readable : {TRUE}, rows : Pairings]
    \cup [kind : {"school"}, db : SmallSchools]
    \cup [kind : {"import"}, file : Files, table : SavedTables]
    \cup [kind : {"register"}, rows : Registers, profile : Profiles]
    \cup [kind : {"batch"}, contested : {"s1", "s2"}]

TwoRows == <<"s1", "s2">>

NoSchool ==
    [classroom |-> [c \in Classrooms |-> Null], subject |-> [s \in Subjects |-> Null],
     teacher |-> [t \in Staff |-> Null], student |-> [p \in Pupils |-> Null],
     login |-> [t \in Staff |-> FALSE], assignment |-> [k \in Triples |-> Null],
     entry |-> <<>>, announcement |-> <<>>]

\* Without a batch its variables keep one of their first values.
Init ==
    /\ DecisionsInit
    /\ db = IF input.kind = "school" THEN input.db ELSE NoSchool
    /\ \/ input.kind = "batch" /\ BulkInit
       \/ /\ input.kind # "batch" /\ enrollment = [s \in RowStudents |-> "absent"]
          /\ BulkInit

Next ==
    \/ input.kind # "batch" /\ DecisionsNext /\ UNCHANGED <<db, bulkVars>>
    \/ /\ input.kind = "batch" /\ (BatchNext \/ Elsewhere(input.contested))
       /\ UNCHANGED <<input, rows, profile, db>>

Spec == Init /\ [][Next]_<<input, rows, profile, db, bulkVars>>
=============================================================================
