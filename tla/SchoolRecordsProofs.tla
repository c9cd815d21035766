-------------------------- MODULE SchoolRecordsProofs -------------------------
(***************************************************************************)
(* The school's tables, for any school and any number of administrators:   *)
(* racing writes keep the tables consistent, a write nobody raced keeps    *)
(* its row coherent, and what is listed is what can be opened.             *)
(***************************************************************************)
EXTENDS SchoolRecords, TLAPS

\* A row with the columns of changes that differ from the loaded row.
Overlay(row, w) ==
    [f \in DOMAIN row |->
        IF f \in DOMAIN w.changes /\ w.changes[f] # w.loaded[f] THEN w.changes[f] ELSE row[f]]

\* The values of some changes are those of a row of the table.
Fits(table, changes) ==
    \E row \in RowsOf(table) : \A f \in DOMAIN changes \cap DOMAIN row : changes[f] = row[f]

\* The part of Coherent that is about the row alone.
InOrder(table, row) ==
    /\ table = "student" => (row.classroom = Null => row.roll = Null)
    /\ table = "entry" => row.start < row.end

\* What a validated write says of its row.
WriteSound(w) ==
    /\ w.table \in Tables /\ w.key \in Keys(w.table)
    /\ w.loaded = Null => w.changes \in RowsOf(w.table) /\ Coherent(w.table, w.changes)
    /\ w.loaded # Null =>
          /\ w.loaded \in RowsOf(w.table) /\ db[w.table][w.key] # Null
          /\ Fits(w.table, w.changes)
          /\ InOrder(w.table, w.loaded) => Coherent(w.table, Overlay(w.loaded, w))

SchoolInv ==
    /\ TablesConsistent
    /\ DOMAIN write = Writers
    /\ \A r \in Writers : write[r] # Null => WriteSound(write[r])

(***************************************************************************)
(* Rows.                                                                   *)
(***************************************************************************)
\* A row with some columns of another row is a row.
LEMMA RowsMix ==
    ASSUME NEW table \in Tables, NEW row \in RowsOf(table), NEW other \in RowsOf(table), NEW S
    PROVE  [f \in DOMAIN row |-> IF f \in S THEN other[f] ELSE row[f]] \in RowsOf(table)
  <1> DEFINE mix == [f \in DOMAIN row |-> IF f \in S THEN other[f] ELSE row[f]]
  <1>1. CASE table = "student"
    <2>1. row \in StudentRows /\ other \in StudentRows
      BY <1>1 DEF RowsOf
    <2>2. mix = [active    |-> IF "active" \in S THEN other.active ELSE row.active,
                 classroom |-> IF "classroom" \in S THEN other.classroom ELSE row.classroom,
                 roll      |-> IF "roll" \in S THEN other.roll ELSE row.roll]
      BY <2>1 DEF StudentRows
    <2>3. mix \in StudentRows
      <3> HIDE DEF mix
      <3>1. QED  BY <2>1, <2>2 DEF StudentRows
    <2>4. QED  BY <1>1, <2>3 DEF RowsOf
  <1>2. CASE table = "entry"
    <2>1. row \in EntryRows /\ other \in EntryRows
      BY <1>2 DEF RowsOf
    <2>2. mix = [active    |-> IF "active" \in S THEN other.active ELSE row.active,
                 classroom |-> IF "classroom" \in S THEN other.classroom ELSE row.classroom,
                 subject   |-> IF "subject" \in S THEN other.subject ELSE row.subject,
                 teacher   |-> IF "teacher" \in S THEN other.teacher ELSE row.teacher,
                 start     |-> IF "start" \in S THEN other.start ELSE row.start,
                 end       |-> IF "end" \in S THEN other.end ELSE row.end]
      BY <2>1 DEF EntryRows
    <2>3. mix \in EntryRows
      <3> HIDE DEF mix
      <3>1. QED  BY <2>1, <2>2 DEF EntryRows
    <2>4. QED  BY <1>2, <2>3 DEF RowsOf
  <1>3. CASE table = "announcement"
    <2>1. row \in AnnouncementRows /\ other \in AnnouncementRows
      BY <1>3 DEF RowsOf
    <2>2. mix = [active     |-> IF "active" \in S THEN other.active ELSE row.active,
                 audience   |-> IF "audience" \in S THEN other.audience ELSE row.audience,
                 classrooms |-> IF "classrooms" \in S THEN other.classrooms ELSE row.classrooms]
      BY <2>1 DEF AnnouncementRows
    <2>3. mix \in AnnouncementRows
      <3> HIDE DEF mix
      <3>1. QED  BY <2>1, <2>2 DEF AnnouncementRows
    <2>4. QED  BY <1>3, <2>3 DEF RowsOf
  <1>4. CASE table \notin {"student", "entry", "announcement"}
    <2>1. row \in [active : BOOLEAN] /\ other \in [active : BOOLEAN]
      BY <1>4 DEF RowsOf, Tables
    <2>2. mix = [active |-> IF "active" \in S THEN other.active ELSE row.active]
      BY <2>1
    <2>3. mix \in [active : BOOLEAN]
      <3> HIDE DEF mix
      <3>1. QED  BY <2>1, <2>2
    <2>4. QED  BY <1>4, <2>3 DEF RowsOf, Tables
  <1>5. QED  BY <1>1, <1>2, <1>3, <1>4

LEMMA OverlayIsRow ==
    ASSUME NEW w, w.table \in Tables, Fits(w.table, w.changes), NEW row \in RowsOf(w.table)
    PROVE  Overlay(row, w) \in RowsOf(w.table)
  <1>1. PICK other \in RowsOf(w.table) :
            \A f \in DOMAIN w.changes \cap DOMAIN other : w.changes[f] = other[f]
    BY DEF Fits
  <1> DEFINE S == {f \in DOMAIN w.changes : w.changes[f] # w.loaded[f]}
  <1>2. DOMAIN row = DOMAIN other
    BY DEF Tables, RowsOf, StudentRows, EntryRows, AnnouncementRows
  <1>3. Overlay(row, w) = [f \in DOMAIN row |-> IF f \in S THEN other[f] ELSE row[f]]
    BY <1>1, <1>2 DEF Overlay
  <1> HIDE DEF S
  <1>4. \A T : [f \in DOMAIN row |-> IF f \in T THEN other[f] ELSE row[f]] \in RowsOf(w.table)
    BY RowsMix
  <1>5. QED  BY <1>3, <1>4

(***************************************************************************)
(* Validated writes.                                                       *)
(***************************************************************************)
LEMMA HoldSound ==
    ASSUME SchoolInv, NEW r \in Writers, NEW table \in Tables, NEW key \in Keys(table),
           NEW loaded, NEW changes, Hold(r, table, key, loaded, changes),
           WriteSound([table |-> table, key |-> key, loaded |-> loaded, changes |-> changes])
    PROVE  SchoolInv'
  <1> DEFINE w == [table |-> table, key |-> key, loaded |-> loaded, changes |-> changes]
  <1>1. /\ write' = [write EXCEPT ![r] = w] /\ held < MaxRequests /\ held' = held + 1
        /\ db' = db
    BY DEF Hold
  <1>2. TablesConsistent'
    <2>1. held' \in 0 .. MaxRequests
      BY <1>1, RequestsAssumption DEF SchoolInv, TablesConsistent
    <2>2. Typed(db') /\ Distinct(db')
      BY <1>1 DEF SchoolInv, TablesConsistent
    <2>3. QED  BY <2>1, <2>2 DEF TablesConsistent
  <1>3. ASSUME NEW q \in Writers, write'[q] # Null PROVE WriteSound(write[q])'
    <2>1. WriteSound(write'[q])
      <3>1. CASE q = r
        BY <1>1, <3>1 DEF SchoolInv
      <3>2. CASE q # r
        BY <1>1, <1>3, <3>2 DEF SchoolInv
      <3>3. QED  BY <3>1, <3>2
    <2>2. QED  BY <1>1, <2>1 DEF WriteSound, Coherent
  <1>4. DOMAIN write' = Writers
    BY <1>1 DEF SchoolInv
  <1>5. QED  BY <1>2, <1>3, <1>4 DEF SchoolInv

\* Rows of the tables are rows of their type.
LEMMA LoadedIsRow ==
    ASSUME SchoolInv, NEW table \in Tables, NEW key \in Keys(table), db[table][key] # Null
    PROVE  db[table][key] \in RowsOf(table)
  BY DEF SchoolInv, TablesConsistent, Typed

LEMMA CreateStep ==
    ASSUME SchoolInv, NEW r \in Writers, NEW table \in Tables, NEW key \in Keys(table),
           Create(r, table, key)
    PROVE  SchoolInv'
  <1>1. PICK row \in RowsOf(table) : MayCreate(table, key, row) /\ Hold(r, table, key, Null, row)
    BY DEF Create
  <1>2. Coherent(table, row)
    BY <1>1 DEF MayCreate, Coherent, Assigned, Active
  <1>3. WriteSound([table |-> table, key |-> key, loaded |-> Null, changes |-> row])
    BY <1>2 DEF WriteSound
  <1>4. QED  BY <1>1, <1>3, HoldSound

\* The row an update leaves when nobody raced it is the one that was validated.
LEMMA OverlayOfLoaded ==
    ASSUME NEW table, NEW key, NEW loaded, NEW changes
    PROVE  Overlay(loaded, [table |-> table, key |-> key, loaded |-> loaded, changes |-> changes])
               = Resulting(loaded, changes)
  BY DEF Overlay, Resulting

\* A part of a row takes its values from a row.
LEMMA PartOfARow ==
    ASSUME NEW rows, NEW columns, NEW part \in Parts(rows, columns)
    PROVE  \E row \in rows : \A f \in DOMAIN part : part[f] = row[f]
  <1>1. PICK F \in SUBSET columns \ {{}} : part \in {[f \in F |-> row[f]] : row \in rows}
    BY DEF Parts
  <1>2. PICK row \in rows : part = [f \in F |-> row[f]]
    BY <1>1
  <1>3. \A f \in DOMAIN part : part[f] = row[f]
    BY <1>2
  <1>4. QED  BY <1>3

LEMMA BodiesFit ==
    ASSUME NEW table \in Tables, NEW changes \in Bodies(table),
           NEW row \in RowsOf(table)
    PROVE  Fits(table, Completed(changes))
  <1>1. PICK other \in RowsOf(table) :
            \A f \in DOMAIN changes \cap DOMAIN other : changes[f] = other[f]
    <2>1. CASE table = "student"
      <3>1. \E other \in StudentRows : \A f \in DOMAIN changes : changes[f] = other[f]
        BY <2>1, PartOfARow DEF Bodies, StudentBodies
      <3>2. QED  BY <2>1, <3>1 DEF RowsOf
    <2>2. CASE table = "entry"
      <3>1. \E other \in EntryRows : \A f \in DOMAIN changes : changes[f] = other[f]
        BY <2>2, PartOfARow DEF Bodies, EntryBodies
      <3>2. QED  BY <2>2, <3>1 DEF RowsOf
    <2>3. CASE table = "announcement"
      <3>1. changes \in [active : BOOLEAN]
        BY <2>3 DEF Bodies
      <3>2. [row EXCEPT !.active = changes.active] \in AnnouncementRows
        BY <2>3, <3>1 DEF RowsOf, AnnouncementRows
      <3>3. QED  BY <2>3, <3>1, <3>2 DEF RowsOf, AnnouncementRows
    <2>4. CASE table \notin {"student", "entry", "announcement"}
      BY <2>4 DEF Bodies, RowsOf, Tables
    <2>5. QED  BY <2>1, <2>2, <2>3, <2>4
  <1>2. CASE Completed(changes) = changes
    BY <1>1, <1>2 DEF Fits
  <1>3. CASE Completed(changes) # changes
    <2>1. /\ Sets(changes, "classroom", Null) /\ "roll" \notin DOMAIN changes
          /\ Completed(changes) = [f \in DOMAIN changes \cup {"roll"} |->
                                     IF f = "roll" THEN Null ELSE changes[f]]
      BY <1>3 DEF Completed
    <2>2. table = "student"
      <3>1. CASE table = "entry"
        <4>1. other.classroom = Null
          BY <1>1, <2>1, <3>1 DEF Sets, RowsOf, EntryRows
        <4>2. QED  BY <1>1, <3>1, <4>1, NullAssumption DEF RowsOf, EntryRows
      <3>2. CASE table \notin {"student", "entry"}
        BY <2>1, <3>2 DEF Sets, Bodies, Tables
      <3>3. QED  BY <3>1, <3>2
    <2>3. [other EXCEPT !.roll = Null] \in StudentRows
      BY <1>1, <2>2 DEF RowsOf, StudentRows
    <2>4. \A f \in DOMAIN Completed(changes) \cap DOMAIN [other EXCEPT !.roll = Null] :
              Completed(changes)[f] = [other EXCEPT !.roll = Null][f]
      BY <1>1, <2>1, <2>2 DEF RowsOf, StudentRows
    <2>5. QED  BY <2>2, <2>3, <2>4 DEF Fits, RowsOf
  <1>4. QED  BY <1>2, <1>3

LEMMA UpdateStep ==
    ASSUME SchoolInv, NEW r \in Writers, NEW table \in Tables, NEW key \in Keys(table),
           Update(r, table, key)
    PROVE  SchoolInv'
  <1> DEFINE row == db[table][key]
  <1>1. PICK changes \in Bodies(table) :
            /\ MayUpdate(table, key, row, Completed(changes))
            /\ Hold(r, table, key, row, Completed(changes))
    BY DEF Update
  <1>2. row # Null /\ row \in RowsOf(table)
    BY LoadedIsRow DEF Update
  <1> HIDE DEF row
  <1> DEFINE sent == Completed(changes)
  <1>3. Fits(table, sent)
    BY <1>2, BodiesFit
  <1> HIDE DEF sent
  <1>4. Coherent(table, Resulting(row, sent))
    <2>1. CASE table = "student"
      BY <1>1, <2>1 DEF sent, MayUpdate, ValidStudent, Coherent
    <2>2. CASE table = "entry"
      BY <1>1, <2>2 DEF sent, MayUpdate, ValidEntry, Coherent, Assigned, Active
    <2>3. CASE table \notin {"student", "entry"}
      BY <2>3 DEF Coherent
    <2>4. QED  BY <2>1, <2>2, <2>3
  <1>5. WriteSound([table |-> table, key |-> key, loaded |-> row, changes |-> sent])
    <2>1. row = db[table][key]
      BY DEF row
    <2>2. QED  BY <1>2, <1>3, <1>4, <2>1, OverlayOfLoaded DEF WriteSound
  <1>6. QED  BY <1>1, <1>5, HoldSound DEF sent

LEMMA AssignStep ==
    ASSUME SchoolInv, NEW r \in Writers, NEW p \in Pupils, AssignClassroom(r, p)
    PROVE  SchoolInv'
  <1> DEFINE row == db["student"][p]
  <1>1. PICK c \in Classrooms \cup {Null}, n \in Rolls \cup {Null} :
            /\ c = Null => n = Null
            /\ Hold(r, "student", p, row, [classroom |-> c, roll |-> n])
    BY DEF AssignClassroom
  <1>2. "student" \in Tables /\ p \in Keys("student")
    BY DEF Tables, Keys
  <1>3. row # Null /\ row \in StudentRows
    BY <1>2, LoadedIsRow DEF AssignClassroom, RowsOf
  <1> DEFINE sent == [classroom |-> c, roll |-> n]
  <1>4. Fits("student", sent)
    <2>1. [active |-> TRUE, classroom |-> c, roll |-> n] \in StudentRows
      BY DEF StudentRows
    <2>2. QED  BY <2>1 DEF Fits, RowsOf
  <1>5. Coherent("student", Resulting(row, sent))
    BY <1>1, <1>3 DEF Coherent, Resulting, StudentRows
  <1>6. WriteSound([table |-> "student", key |-> p, loaded |-> row, changes |-> sent])
    <2> HIDE DEF sent
    <2>1. QED  BY <1>2, <1>3, <1>4, <1>5, OverlayOfLoaded DEF WriteSound, RowsOf
  <1>7. QED  BY <1>1, <1>2, <1>6, HoldSound

LEMMA DeactivateStep ==
    ASSUME SchoolInv, NEW r \in Writers, NEW table \in Tables, NEW key \in Keys(table),
           Deactivate(r, table, key)
    PROVE  SchoolInv'
  <1> DEFINE row  == db[table][key]
             sent == [active |-> FALSE]
  <1>1. row # Null /\ row \in RowsOf(table)
    BY LoadedIsRow DEF Deactivate
  <1> HIDE DEF row
  <1>2. Fits(table, sent) /\ (InOrder(table, row) => Coherent(table, Resulting(row, sent)))
    <2>1. CASE table = "student"
      <3>1. row \in StudentRows
        BY <1>1, <2>1 DEF RowsOf
      <3>2. [row EXCEPT !.active = FALSE] \in StudentRows
        BY <3>1 DEF StudentRows
      <3>3. "active" \in DOMAIN row
        BY <3>1 DEF StudentRows
      <3>4. [row EXCEPT !.active = FALSE].active = sent.active
        BY <3>3
      <3>5. Fits(table, sent)
        BY <2>1, <3>2, <3>4 DEF Fits, RowsOf
      <3> HIDE DEF sent
      <3>6. \A f \in DOMAIN row \ {"active"} : Resulting(row, sent)[f] = row[f]
        BY DEF Resulting, sent
      <3>7. Resulting(row, sent).active = FALSE
        BY <3>3 DEF Resulting, sent
      <3>8. InOrder(table, row) => Coherent(table, Resulting(row, sent))
        BY <2>1, <3>1, <3>6, <3>7 DEF Coherent, InOrder, StudentRows
      <3>9. QED  BY <3>5, <3>8
    <2>2. CASE table = "entry"
      <3>1. row \in EntryRows
        BY <1>1, <2>2 DEF RowsOf
      <3>2. [row EXCEPT !.active = FALSE] \in EntryRows
        BY <3>1 DEF EntryRows
      <3>3. "active" \in DOMAIN row
        BY <3>1 DEF EntryRows
      <3>4. [row EXCEPT !.active = FALSE].active = sent.active
        BY <3>3
      <3>5. Fits(table, sent)
        BY <2>2, <3>2, <3>4 DEF Fits, RowsOf
      <3> HIDE DEF sent
      <3>6. \A f \in DOMAIN row \ {"active"} : Resulting(row, sent)[f] = row[f]
        BY DEF Resulting, sent
      <3>7. Resulting(row, sent).active = FALSE
        BY <3>3 DEF Resulting, sent
      <3>8. InOrder(table, row) => Coherent(table, Resulting(row, sent))
        BY <2>2, <3>1, <3>6, <3>7 DEF Coherent, InOrder, EntryRows
      <3>9. QED  BY <3>5, <3>8
    <2>3. CASE table = "announcement"
      <3>1. row \in AnnouncementRows
        BY <1>1, <2>3 DEF RowsOf
      <3>2. [row EXCEPT !.active = FALSE] \in AnnouncementRows
        BY <3>1 DEF AnnouncementRows
      <3>3. "active" \in DOMAIN row
        BY <3>1 DEF AnnouncementRows
      <3>4. [row EXCEPT !.active = FALSE].active = sent.active
        BY <3>3
      <3>5. Fits(table, sent)
        BY <2>3, <3>2, <3>4 DEF Fits, RowsOf
      <3>6. QED  BY <2>3, <3>5 DEF Coherent
    <2>4. CASE table \notin {"student", "entry", "announcement"}
      BY <2>4 DEF Fits, RowsOf, Tables, Coherent
    <2>5. QED  BY <2>1, <2>2, <2>3, <2>4
  <1>3. WriteSound([table |-> table, key |-> key, loaded |-> row, changes |-> sent])
    <2>1. row = db[table][key]
      BY DEF row
    <2> HIDE DEF sent
    <2>2. QED  BY <1>1, <1>2, <2>1, OverlayOfLoaded DEF WriteSound
  <1>4. QED  BY <1>3, HoldSound DEF Deactivate, row

(***************************************************************************)
(* Saves.                                                                  *)
(***************************************************************************)
\* What a save writes is a row of its table.
LEMMA FlushedIsRow ==
    ASSUME SchoolInv, NEW r \in Writers, Save(r)
    PROVE  /\ write[r].table \in Tables /\ write[r].key \in Keys(write[r].table)
           /\ Flushed(r) \in RowsOf(write[r].table)
  <1> DEFINE w   == write[r]
             now == db[w.table][w.key]
  <1>1. WriteSound(w)
    BY DEF SchoolInv, Save
  <1>2. w.table \in Tables /\ w.key \in Keys(w.table)
    BY <1>1 DEF WriteSound
  <1>3. CASE w.loaded = Null
    <2>1. Flushed(r) = w.changes
      BY <1>3 DEF Flushed
    <2>2. QED  BY <1>1, <1>2, <1>3, <2>1 DEF WriteSound
  <1>4. CASE w.loaded # Null
    <2>1. Fits(w.table, w.changes) /\ now \in RowsOf(w.table)
      BY <1>1, <1>2, <1>4, LoadedIsRow DEF WriteSound
    <2>2. Flushed(r) = Overlay(now, w)
      BY <1>4 DEF Flushed, Overlay
    <2> HIDE DEF w, now
    <2>3. Overlay(now, w) \in RowsOf(w.table)
      BY <1>2, <2>1, OverlayIsRow
    <2>4. QED  BY <1>2, <2>2, <2>3 DEF w
  <1>5. QED  BY <1>3, <1>4

\* Replacing a row by one the constraints allow keeps them.
LEMMA AllowedKeepsDistinct ==
    ASSUME Typed(db), Distinct(db), NEW table \in Tables, NEW key \in Keys(table),
           NEW row \in RowsOf(table), Allowed(table, key, row),
           db' = [db EXCEPT ![table][key] = row]
    PROVE  /\ Typed(db') /\ Distinct(db')
           /\ \A t \in Tables : \A k \in Keys(t) :
                 db'[t][k] = IF t = table /\ k = key THEN row ELSE db[t][k]
  <1>1. \A t \in Tables : db[t] \in [Keys(t) -> RowsOf(t) \cup {Null}]
    BY DEF Typed
  <1>2. DOMAIN db = Tables \cup {"login"} /\ "login" \notin Tables
    BY DEF Typed, Tables
  <1>3. /\ DOMAIN db' = DOMAIN db /\ db'.login = db.login
        /\ db'[table] = [db[table] EXCEPT ![key] = row]
        /\ \A t \in Tables \ {table} : db'[t] = db[t]
    BY <1>2
  <1>4. \A t \in Tables : \A k \in Keys(t) :
            db'[t][k] = IF t = table /\ k = key THEN row ELSE db[t][k]
    BY <1>1, <1>3
  <1>5. \A t \in Tables : db'[t] \in [Keys(t) -> RowsOf(t) \cup {Null}]
    BY <1>1, <1>3
  <1>6. Typed(db')
    BY <1>2, <1>3, <1>5 DEF Typed
  <1>7. \A e, f \in {i \in Entries : db'["entry"][i] # Null} :
            e # f /\ db'["entry"][e].start = db'["entry"][f].start =>
                /\ db'["entry"][e].classroom # db'["entry"][f].classroom
                /\ db'["entry"][e].teacher # db'["entry"][f].teacher
    <2>1. \A e, f \in {i \in Entries : db["entry"][i] # Null} :
              e # f /\ db["entry"][e].start = db["entry"][f].start =>
                  /\ db["entry"][e].classroom # db["entry"][f].classroom
                  /\ db["entry"][e].teacher # db["entry"][f].teacher
      BY DEF Distinct
    <2>2. CASE table # "entry"
      <3>1. db'["entry"] = db["entry"]
        BY <1>3, <2>2 DEF Tables
      <3>2. QED  BY <2>1, <3>1
    <2>3. CASE table = "entry"
      <3>1. \A f \in Entries \ {key} :
                db["entry"][f] # Null /\ row.start = db["entry"][f].start =>
                    row.classroom # db["entry"][f].classroom /\ row.teacher # db["entry"][f].teacher
        BY <2>3 DEF Allowed, Collide, Keys
      <3>2. \A i \in Entries : db'["entry"][i] = IF i = key THEN row ELSE db["entry"][i]
        BY <1>4, <2>3 DEF Keys
      <3>3. QED  BY <2>1, <3>1, <3>2
    <2>4. QED  BY <2>2, <2>3
  <1>8. \A p, q \in {i \in Pupils : db'["student"][i] # Null /\ db'["student"][i].classroom # Null} :
            p # q /\ db'["student"][p].classroom = db'["student"][q].classroom =>
                \/ db'["student"][p].roll # db'["student"][q].roll
                \/ db'["student"][p].roll = Null
    <2>1. \A p, q \in {i \in Pupils : db["student"][i] # Null /\ db["student"][i].classroom # Null} :
              p # q /\ db["student"][p].classroom = db["student"][q].classroom =>
                  \/ db["student"][p].roll # db["student"][q].roll
                  \/ db["student"][p].roll = Null
      BY DEF Distinct
    <2>2. CASE table # "student"
      <3>1. db'["student"] = db["student"]
        BY <1>3, <2>2 DEF Tables
      <3>2. QED  BY <2>1, <3>1
    <2>3. CASE table = "student"
      <3>1. \A f \in Pupils \ {key} : db["student"][f] # Null =>
                ~(/\ row.classroom # Null /\ row.classroom = db["student"][f].classroom
                  /\ row.roll # Null /\ row.roll = db["student"][f].roll)
        BY <2>3 DEF Allowed, Collide, Keys
      <3>2. \A i \in Pupils : db'["student"][i] = IF i = key THEN row ELSE db["student"][i]
        BY <1>4, <2>3 DEF Keys
      <3>3. QED  BY <2>1, <3>1, <3>2
    <2>4. QED  BY <2>2, <2>3
  <1>9. QED  BY <1>4, <1>6, <1>7, <1>8 DEF Distinct

\* A row stays coherent as the others change: none is ever removed.
LEMMA CoherentStays ==
    ASSUME NEW table \in Tables, NEW row \in RowsOf(table), Coherent(table, row),
           \A t \in Tables : \A k \in Keys(t) : db[t][k] # Null => db'[t][k] # Null
    PROVE  Coherent(table, row)'
  <1>1. CASE table = "entry"
    <2>1. Triple(row) \in Triples
      BY <1>1 DEF RowsOf, EntryRows, Triple, Triples
    <2>2. "assignment" \in Tables /\ Keys("assignment") = Triples
      BY DEF Tables, Keys
    <2>3. row.active => db["assignment"][Triple(row)] # Null
      BY <1>1 DEF Coherent
    <2>4. row.active => db'["assignment"][Triple(row)] # Null
      BY <2>1, <2>2, <2>3
    <2>5. QED  BY <1>1, <2>4 DEF Coherent
  <1>2. CASE table # "entry"
    BY <1>2 DEF Coherent
  <1>3. QED  BY <1>1, <1>2

\* A held write stays sound as other rows change.
LEMMA WriteStaysSound ==
    ASSUME NEW w, WriteSound(w),
           \A t \in Tables : \A k \in Keys(t) : db[t][k] # Null => db'[t][k] # Null
    PROVE  WriteSound(w)'
  <1>1. w.table \in Tables /\ w.key \in Keys(w.table)
    BY DEF WriteSound
  <1>2. CASE w.loaded = Null
    <2>1. w.changes \in RowsOf(w.table) /\ Coherent(w.table, w.changes)
      BY <1>2 DEF WriteSound
    <2>2. Coherent(w.table, w.changes)'
      BY <1>1, <2>1, CoherentStays
    <2>3. QED  BY <1>1, <1>2, <2>1, <2>2 DEF WriteSound
  <1>3. CASE w.loaded # Null
    <2>1. /\ w.loaded \in RowsOf(w.table) /\ db[w.table][w.key] # Null
          /\ Fits(w.table, w.changes)
          /\ InOrder(w.table, w.loaded) => Coherent(w.table, Overlay(w.loaded, w))
      BY <1>3 DEF WriteSound
    <2>2. Overlay(w.loaded, w) \in RowsOf(w.table)
      BY <1>1, <2>1, OverlayIsRow
    <2>3. InOrder(w.table, w.loaded) => Coherent(w.table, Overlay(w.loaded, w))'
      BY <1>1, <2>1, <2>2, CoherentStays
    <2>4. db'[w.table][w.key] # Null
      BY <1>1, <2>1
    <2>5. QED  BY <1>1, <1>3, <2>1, <2>3, <2>4 DEF WriteSound, InOrder, Fits
  <1>4. QED  BY <1>2, <1>3

LEMMA SaveStep ==
    ASSUME SchoolInv, NEW r \in Writers, Save(r)
    PROVE  SchoolInv'
  <1> DEFINE table == write[r].table
             key   == write[r].key
             row   == Flushed(r)
  <1>1. table \in Tables /\ key \in Keys(table) /\ row \in RowsOf(table)
    BY FlushedIsRow
  <1>2. /\ Allowed(table, key, row) /\ db' = [db EXCEPT ![table][key] = row]
        /\ write' = [write EXCEPT ![r] = Null] /\ held' = held
    BY DEF Save
  <1> HIDE DEF table, key, row
  <1>3. /\ Typed(db') /\ Distinct(db')
        /\ \A t \in Tables : \A k \in Keys(t) :
              db'[t][k] = IF t = table /\ k = key THEN row ELSE db[t][k]
    BY <1>1, <1>2, AllowedKeepsDistinct DEF SchoolInv, TablesConsistent
  <1>4. \A t \in Tables : \A k \in Keys(t) : db[t][k] # Null => db'[t][k] # Null
    BY <1>1, <1>3, NullAssumption
  <1>5. TablesConsistent'
    BY <1>2, <1>3 DEF SchoolInv, TablesConsistent
  <1>6. DOMAIN write' = Writers
    BY <1>2 DEF SchoolInv
  <1>7. ASSUME NEW q \in Writers, write'[q] # Null PROVE WriteSound(write[q])'
    <2>1. write'[q] = write[q] /\ WriteSound(write[q])
      BY <1>2, <1>7 DEF SchoolInv
    <2>2. \A w : WriteSound(w) => WriteSound(w)'
      BY <1>4, WriteStaysSound
    <2>3. QED  BY <2>1, <2>2 DEF WriteSound, Coherent
  <1>8. QED  BY <1>5, <1>6, <1>7 DEF SchoolInv

LEMMA FailStep ==
    ASSUME SchoolInv, NEW r \in Writers, FailWrite(r)
    PROVE  SchoolInv'
  <1>1. write' = [write EXCEPT ![r] = Null] /\ db' = db /\ held' = held
    BY DEF FailWrite
  <1>2. TablesConsistent'
    BY <1>1 DEF SchoolInv, TablesConsistent
  <1>3. ASSUME NEW q \in Writers, write'[q] # Null PROVE WriteSound(write[q])'
    <2>1. write'[q] = write[q] /\ WriteSound(write[q])
      BY <1>1, <1>3 DEF SchoolInv
    <2>2. QED  BY <1>1, <2>1 DEF WriteSound, Coherent
  <1>4. DOMAIN write' = Writers
    BY <1>1 DEF SchoolInv
  <1>5. QED  BY <1>2, <1>3, <1>4 DEF SchoolInv

(***************************************************************************)
(* The invariant.                                                          *)
(***************************************************************************)
LEMMA SchoolInitial == SchoolInit => SchoolInv
  BY SchoolsAssumption, RequestsAssumption DEF SchoolInit, SchoolInv, TablesConsistent

LEMMA SchoolStep == SchoolInv /\ [SchoolNext]_schoolVars => SchoolInv'
  <1> SUFFICES ASSUME SchoolInv, [SchoolNext]_schoolVars PROVE SchoolInv'
    OBVIOUS
  <1>1. CASE UNCHANGED schoolVars
    BY <1>1 DEF schoolVars, SchoolInv, TablesConsistent, WriteSound, Coherent
  <1>2. ASSUME NEW r \in Writers, WriteStep(r) PROVE SchoolInv'
    <2>1. ASSUME NEW table \in Tables, NEW key \in Keys(table), Create(r, table, key)
          PROVE  SchoolInv'
      BY <2>1, CreateStep
    <2>2. ASSUME NEW table \in Tables, NEW key \in Keys(table), Update(r, table, key)
          PROVE  SchoolInv'
      BY <2>2, UpdateStep
    <2>3. ASSUME NEW table \in Tables, NEW key \in Keys(table), Deactivate(r, table, key)
          PROVE  SchoolInv'
      BY <2>3, DeactivateStep
    <2>4. ASSUME NEW p \in Pupils, AssignClassroom(r, p) PROVE SchoolInv'
      BY <2>4, AssignStep
    <2>5. CASE Save(r)
      BY <2>5, SaveStep
    <2>6. CASE FailWrite(r)
      BY <2>6, FailStep
    <2>7. QED  BY <1>2, <2>1, <2>2, <2>3, <2>4, <2>5, <2>6 DEF WriteStep
  <1>3. QED  BY <1>1, <1>2 DEF SchoolNext

LEMMA SchoolAlways == SchoolSpec => []SchoolInv
  BY SchoolInitial, SchoolStep, PTL DEF SchoolSpec

\* Under any interleaving of any number of administrators' writes, the tables
\* keep rows of their types, no classroom or teacher is booked twice for a
\* start and no roll number is given twice in a classroom.
THEOREM TablesStayConsistent == SchoolSpec => []TablesConsistent
  <1>1. SchoolInv => TablesConsistent
    BY DEF SchoolInv
  <1>2. QED  BY <1>1, SchoolAlways, PTL

(***************************************************************************)
(* Coherent rows.                                                          *)
(***************************************************************************)
LEMMA SaveCoheres ==
    ASSUME SchoolInv, NEW r \in Writers, Save(r),
           \/ write[r].loaded = Null
           \/ /\ write[r].loaded = db[write[r].table][write[r].key]
              /\ Coherent(write[r].table, write[r].loaded)
    PROVE  Coherent(write[r].table, db'[write[r].table][write[r].key])
  <1> DEFINE w == write[r]
  <1>1. /\ w.table \in Tables /\ w.key \in Keys(w.table)
        /\ Flushed(r) \in RowsOf(w.table) /\ WriteSound(w)
    BY FlushedIsRow DEF SchoolInv, Save
  <1>2. db'[w.table][w.key] = Flushed(r)
    <2>1. /\ Typed(db) /\ Distinct(db) /\ Allowed(w.table, w.key, Flushed(r))
          /\ db' = [db EXCEPT ![w.table][w.key] = Flushed(r)]
      BY DEF SchoolInv, TablesConsistent, Save
    <2> DEFINE row == Flushed(r)
    <2> HIDE DEF w, row
    <2>2. \A t \in Tables : \A k \in Keys(t) :
              db'[t][k] = IF t = w.table /\ k = w.key THEN row ELSE db[t][k]
      BY <1>1, <2>1, AllowedKeepsDistinct DEF row
    <2>3. QED  BY <1>1, <2>2 DEF row
  <1>3. CASE w.loaded = Null
    BY <1>1, <1>2, <1>3 DEF WriteSound, Flushed
  <1>4. CASE w.loaded # Null
    <2>1. w.loaded = db[w.table][w.key] /\ Coherent(w.table, w.loaded)
      BY <1>4
    <2>2. Flushed(r) = Overlay(w.loaded, w)
      BY <1>4, <2>1 DEF Flushed, Overlay
    <2>3. InOrder(w.table, w.loaded)
      BY <2>1 DEF InOrder, Coherent
    <2>4. Coherent(w.table, Overlay(w.loaded, w))
      BY <1>1, <1>4, <2>3 DEF WriteSound
    <2>5. QED  BY <1>2, <2>2, <2>4
  <1>5. QED  BY <1>3, <1>4

\* A write that nobody raced on its row creates a coherent row or keeps one
\* coherent, whatever columns it sends and whatever happens to the rows it
\* refers to between its validation and its commit.
THEOREM SavesCohere == SchoolSpec => UncontendedSavesCohere
  <1> DEFINE Coheres(r) ==
        LET w == write[r]
        IN  /\ w # Null /\ write'[r] = Null /\ db' # db
            /\ w.loaded = Null \/ (w.loaded = db[w.table][w.key] /\ Coherent(w.table, w.loaded))
            => Coherent(w.table, db'[w.table][w.key])
  <1>1. SchoolInv /\ [SchoolNext]_schoolVars => [\A r \in Writers : Coheres(r)]_schoolVars
    <2> SUFFICES ASSUME SchoolInv, SchoolNext, NEW r \in Writers, write[r] # Null,
                        write'[r] = Null, db' # db
                 PROVE  Coheres(r)
      BY DEF schoolVars
    <2>1. PICK q \in Writers : Save(q)
      BY DEF SchoolNext, WriteStep, Create, Update, Deactivate, AssignClassroom, Hold, FailWrite
    <2>2. q = r
      BY <2>1 DEF Save, SchoolInv
    <2>3. QED  BY <2>1, <2>2, SaveCoheres
  <1>2. QED  BY <1>1, SchoolAlways, PTL DEF SchoolSpec, UncontendedSavesCohere

(***************************************************************************)
(* What teachers and students see.                                         *)
(***************************************************************************)
LEMMA ListsMatch == ASSUME Typed(db) PROVE ListsMatchGets
  <1> SUFFICES ASSUME NEW u \in Staff \cup Pupils
               PROVE  /\ ListedClassrooms(u) = {c \in Classrooms : GetsClassroom(u, c)}
                      /\ ListedSubjects(u) = {s \in Subjects : GetsSubject(u, s)}
                      /\ ListedEntries(u) = {e \in DOMAIN db.entry : GetsEntry(u, e)}
                      /\ ListedAnnouncements(u) =
                             {a \in DOMAIN db.announcement : GetsAnnouncement(u, a)}
    BY DEF ListsMatchGets
  <1>1. ListedClassrooms(u) = {c \in Classrooms : GetsClassroom(u, c)}
    <2>1. CASE u \in Staff
      BY <2>1 DEF ListedClassrooms, GetsClassroom, ClassroomsOf
    <2>2. CASE u \notin Staff
      <3>1. db.student[u] \in StudentRows \cup {Null}
        <4>1. db["student"] \in [Pupils -> StudentRows \cup {Null}]
          BY DEF Typed, Tables, Keys, RowsOf
        <4>2. QED  BY <2>2, <4>1
      <3>2. Active(db.student[u]) => db.student[u].classroom \in Classrooms \cup {Null}
        BY <3>1 DEF Active, StudentRows
      <3>3. \A c \in Classrooms : c # Null
        BY NullAssumption
      <3>4. QED
        BY <2>2, <3>2, <3>3 DEF ListedClassrooms, GetsClassroom, OwnClassroom, ActiveClassroom
    <2>3. QED  BY <2>1, <2>2
  <1>2. ListedSubjects(u) = {s \in Subjects : GetsSubject(u, s)}
    <2>1. CASE u \in Staff
      <3>1. \A s \in Subjects : s \in SubjectsOf(u) <=>
                Active(db.subject[s]) /\ AvailableForTeacher(s, u)
        BY DEF SubjectsOf, AvailableForTeacher
      <3>2. SubjectsOf(u) \subseteq Subjects
        BY DEF SubjectsOf
      <3>3. QED  BY <2>1, <3>1, <3>2 DEF ListedSubjects, GetsSubject
    <2>2. CASE u \notin Staff
      <3>1. \A c : \A s \in Subjects : s \in SubjectsIn(c) <=>
                Active(db.subject[s]) /\ AvailableForClassroom(s, c)
        BY DEF SubjectsIn, AvailableForClassroom
      <3>2. \A c : SubjectsIn(c) \subseteq Subjects
        BY DEF SubjectsIn
      <3>3. QED  BY <2>2, <3>1, <3>2 DEF ListedSubjects, GetsSubject
    <2>3. QED  BY <2>1, <2>2
  <1>3. ListedEntries(u) = {e \in DOMAIN db.entry : GetsEntry(u, e)}
    BY DEF ListedEntries, GetsEntry, Scheduled, ActiveTeacher
  <1>4. ListedAnnouncements(u) = {a \in DOMAIN db.announcement : GetsAnnouncement(u, a)}
    BY DEF ListedAnnouncements, GetsAnnouncement, Active
  <1>5. QED  BY <1>1, <1>2, <1>3, <1>4

LEMMA ScopesMatch == ASSUME Typed(db) PROVE ScopesAgree
  <1>1. ASSUME NEW u \in Staff \cup Pupils, NEW e \in ListedEntries(u)
        PROVE  LET row == db.entry[e]
               IN  /\ row.classroom \in ListedClassrooms(u)
                   /\ row.subject \in ListedSubjects(u)
                   /\ u \in Staff => MarksAttendance(u, row.classroom, row.subject)
    <2> DEFINE row == db.entry[e]
    <2>1. /\ Active(row) /\ Assigned(Triple(row)) /\ ActiveClassroom(row.classroom)
          /\ Active(db.subject[row.subject]) /\ ActiveTeacher(row.teacher)
          /\ IF u \in Staff THEN Active(db.teacher[u]) /\ row.teacher = u
             ELSE OwnClassroom(u) # Null /\ row.classroom = OwnClassroom(u)
      BY <1>1 DEF ListedEntries, Scheduled
    <2>2. row \in EntryRows
      <3>1. db["entry"] \in [Entries -> EntryRows \cup {Null}]
        BY DEF Typed, Tables, Keys, RowsOf
      <3>2. e \in Entries
        BY <1>1, <3>1 DEF ListedEntries
      <3>3. QED  BY <2>1, <3>1, <3>2 DEF Active
    <2> HIDE DEF row
    <2>3. /\ Triple(row) \in Triples /\ Triple(row).classroom = row.classroom
          /\ Triple(row).subject = row.subject /\ Triple(row).teacher = row.teacher
          /\ row.classroom \in Classrooms /\ row.subject \in Subjects
      BY <2>2 DEF EntryRows, Triple, Triples
    <2>4. row.classroom \in ListedClassrooms(u)
      <3>1. CASE u \in Staff
        <4>1. row.classroom \in ClassroomsOf(u)
          BY <2>1, <2>3, <3>1 DEF ClassroomsOf
        <4>2. QED  BY <2>1, <3>1, <4>1 DEF ListedClassrooms
      <3>2. CASE u \notin Staff
        BY <2>1, <3>2 DEF ListedClassrooms
      <3>3. QED  BY <3>1, <3>2
    <2>5. row.subject \in ListedSubjects(u)
      <3>1. CASE u \in Staff
        <4>1. row.subject \in SubjectsOf(u)
          BY <2>1, <2>3, <3>1 DEF SubjectsOf
        <4>2. QED  BY <2>1, <3>1, <4>1 DEF ListedSubjects
      <3>2. CASE u \notin Staff
        <4>1. row.subject \in SubjectsIn(row.classroom)
          BY <2>1, <2>3 DEF SubjectsIn
        <4>2. QED  BY <2>1, <3>2, <4>1 DEF ListedSubjects
      <3>3. QED  BY <3>1, <3>2
    <2>6. u \in Staff => MarksAttendance(u, row.classroom, row.subject)
      BY <2>1 DEF MarksAttendance, Triple
    <2>7. QED  BY <2>4, <2>5, <2>6 DEF row
  <1>2. ASSUME NEW u \in Staff \cup Pupils, NEW a \in ListedAnnouncements(u),
               db.announcement[a].audience = "classroom"
        PROVE  db.announcement[a].classrooms \cap ListedClassrooms(u) # {}
    <2>1. db.announcement[a].classrooms \cap AudienceClassrooms(u) # {}
      BY <1>2 DEF ListedAnnouncements, Addressed
    <2>2. AudienceClassrooms(u) = ListedClassrooms(u)
      BY RolesAssumption DEF AudienceClassrooms, ListedClassrooms
    <2>3. QED  BY <2>1, <2>2
  <1>3. ASSUME NEW u \in Staff, NEW c \in Classrooms, NEW s \in Subjects
        PROVE  MarksAttendance(u, c, s) <=> ReadAnswer(u, c, s) = "granted"
    BY DEF MarksAttendance, ReadAnswer, ActiveClassroom, Active
  <1>4. QED  BY <1>1, <1>2, <1>3 DEF ScopesAgree

LEMMA SchoolIsTyped == SchoolInv => Typed(db)
  BY DEF SchoolInv, TablesConsistent

\* However the tables came about, a teacher's and a student's lists show
\* exactly the classrooms, subjects, entries and announcements they can open.
THEOREM ListsShowWhatOpens == SchoolSpec => []ListsMatchGets
  BY SchoolIsTyped, ListsMatch, SchoolAlways, PTL

\* However the tables came about, what a list shows refers only to what its
\* reader can open, and a teacher reads the register of exactly the classes
\* whose attendance she can mark.
THEOREM ScopesStayInAgreement == SchoolSpec => []ScopesAgree
  BY SchoolIsTyped, ScopesMatch, SchoolAlways, PTL
===============================================================================
