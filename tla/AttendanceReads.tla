---------------------------- MODULE AttendanceReads ----------------------------
(***************************************************************************)
(* The queries over the attendance register once the caller's scope is     *)
(* authorized: the paged list, the daily sheet, the export, the statistics *)
(* (AttendanceReadService) and the reports (ReportsService).  Each has a   *)
(* statement of its own.  All of them fix the subject, so the tables here  *)
(* hold one subject; one row per student, classroom and day.               *)
(***************************************************************************)
EXTENDS Integers, FiniteSets, FiniteSetsExt

CONSTANTS
    Students,          \* profile ids, which order rows that are otherwise equal
    Rooms,             \* classroom ids
    Dates,
    MaxReportRows,     \* MAX_REPORT_ROWS
    MaxReportStudents, \* MAX_REPORT_STUDENTS
    None               \* a filter that is not given, no classroom

ASSUME RegisterAssumption ==
    /\ IsFiniteSet(Students) /\ Students \subseteq Nat /\ Rooms \subseteq Nat /\ Dates \subseteq Nat
    /\ MaxReportRows \in Nat /\ MaxReportStudents \in Nat
    /\ None \notin Students \cup Rooms \cup Dates /\ None \notin {"present", "absent"}

\* rows: records [student, classroom, date, status];
\* profile: student -> [active, classroom, roll], roll 0 when there is none.
VARIABLES rows, profile

\* The unique constraint of the register.
OneRowPerDay(R) ==
    \A q, r \in R :
        q.student = r.student /\ q.classroom = r.classroom /\ q.date = r.date => q = r

Filters ==
    [student : Students \cup {None}, from : Dates \cup {None}, to : Dates \cup {None},
     status : {"present", "absent", None}]

ValidRange(f) == f.from = None \/ f.to = None \/ f.from <= f.to

(***************************************************************************)
(* AttendanceRepository.                                                   *)
(***************************************************************************)
\* _apply_filters; a student's own rows may be asked for in every classroom.
Matching(c, f) ==
    {r \in rows :
        /\ c # None => r.classroom = c
        /\ f.student # None => r.student = f.student
        /\ f.from # None => r.date >= f.from
        /\ f.to # None => r.date <= f.to
        /\ f.status # None => r.status = f.status}

\* Mutant: rows of one day are in no particular order.
PrecedesByDate(q, r) == q.date < r.date

Precedes(q, r) ==
    \/ q.date < r.date
    \/ q.date = r.date /\ q.classroom < r.classroom
    \/ q.date = r.date /\ q.classroom = r.classroom /\ q.student < r.student

\* ORDER BY ... LIMIT ... OFFSET
Page(S, limit, offset) ==
    {r \in S : Cardinality({q \in S : Precedes(q, r)}) \in offset .. offset + limit - 1}

Daily(c, d) == {r \in rows : r.classroom = c /\ r.date = d}

Counts(S) ==
    [total   |-> Cardinality(S),
     present |-> Cardinality({r \in S : r.status = "present"}),
     absent  |-> Cardinality({r \in S : r.status = "absent"})]

\* GROUP BY: only groups that have a row.
ByStudent(c, f) ==
    LET S == Matching(c, f)
    IN  [s \in {r.student : r \in S} |-> Counts({r \in S : r.student = s})]

ByClassroom(c, f) ==
    LET S == Matching(c, f)
    IN  [k \in {r.classroom : r \in S} |-> Counts({r \in S : r.classroom = k})]

\* The rows of list_for_export, joined with the roll number of their student.
Export(c, f) ==
    {[date |-> r.date, student |-> r.student, status |-> r.status,
      roll |-> profile[r.student].roll] : r \in Matching(c, f)}

(***************************************************************************)
(* AttendanceReadService, once authorize_scope has let the caller pass.    *)
(* The page of a list and its total are two statements.                    *)
(***************************************************************************)
Refused(why) == [code |-> why]

\* Hundredths of a percent: round() takes the even neighbour of a half.
Percentage(counts) ==
    IF counts.total = 0 THEN 0
    ELSE LET q == (10000 * counts.present) \div counts.total
             r == 2 * ((10000 * counts.present) % counts.total)
         IN  IF r > counts.total \/ (r = counts.total /\ q % 2 = 1) THEN q + 1 ELSE q

Share(counts) == [counts |-> counts, percentage |-> Percentage(counts)]

Detail(c, f, limit, offset) ==
    IF ~ValidRange(f) THEN Refused("invalid_range")
    ELSE [code |-> "ok", items |-> Page(Matching(c, f), limit, offset),
          total |-> Cardinality(Matching(c, f))]

Stats(c, f, grouping) ==
    IF ~ValidRange(f) THEN Refused("invalid_range")
    ELSE LET groups == CASE grouping = "student"   -> ByStudent(c, f)
                         [] grouping = "classroom" -> ByClassroom(c, f)
                         [] grouping = "overall"   -> [all \in {"all"} |-> Counts(Matching(c, f))]
         IN  [code |-> "ok", groups |-> [g \in DOMAIN groups |-> Share(groups[g])]]

\* A student's own rows, in one classroom or in all of them; the range is
\* checked before the profile is looked up.
SelfDetail(s, c, f, limit, offset) ==
    IF ValidRange(f) /\ ~profile[s].active THEN Refused("profile_not_found")
    ELSE Detail(c, [f EXCEPT !.student = s], limit, offset)

SelfStats(s, c, from, to) ==
    LET f == [student |-> s, from |-> from, to |-> to, status |-> None]
    IN  IF ~ValidRange(f) THEN Refused("invalid_range")
        ELSE IF ~profile[s].active THEN Refused("profile_not_found")
        ELSE [code |-> "ok", own |-> Share(Counts(Matching(c, f)))]

(***************************************************************************)
(* ReportsRepository: the classroom's active students and their rows.      *)
(***************************************************************************)
Roster(c) == {s \in Students : profile[s].active /\ profile[s].classroom = c}

Within(c, from, to) ==
    {r \in rows : r.classroom = c /\ r.date >= from /\ r.date <= to}

ReportRows(c, from, to, student) ==
    {r \in Within(c, from, to) : r.student \in Roster(c) /\ student \in {None, r.student}}

\* Ties are broken by the roll number, missing ones last, then by the id.
ByRoll(s, t) ==
    LET a == profile[s].roll
        b == profile[t].roll
    IN  \/ a # 0 /\ (b = 0 \/ a < b)
        \/ a = b /\ s < t

\* The first limit rows by date, roll number and student.
Details(c, from, to, student, limit) ==
    LET S == ReportRows(c, from, to, student)
        Before(q, r) ==
            q.date < r.date \/ (q.date = r.date /\ ByRoll(q.student, r.student))
    IN  {r \in S : Cardinality({q \in S : Before(q, r)}) < limit}

\* Mutant: the outer join forgets the classroom of the attendance rows.
RosterCountsAnywhere(c, from, to) ==
    [s \in Roster(c) |-> Counts({r \in rows : r.date >= from /\ r.date <= to /\ r.student = s})]

\* The outer join: a student without rows counts zero.
RosterCounts(c, from, to) ==
    [s \in Roster(c) |-> Counts({r \in Within(c, from, to) : r.student = s})]

(***************************************************************************)
(* ReportsService.                                                         *)
(***************************************************************************)
AttendanceReport(c, from, to, student) ==
    LET summary == Counts(ReportRows(c, from, to, student))
    IN  IF student # None /\ student \notin Roster(c) THEN [code |-> "student_not_in_scope"]
        ELSE IF summary.total > MaxReportRows THEN [code |-> "too_large"]
        ELSE [code |-> "ok", summary |-> summary,
              details |-> Details(c, from, to, student, MaxReportRows + 1)]

Leaderboard(c, from, to) ==
    LET counts == RosterCounts(c, from, to)
        P(s) == Percentage(counts[s])
        Ahead(s, t) == P(s) > P(t) \/ (P(s) = P(t) /\ ByRoll(s, t))
    IN  IF Cardinality(Roster(c)) > MaxReportStudents THEN [code |-> "too_large"]
        ELSE [code |-> "ok", counts |-> counts,
              rank |-> [s \in Roster(c) |-> 1 + Cardinality({t \in Roster(c) : Ahead(t, s)})]]

\* Worst attendance first.
Defaulters(c, from, to, threshold) ==
    LET counts == RosterCounts(c, from, to)
        P(s) == Percentage(counts[s])
        Below == {s \in Roster(c) : P(s) < threshold}
        Ahead(s, t) == P(s) < P(t) \/ (P(s) = P(t) /\ ByRoll(s, t))
    IN  IF Cardinality(Roster(c)) > MaxReportStudents THEN [code |-> "too_large"]
        ELSE [code |-> "ok",
              place |-> [s \in Below |-> 1 + Cardinality({t \in Below : Ahead(t, s)})]]

(***************************************************************************)
(* Properties.                                                             *)
(***************************************************************************)
\* The counts of a family of groups add up to those of the whole.
AddUp(groups, whole) ==
    \A k \in {"total", "present", "absent"} :
        MapThenSumSet(LAMBDA g : groups[g][k], DOMAIN groups) = whole[k]

\* The statistics agree with each other and with the rows that the lists, the
\* daily sheets and the export show, whatever is filtered; the pages of a list are
\* its rows, each once, and a student reads of herself what her teacher reads of her.
ViewsAgree ==
    \A c \in Rooms, f \in Filters :
        LET S         == Matching(c, f)
            overall   == Stats(c, f, "overall").groups["all"].counts
            students  == Stats(c, f, "student").groups
            rooms     == Stats(c, f, "classroom").groups
            Sums(G)   == [g \in DOMAIN G |-> G[g].counts]
            Pages(n)  == {Detail(c, f, n, n * i) : i \in 0 .. Cardinality(S)}
        IN  IF ~ValidRange(f) THEN Stats(c, f, "overall") = Detail(c, f, 1, 0)
            ELSE
            /\ AddUp(Sums(students), overall) /\ AddUp(Sums(rooms), overall)
            /\ Cardinality(Export(c, f)) = overall.total
            /\ \A n \in 1 .. 2 :
                  /\ S = UNION {page.items : page \in Pages(n)}
                  /\ \A page \in Pages(n) :
                        page.total = overall.total /\ Cardinality(page.items) <= n
            /\ f.student = None /\ f.status = None /\ f.from # None /\ f.to # None =>
                  S = UNION {Daily(c, d) : d \in f.from .. f.to}
            /\ f.student # None /\ profile[f.student].active =>
                  /\ SelfDetail(f.student, c, f, 2, 0) = Detail(c, f, 2, 0)
                  /\ f.status = None /\ S # {} =>
                        SelfStats(f.student, c, f.from, f.to).own = students[f.student]

\* The reports of one period agree: the summary with its details, with the
\* per-student rows of the leaderboard and with the statistics less those who left;
\* the defaulters are the students at the end of the leaderboard.
PeriodAgrees(c, from, to) ==
    LET board  == Leaderboard(c, from, to)
        report == AttendanceReport(c, from, to, None)
        left   == {r \in Within(c, from, to) : r.student \notin Roster(c)}
    IN  board.code = "ok" =>
        /\ report.code = "ok" =>
              /\ report.summary = Counts(report.details)
              /\ AddUp(board.counts, report.summary)
              /\ Counts(Within(c, from, to)).total = report.summary.total + Cardinality(left)
        /\ \A s \in Roster(c) :
              LET own == AttendanceReport(c, from, to, s)
              IN  own.code = "ok" => own.summary = board.counts[s]
        /\ {board.rank[s] : s \in Roster(c)} = 1 .. Cardinality(Roster(c))
        /\ \A threshold \in {0, 5000, 7500, 10000} :
              LET place == Defaulters(c, from, to, threshold).place
              IN  /\ {place[s] : s \in DOMAIN place} = 1 .. Cardinality(DOMAIN place)
                  /\ {board.rank[s] : s \in DOMAIN place}
                        = Cardinality(Roster(c)) - Cardinality(DOMAIN place) + 1
                            .. Cardinality(Roster(c))

PeriodReportsAgree ==
    \A c \in Rooms, from \in Dates, to \in Dates : from <= to => PeriodAgrees(c, from, to)
===============================================================================
