------------------------- MODULE ViewsAndImportsProofs -------------------------
(***************************************************************************)
(* The views of the register and the bulk imports, for every register,     *)
(* every filter, every file and every limit.                               *)
(***************************************************************************)
EXTENDS DecisionsProofs

(***************************************************************************)
(* Ranks and sums over finite sets.                                        *)
(***************************************************************************)
\* R is a strict total order on S.
Orders(R, S) ==
    /\ \A x \in S : <<x, x>> \notin R
    /\ \A x, y, z \in S : <<x, y>> \in R /\ <<y, z>> \in R => <<x, z>> \in R
    /\ \A x, y \in S : x = y \/ <<x, y>> \in R \/ <<y, x>> \in R

Ahead(R, S, x) == {y \in S : <<y, x>> \in R}

\* The number of elements before it numbers the elements of S from 0, each once.
LEMMA RankIs ==
    ASSUME NEW S, IsFiniteSet(S), NEW R, Orders(R, S)
    PROVE  /\ Cardinality(S) \in Nat
           /\ \A x \in S : Cardinality(Ahead(R, S, x)) \in 0 .. Cardinality(S) - 1
           /\ \A x, y \in S :
                 Cardinality(Ahead(R, S, x)) = Cardinality(Ahead(R, S, y)) => x = y
           /\ \A k \in 0 .. Cardinality(S) - 1 :
                 \E x \in S : Cardinality(Ahead(R, S, x)) = k
  <1> DEFINE n == Cardinality(S)
             rank == [x \in S |-> Cardinality(Ahead(R, S, x))]
  <1>1. n \in Nat
    BY FS_CardinalityType
  <1>2. ASSUME NEW x \in S PROVE Cardinality(Ahead(R, S, x)) \in 0 .. n - 1
    <2>1. Ahead(R, S, x) \in SUBSET (S \ {x})
      BY DEF Orders, Ahead
    <2>2. IsFiniteSet(S \ {x}) /\ Cardinality(S \ {x}) = n - 1
      BY <1>2, FS_RemoveElement
    <2>3. IsFiniteSet(Ahead(R, S, x)) /\ Cardinality(Ahead(R, S, x)) <= n - 1
      BY <2>1, <2>2, FS_Subset
    <2>4. Cardinality(Ahead(R, S, x)) \in Nat
      BY <2>3, FS_CardinalityType
    <2>5. QED  BY <1>1, <2>3, <2>4
  <1>3. ASSUME NEW x \in S, NEW y \in S, <<x, y>> \in R
        PROVE  Cardinality(Ahead(R, S, x)) # Cardinality(Ahead(R, S, y))
    <2>1. Ahead(R, S, x) \in SUBSET Ahead(R, S, y)
      BY <1>3 DEF Orders, Ahead
    <2>2. x \in Ahead(R, S, y) /\ x \notin Ahead(R, S, x)
      BY <1>3 DEF Orders, Ahead
    <2>3. IsFiniteSet(Ahead(R, S, y))
      <3>1. Ahead(R, S, y) \in SUBSET S
        BY DEF Ahead
      <3>2. QED  BY <3>1, FS_Subset
    <2>4. QED  BY <2>1, <2>2, <2>3, FS_Subset
  <1>4. \A x, y \in S : Cardinality(Ahead(R, S, x)) = Cardinality(Ahead(R, S, y)) => x = y
    BY <1>3 DEF Orders
  <1>5. rank \in Injection(S, 0 .. n - 1)
    <2> HIDE DEF n
    <2>1. rank \in [S -> 0 .. n - 1] /\ \A x, y \in S : rank[x] = rank[y] => x = y
      BY <1>2, <1>4
    <2>2. QED  BY <2>1 DEF Injection, IsInjective
  <1>6. IsFiniteSet(0 .. n - 1) /\ Cardinality(0 .. n - 1) = n
    <2> HIDE DEF n
    <2>1. 0 \in Int /\ n - 1 \in Int
      BY <1>1
    <2>2. /\ IsFiniteSet(0 .. n - 1)
          /\ Cardinality(0 .. n - 1) = IF 0 > n - 1 THEN 0 ELSE n - 1 - 0 + 1
      BY <2>1, FS_Interval
    <2>3. QED  BY <1>1, <2>2
  <1>7. rank \in Surjection(S, 0 .. n - 1)
    BY <1>5, <1>6, FS_Injection
  <1>8. \A k \in 0 .. n - 1 : \E x \in S : Cardinality(Ahead(R, S, x)) = k
    BY <1>7 DEF Surjection
  <1>9. QED  BY <1>1, <1>2, <1>4, <1>8

\* The sum of field k.
Total(groups, k) == MapThenSumSet(LAMBDA g : groups[g][k], DOMAIN groups)

\* The parts of a finite set add up to it.
LEMMA PartsAddUp ==
    ASSUME NEW groups, NEW k, IsFiniteSet(DOMAIN groups), NEW S, IsFiniteSet(S),
           NEW of \in [S -> DOMAIN groups],
           \A g \in DOMAIN groups : groups[g][k] = Cardinality({s \in S : of[s] = g})
    PROVE  Total(groups, k) = Cardinality(S)
  <1> DEFINE D == DOMAIN groups
             In(T) == {s \in S : of[s] \in T}
             Step(h) == [T \in SUBSET D |->
                            IF T = {} THEN 0
                            ELSE LET g == CHOOSE g \in T : TRUE
                                 IN  groups[g][k] + h[T \ {g}]]
             all == [T \in SUBSET D |-> Cardinality(In(T))]
             sum == CHOOSE h : h = Step(h)
  <1>1. ASSUME NEW T \in SUBSET D
        PROVE  /\ Cardinality(In(T)) \in Nat
               /\ Cardinality(In({})) = 0
               /\ \A g \in T : Cardinality(In(T)) = groups[g][k] + Cardinality(In(T \ {g}))
    <2>1. \A U : IsFiniteSet(In(U)) /\ Cardinality(In(U)) \in Nat
      <3>1. \A U : In(U) \in SUBSET S
        OBVIOUS
      <3>2. QED  BY <3>1, FS_Subset, FS_CardinalityType
    <2>2. Cardinality(In({})) = 0
      <3>1. In({}) = {}
        OBVIOUS
      <3>2. QED  BY <3>1, FS_EmptySet
    <2>3. ASSUME NEW g \in T
          PROVE  Cardinality(In(T)) = groups[g][k] + Cardinality(In(T \ {g}))
      <3>1. In(T) = In({g}) \cup In(T \ {g}) /\ In({g}) \cap In(T \ {g}) = {}
        OBVIOUS
      <3>2. In({g}) = {s \in S : of[s] = g}
        OBVIOUS
      <3> HIDE DEF In
      <3>3. Cardinality(In({g})) = groups[g][k]
        BY <3>2
      <3>4. Cardinality(In(T)) = Cardinality(In({g})) + Cardinality(In(T \ {g}))
                                     - Cardinality(In({g}) \cap In(T \ {g}))
        BY <2>1, <3>1, FS_Union
      <3>5. Cardinality(In({g}) \cap In(T \ {g})) = 0
        BY <3>1, FS_EmptySet
      <3>6. QED  BY <2>1, <3>3, <3>4, <3>5
    <2>4. QED  BY <2>1, <2>2, <2>3
  <1> HIDE DEF In
  <1>2. all = Step(all)
    <2>1. ASSUME NEW T \in SUBSET D
          PROVE  all[T] = IF T = {} THEN 0
                          ELSE LET g == CHOOSE g \in T : TRUE
                               IN  groups[g][k] + all[T \ {g}]
      <3>1. CASE T = {}
        BY <1>1, <3>1
      <3>2. CASE T # {}
        <4>1. (CHOOSE g \in T : TRUE) \in T
          BY <3>2
        <4>2. T \ {CHOOSE g \in T : TRUE} \in SUBSET D
          OBVIOUS
        <4>3. QED  BY <1>1, <3>2, <4>1, <4>2
      <3>3. QED  BY <3>1, <3>2
    <2>2. QED  BY <2>1
  <1>3. sum = Step(sum)
    <2> HIDE DEF Step, all
    <2>1. QED  BY <1>2
  <1>4. ASSUME NEW T \in SUBSET D
        PROVE  sum[T] = IF T = {} THEN 0
                        ELSE LET g == CHOOSE g \in T : TRUE
                             IN  groups[g][k] + sum[T \ {g}]
    <2> HIDE DEF sum
    <2>1. QED  BY <1>3
  <1> HIDE DEF sum, all, Step
  <1>5. \A T \in SUBSET D : sum[T] = Cardinality(In(T))
    <2> DEFINE Bad == {Cardinality(T) : T \in {U \in SUBSET D : sum[U] # Cardinality(In(U))}}
    <2>1. ASSUME Bad # {} PROVE FALSE
      <3>1. Bad \in SUBSET Nat
        BY FS_Subset, FS_CardinalityType
      <3>2. PICK m \in Bad : \A n \in Bad : m <= n
        <4> HIDE DEF Bad
        <4>1. QED  BY <2>1, <3>1, LeastOf
      <3>3. PICK T \in SUBSET D : sum[T] # Cardinality(In(T)) /\ Cardinality(T) = m
        OBVIOUS
      <3>4. T # {}
        BY <1>1, <1>4, <3>3
      <3> DEFINE g == CHOOSE g \in T : TRUE
      <3>5. g \in T /\ T \ {g} \in SUBSET D
        BY <3>4
      <3> HIDE DEF g
      <3>6. Cardinality(T \ {g}) = m - 1 /\ m \in Nat
        BY <3>1, <3>3, <3>5, FS_Subset, FS_RemoveElement
      <3>7. sum[T \ {g}] = Cardinality(In(T \ {g}))
        <4>1. Cardinality(T \ {g}) \notin Bad
          <5> HIDE DEF Bad
          <5>1. QED  BY <3>1, <3>2, <3>6
        <4>2. QED  BY <3>5, <4>1
      <3>8. sum[T] = groups[g][k] + sum[T \ {g}]
        BY <1>4, <3>4 DEF g
      <3>9. QED  BY <1>1, <3>3, <3>5, <3>7, <3>8
    <2>2. QED  BY <2>1
  <1>6. Total(groups, k) = sum[D]
    BY DEF Total, MapThenSumSet, MapThenFoldSet, sum, Step
  <1>7. In(D) = S
    BY DEF In
  <1>8. QED  BY <1>5, <1>6, <1>7

(***************************************************************************)
(* The views of one filter.                                                *)
(***************************************************************************)
Register ==
    /\ rows \in SUBSET RegisterRows /\ IsFiniteSet(rows) /\ OneRowPerDay(rows)
    /\ profile \in RegisterProfiles

LEMMA CountsAre ==
    ASSUME NEW S
    PROVE  /\ Counts(S)["total"] = Cardinality(S)
           /\ Counts(S)["present"] = Cardinality({r \in S : r.status = "present"})
           /\ Counts(S)["absent"] = Cardinality({r \in S : r.status = "absent"})
  BY DEF Counts

LEMMA CountsAddUp ==
    ASSUME NEW S, IsFiniteSet(S), NEW groups, IsFiniteSet(DOMAIN groups),
           NEW of \in [S -> DOMAIN groups],
           \A g \in DOMAIN groups : groups[g] = Counts({r \in S : of[r] = g})
    PROVE  AddUp(groups, Counts(S))
  <1> SUFFICES ASSUME NEW k \in {"total", "present", "absent"}
               PROVE  Total(groups, k) = Counts(S)[k]
    BY DEF AddUp, Total, MapThenSumSet, MapThenFoldSet
  <1>1. PICK T \in SUBSET S :
            /\ Counts(S)[k] = Cardinality(T)
            /\ \A g \in DOMAIN groups : groups[g][k] = Cardinality({r \in T : of[r] = g})
    <2>1. CASE k = "total"
      <3>1. Counts(S)[k] = Cardinality(S)
        BY <2>1 DEF Counts
      <3>2. \A g \in DOMAIN groups : groups[g][k] = Cardinality({r \in S : of[r] = g})
        BY <2>1, CountsAre
      <3>3. QED  BY <3>1, <3>2
    <2>2. CASE k = "present"
      <3> DEFINE T == {r \in S : r.status = "present"}
      <3>1. \A g : {r \in {q \in S : of[q] = g} : r.status = "present"} = {r \in T : of[r] = g}
        OBVIOUS
      <3>2. Counts(S)[k] = Cardinality(T)
        BY <2>2 DEF Counts
      <3>3. \A g \in DOMAIN groups :
                groups[g][k] = Cardinality({r \in {q \in S : of[q] = g} : r.status = "present"})
        <4>1. ASSUME NEW g \in DOMAIN groups
              PROVE  groups[g][k]
                        = Cardinality({r \in {q \in S : of[q] = g} : r.status = "present"})
          <5>1. groups[g] = Counts({q \in S : of[q] = g})
            OBVIOUS
          <5>2. QED  BY <2>2, <5>1, CountsAre
        <4>2. QED  BY <4>1
      <3>4. T \in SUBSET S /\ \A g \in DOMAIN groups :
                                groups[g][k] = Cardinality({r \in T : of[r] = g})
        <4> HIDE DEF T
        <4>1. QED  BY <3>1, <3>3
      <3> HIDE DEF T
      <3>5. QED  BY <3>2, <3>4
    <2>3. CASE k = "absent"
      <3> DEFINE T == {r \in S : r.status = "absent"}
      <3>1. \A g : {r \in {q \in S : of[q] = g} : r.status = "absent"} = {r \in T : of[r] = g}
        OBVIOUS
      <3>2. Counts(S)[k] = Cardinality(T)
        BY <2>3 DEF Counts
      <3>3. \A g \in DOMAIN groups :
                groups[g][k] = Cardinality({r \in {q \in S : of[q] = g} : r.status = "absent"})
        <4>1. ASSUME NEW g \in DOMAIN groups
              PROVE  groups[g][k]
                        = Cardinality({r \in {q \in S : of[q] = g} : r.status = "absent"})
          <5>1. groups[g] = Counts({q \in S : of[q] = g})
            OBVIOUS
          <5>2. QED  BY <2>3, <5>1, CountsAre
        <4>2. QED  BY <4>1
      <3>4. T \in SUBSET S /\ \A g \in DOMAIN groups :
                                groups[g][k] = Cardinality({r \in T : of[r] = g})
        <4> HIDE DEF T
        <4>1. QED  BY <3>1, <3>3
      <3> HIDE DEF T
      <3>5. QED  BY <3>2, <3>4
    <2>4. QED  BY <2>1, <2>2, <2>3
  <1>2. IsFiniteSet(T)
    BY FS_Subset
  <1> DEFINE own == [r \in T |-> of[r]]
  <1>3. own \in [T -> DOMAIN groups] /\ \A g : {r \in T : own[r] = g} = {r \in T : of[r] = g}
    OBVIOUS
  <1> HIDE DEF own
  <1>4. Total(groups, k) = Cardinality(T)
    <2>1. \A g \in DOMAIN groups : groups[g][k] = Cardinality({r \in T : own[r] = g})
      BY <1>1, <1>3
    <2>2. QED  BY <1>2, <1>3, <2>1, PartsAddUp
  <1>5. QED  BY <1>1, <1>4

\* The groups of a column that occur in S, as GROUP BY makes them.
LEMMA OccurringFinite ==
    ASSUME NEW S, IsFiniteSet(S), NEW of
    PROVE  IsFiniteSet({of[r] : r \in S})
  <1> DEFINE own == [r \in S |-> of[r]]
  <1>1. own \in Surjection(S, {of[r] : r \in S})
    BY DEF Surjection
  <1>2. QED  BY <1>1, FS_Surjection

LEMMA MatchingIs ==
    ASSUME Register, NEW c \in Rooms, NEW f
    PROVE  /\ Matching(c, f) \in SUBSET rows /\ IsFiniteSet(Matching(c, f))
           /\ Cardinality(Matching(c, f)) \in Nat
           /\ \A r \in Matching(c, f) : r \in RegisterRows /\ r.classroom = c
           /\ \A q, r \in Matching(c, f) : q.student = r.student /\ q.date = r.date => q = r
  <1>1. Matching(c, f) \in SUBSET rows
    BY DEF Matching
  <1>2. c # None
    BY RegisterAssumption
  <1>3. \A r \in Matching(c, f) : r.classroom = c
    BY <1>2 DEF Matching
  <1>4. QED  BY <1>1, <1>3, FS_Subset, FS_CardinalityType DEF Register, OneRowPerDay

LEMMA RowIs ==
    ASSUME NEW r \in RegisterRows
    PROVE  /\ r.student \in Students /\ r.student \in Nat /\ r.classroom \in Nat
           /\ r.date \in Dates /\ r.date \in Nat /\ r.status \in {"present", "absent"}
  BY RegisterAssumption DEF RegisterRows

LEMMA StatsIs ==
    ASSUME NEW c, NEW f, ValidRange(f)
    PROVE  /\ Stats(c, f, "overall").groups["all"].counts = Counts(Matching(c, f))
           /\ LET G == Stats(c, f, "student").groups
              IN  /\ [g \in DOMAIN G |-> G[g].counts] = ByStudent(c, f)
                  /\ \A g \in DOMAIN ByStudent(c, f) : G[g] = Share(ByStudent(c, f)[g])
           /\ LET G == Stats(c, f, "classroom").groups
              IN  [g \in DOMAIN G |-> G[g].counts] = ByClassroom(c, f)
  <1>1. Stats(c, f, "overall").groups
            = [g \in {"all"} |-> Share([all \in {"all"} |-> Counts(Matching(c, f))][g])]
    BY DEF Stats
  <1>2. Stats(c, f, "student").groups
            = [g \in DOMAIN ByStudent(c, f) |-> Share(ByStudent(c, f)[g])]
    BY DEF Stats
  <1>3. Stats(c, f, "classroom").groups
            = [g \in DOMAIN ByClassroom(c, f) |-> Share(ByClassroom(c, f)[g])]
    BY DEF Stats
  <1>4. \A x : Share(x).counts = x
    BY DEF Share
  <1>5. ByStudent(c, f) = [g \in DOMAIN ByStudent(c, f) |-> ByStudent(c, f)[g]]
    BY DEF ByStudent
  <1>6. ByClassroom(c, f) = [g \in DOMAIN ByClassroom(c, f) |-> ByClassroom(c, f)[g]]
    BY DEF ByClassroom
  <1>7. QED  BY <1>1, <1>2, <1>3, <1>4, <1>5, <1>6

LEMMA GroupsAddUp ==
    ASSUME Register, NEW c \in Rooms, NEW f
    PROVE  /\ AddUp(ByStudent(c, f), Counts(Matching(c, f)))
           /\ AddUp(ByClassroom(c, f), Counts(Matching(c, f)))
  <1> DEFINE S == Matching(c, f)
             student == [r \in S |-> r.student]
             classroom == [r \in S |-> r.classroom]
  <1>1. IsFiniteSet(S)
    BY MatchingIs
  <1>2. /\ DOMAIN ByStudent(c, f) = {student[r] : r \in S}
        /\ \A g \in DOMAIN ByStudent(c, f) :
              ByStudent(c, f)[g] = Counts({r \in S : student[r] = g})
    <2>1. \A g : {r \in S : r.student = g} = {r \in S : student[r] = g}
      OBVIOUS
    <2>2. {r.student : r \in S} = {student[r] : r \in S}
      OBVIOUS
    <2>3. ByStudent(c, f) = [s \in {r.student : r \in S} |-> Counts({r \in S : r.student = s})]
      BY DEF ByStudent
    <2>4. QED  BY <2>1, <2>2, <2>3
  <1>3. /\ DOMAIN ByClassroom(c, f) = {classroom[r] : r \in S}
        /\ \A g \in DOMAIN ByClassroom(c, f) :
              ByClassroom(c, f)[g] = Counts({r \in S : classroom[r] = g})
    <2>1. \A g : {r \in S : r.classroom = g} = {r \in S : classroom[r] = g}
      OBVIOUS
    <2>2. {r.classroom : r \in S} = {classroom[r] : r \in S}
      OBVIOUS
    <2>3. ByClassroom(c, f)
              = [k \in {r.classroom : r \in S} |-> Counts({r \in S : r.classroom = k})]
      BY DEF ByClassroom
    <2>4. QED  BY <2>1, <2>2, <2>3
  <1>4. /\ student \in [S -> {student[r] : r \in S}]
        /\ classroom \in [S -> {classroom[r] : r \in S}]
    OBVIOUS
  <1> HIDE DEF S, student, classroom
  <1>5. AddUp(ByStudent(c, f), Counts(S))
    <2>1. IsFiniteSet(DOMAIN ByStudent(c, f)) /\ student \in [S -> DOMAIN ByStudent(c, f)]
      BY <1>1, <1>2, <1>4, OccurringFinite
    <2>2. QED  BY <1>1, <1>2, <2>1, CountsAddUp
  <1>6. AddUp(ByClassroom(c, f), Counts(S))
    <2>1. IsFiniteSet(DOMAIN ByClassroom(c, f)) /\ classroom \in [S -> DOMAIN ByClassroom(c, f)]
      BY <1>1, <1>3, <1>4, OccurringFinite
    <2>2. QED  BY <1>1, <1>3, <2>1, CountsAddUp
  <1>7. QED  BY <1>5, <1>6 DEF S

\* No two rows of one classroom export alike.
LEMMA ExportIs ==
    ASSUME Register, NEW c \in Rooms, NEW f
    PROVE  Cardinality(Export(c, f)) = Cardinality(Matching(c, f))
  <1> DEFINE S == Matching(c, f)
             line == [r \in S |-> [date |-> r.date, student |-> r.student, status |-> r.status,
                                   roll |-> profile[r.student].roll]]
  <1>1. line \in [S -> Export(c, f)] /\ \A e \in Export(c, f) : \E r \in S : line[r] = e
    BY DEF Export
  <1>2. ASSUME NEW q \in S, NEW r \in S, line[q] = line[r] PROVE q = r
    <2>1. line[q].date = q.date /\ line[q].student = q.student
      OBVIOUS
    <2>2. line[r].date = r.date /\ line[r].student = r.student
      OBVIOUS
    <2> HIDE DEF line
    <2>3. q.date = r.date /\ q.student = r.student
      BY <1>2, <2>1, <2>2
    <2>4. QED  BY <2>3, MatchingIs
  <1>3. line \in Bijection(S, Export(c, f))
    <2> HIDE DEF line
    <2>1. QED  BY <1>1, <1>2 DEF Bijection, Injection, Surjection, IsInjective
  <1>4. IsFiniteSet(S)
    BY MatchingIs
  <1>5. ExistsBijection(S, Export(c, f))
    BY <1>3 DEF ExistsBijection
  <1>6. QED  BY <1>4, <1>5, FS_Bijection

\* The pages of n rows show every row that matches, each on one page.
LEMMA PagesAre ==
    ASSUME Register, NEW c \in Rooms, NEW f, NEW n \in 1 .. 2
    PROVE  LET S == Matching(c, f)
           IN  /\ S = UNION {Page(S, n, n * i) : i \in 0 .. Cardinality(S)}
               /\ \A i \in 0 .. Cardinality(S) : Cardinality(Page(S, n, n * i)) <= n
  <1> DEFINE S == Matching(c, f)
             R == {p \in S \X S : Precedes(p[1], p[2])}
             rank == [r \in S |-> Cardinality({q \in S : Precedes(q, r)})]
  <1>1. \A q, r \in S : <<q, r>> \in R <=> Precedes(q, r)
    OBVIOUS
  <1>2. \A r \in S : Ahead(R, S, r) = {q \in S : Precedes(q, r)}
    BY <1>1 DEF Ahead
  <1>3. Orders(R, S)
    <2>1. \A r \in S : r.student \in Nat /\ r.date \in Nat /\ r.classroom \in Nat
      BY MatchingIs, RowIs
    <2>2. \A q, r \in S : q.student = r.student /\ q.date = r.date => q = r
      BY MatchingIs
    <2>3. \A q, r \in S : q.classroom = r.classroom
      BY MatchingIs
    <2> HIDE DEF S, R
    <2>4. \A r \in S : ~Precedes(r, r)
      BY <2>1 DEF Precedes
    <2>5. \A q, r, u \in S : Precedes(q, r) /\ Precedes(r, u) => Precedes(q, u)
      BY <2>1 DEF Precedes
    <2>6. \A q, r \in S : q = r \/ Precedes(q, r) \/ Precedes(r, q)
      BY <2>1, <2>2, <2>3 DEF Precedes
    <2>7. QED  BY <1>1, <2>4, <2>5, <2>6 DEF Orders
  <1>4. IsFiniteSet(S)
    BY MatchingIs
  <1> HIDE DEF S, R
  <1>5. /\ Cardinality(S) \in Nat
        /\ \A r \in S : rank[r] \in 0 .. Cardinality(S) - 1
        /\ \A q, r \in S : rank[q] = rank[r] => q = r
    <2>1. \A r \in S : rank[r] = Cardinality(Ahead(R, S, r))
      BY <1>2
    <2> HIDE DEF rank
    <2>2. QED  BY <1>3, <1>4, <2>1, RankIs
  <1>6. \A i : Page(S, n, n * i) = {r \in S : rank[r] \in n * i .. n * i + n - 1}
    BY DEF Page
  <1> HIDE DEF rank
  <1>7. \A r \in S : \E i \in 0 .. Cardinality(S) : r \in Page(S, n, n * i)
    <2> SUFFICES ASSUME NEW r \in S
                 PROVE  \E i \in 0 .. Cardinality(S) : rank[r] \in n * i .. n * i + n - 1
      BY <1>6
    <2>1. CASE n = 1
      <3>1. rank[r] \in 0 .. Cardinality(S)
        BY <1>5
      <3>2. rank[r] \in n * rank[r] .. n * rank[r] + n - 1
        BY <1>5, <2>1
      <3>3. QED  BY <3>1, <3>2
    <2>2. CASE n = 2
      <3>1. rank[r] \div 2 \in 0 .. Cardinality(S)
        BY <1>5
      <3>2. rank[r] \in 2 * (rank[r] \div 2) .. 2 * (rank[r] \div 2) + 2 - 1
        BY <1>5
      <3>3. QED  BY <2>2, <3>1, <3>2
    <2>3. QED  BY <2>1, <2>2
  <1>8. ASSUME NEW i \in 0 .. Cardinality(S) PROVE Cardinality(Page(S, n, n * i)) <= n
    <2> DEFINE T == Page(S, n, n * i)
               at == [r \in T |-> rank[r]]
               W == n * i .. n * i + n - 1
    <2>1. n * i \in Int /\ n \in Nat \ {0}
      <3>1. n = 1 \/ n = 2
        OBVIOUS
      <3>2. i \in Int
        BY <1>5
      <3>3. QED  BY <3>1, <3>2
    <2>2. IsFiniteSet(W) /\ Cardinality(W) = n
      <3>1. \A a \in Int, b \in Nat \ {0} :
                IsFiniteSet(a .. a + b - 1) /\ Cardinality(a .. a + b - 1) = b
        BY FS_Interval
      <3>2. QED  BY <2>1, <3>1
    <2>3. at \in Injection(T, W)
      <3>1. \A r \in T : r \in S /\ rank[r] \in W
        BY <1>6
      <3> HIDE DEF T, W
      <3>2. at \in [T -> W] /\ \A q, r \in T : at[q] = at[r] => q = r
        BY <1>5, <3>1
      <3>3. QED  BY <3>2 DEF Injection, IsInjective
    <2> HIDE DEF T, at, W
    <2>4. Cardinality(T) <= n
      BY <2>2, <2>3, FS_Injection
    <2>5. QED  BY <2>4 DEF T
  <1>9. \A i : Page(S, n, n * i) \in SUBSET S
    BY <1>6
  <1>10. S = UNION {Page(S, n, n * i) : i \in 0 .. Cardinality(S)}
    BY <1>7, <1>9
  <1>11. QED  BY <1>8, <1>10 DEF S
LEMMA DailyIs ==
    ASSUME Register, NEW c \in Rooms, NEW f \in Filters,
           f.student = None, f.status = None, f.from # None, f.to # None
    PROVE  Matching(c, f) = UNION {Daily(c, d) : d \in f.from .. f.to}
  <1>1. f.from \in Nat /\ f.to \in Nat
    BY RegisterAssumption DEF Filters
  <1>2. \A r \in rows : r.date \in Nat
    BY RowIs DEF Register
  <1>3. c # None
    BY RegisterAssumption
  <1>4. Matching(c, f) = {r \in rows : r.classroom = c /\ r.date >= f.from /\ r.date <= f.to}
    BY <1>3 DEF Matching
  <1>5. \A r \in rows : r.date >= f.from /\ r.date <= f.to <=> r.date \in f.from .. f.to
    BY <1>1, <1>2
  <1>6. QED  BY <1>4, <1>5 DEF Daily

\* A student reads of herself what her teacher reads.
LEMMA OwnIs ==
    ASSUME Register, NEW c \in Rooms, NEW f \in Filters, ValidRange(f),
           f.student # None, profile[f.student].active
    PROVE  /\ SelfDetail(f.student, c, f, 2, 0) = Detail(c, f, 2, 0)
           /\ f.status = None /\ Matching(c, f) # {} =>
                 SelfStats(f.student, c, f.from, f.to).own
                    = Stats(c, f, "student").groups[f.student]
  <1>1. [f EXCEPT !.student = f.student] = f
    BY DEF Filters
  <1>2. SelfDetail(f.student, c, f, 2, 0) = Detail(c, f, 2, 0)
    BY <1>1 DEF SelfDetail
  <1>3. ASSUME f.status = None, Matching(c, f) # {}
        PROVE  SelfStats(f.student, c, f.from, f.to).own
                  = Stats(c, f, "student").groups[f.student]
    <2>1. [student |-> f.student, from |-> f.from, to |-> f.to, status |-> None] = f
      BY <1>3 DEF Filters
    <2>2. SelfStats(f.student, c, f.from, f.to).own = Share(Counts(Matching(c, f)))
      BY <2>1 DEF SelfStats
    <2>3. \A r \in Matching(c, f) : r.student = f.student
      BY DEF Matching
    <2>4. /\ f.student \in {r.student : r \in Matching(c, f)}
          /\ {r \in Matching(c, f) : r.student = f.student} = Matching(c, f)
      BY <1>3, <2>3
    <2>5. /\ f.student \in DOMAIN ByStudent(c, f)
          /\ ByStudent(c, f)[f.student] = Counts(Matching(c, f))
      BY <2>4 DEF ByStudent
    <2>6. QED  BY <2>2, <2>5, StatsIs
  <1>4. QED  BY <1>2, <1>3

LEMMA ViewsAgreeHolds ==
    ASSUME Register
    PROVE  ViewsAgree
  <1> SUFFICES ASSUME NEW c \in Rooms, NEW f \in Filters
               PROVE  LET S         == Matching(c, f)
                          overall   == Stats(c, f, "overall").groups["all"].counts
                          students  == Stats(c, f, "student").groups
                          rooms     == Stats(c, f, "classroom").groups
                          Sums(G)   == [g \in DOMAIN G |-> G[g].counts]
                          Pages(n)  == {Detail(c, f, n, n * i) : i \in 0 .. Cardinality(S)}
                      IN  IF ~ValidRange(f) THEN Stats(c, f, "overall") = Detail(c, f, 1, 0)
                          ELSE
                          /\ AddUp(Sums(students), overall) /\ AddUp(Sums(rooms), overall)
                          /\ Cardinality(Export(c, f)) = overall.total
                          /\ \A n \in 1 .. 2 :
                                /\ S = UNION {page.items : page \in Pages(n)}
                                /\ \A page \in Pages(n) :
                                      /\ page.total = overall.total
                                      /\ Cardinality(page.items) <= n
                          /\ f.student = None /\ f.status = None /\ f.from # None
                                /\ f.to # None =>
                                S = UNION {Daily(c, d) : d \in f.from .. f.to}
                          /\ f.student # None /\ profile[f.student].active =>
                                /\ SelfDetail(f.student, c, f, 2, 0) = Detail(c, f, 2, 0)
                                /\ f.status = None /\ S # {} =>
                                      SelfStats(f.student, c, f.from, f.to).own
                                         = students[f.student]
    BY DEF ViewsAgree
  <1> DEFINE S         == Matching(c, f)
             overall   == Stats(c, f, "overall").groups["all"].counts
             students  == Stats(c, f, "student").groups
             rooms     == Stats(c, f, "classroom").groups
             Sums(G)   == [g \in DOMAIN G |-> G[g].counts]
             Pages(n)  == {Detail(c, f, n, n * i) : i \in 0 .. Cardinality(S)}
  <1>1. CASE ~ValidRange(f)
    <2>1. Stats(c, f, "overall") = Detail(c, f, 1, 0)
      BY <1>1 DEF Stats, Detail
    <2>2. QED  BY <1>1, <2>1
  <1>2. CASE ValidRange(f)
    <2>1. /\ overall = Counts(S) /\ Sums(students) = ByStudent(c, f)
          /\ Sums(rooms) = ByClassroom(c, f)
      BY <1>2, StatsIs
    <2>2. overall.total = Cardinality(S)
      BY <2>1, CountsAre
    <2>3. AddUp(Sums(students), overall) /\ AddUp(Sums(rooms), overall)
      BY <2>1, GroupsAddUp
    <2>4. Cardinality(Export(c, f)) = overall.total
      BY <2>2, ExportIs
    <2>5. ASSUME NEW n \in 1 .. 2
          PROVE  /\ S = UNION {page.items : page \in Pages(n)}
                 /\ \A page \in Pages(n) :
                       page.total = overall.total /\ Cardinality(page.items) <= n
      <3>1. \A i : /\ Detail(c, f, n, n * i).items = Page(S, n, n * i)
                   /\ Detail(c, f, n, n * i).total = Cardinality(S)
        BY <1>2 DEF Detail
      <3>2. /\ S = UNION {Page(S, n, n * i) : i \in 0 .. Cardinality(S)}
            /\ \A i \in 0 .. Cardinality(S) : Cardinality(Page(S, n, n * i)) <= n
        BY PagesAre
      <3> HIDE DEF S, overall
      <3>3. {page.items : page \in Pages(n)} = {Page(S, n, n * i) : i \in 0 .. Cardinality(S)}
        BY <3>1
      <3>4. \A page \in Pages(n) :
                page.total = overall.total /\ Cardinality(page.items) <= n
        BY <2>2, <3>1, <3>2
      <3>5. QED  BY <3>2, <3>3, <3>4
    <2>6. ASSUME f.student = None, f.status = None, f.from # None, f.to # None
          PROVE  S = UNION {Daily(c, d) : d \in f.from .. f.to}
      BY <2>6, DailyIs
    <2>7. ASSUME f.student # None, profile[f.student].active
          PROVE  /\ SelfDetail(f.student, c, f, 2, 0) = Detail(c, f, 2, 0)
                 /\ f.status = None /\ S # {} =>
                       SelfStats(f.student, c, f.from, f.to).own = students[f.student]
      BY <1>2, <2>7, OwnIs
    <2> HIDE DEF S, overall, students, rooms, Sums, Pages
    <2>8. /\ AddUp(Sums(students), overall) /\ AddUp(Sums(rooms), overall)
          /\ Cardinality(Export(c, f)) = overall.total
          /\ \A n \in 1 .. 2 :
                /\ S = UNION {page.items : page \in Pages(n)}
                /\ \A page \in Pages(n) :
                      page.total = overall.total /\ Cardinality(page.items) <= n
          /\ f.student = None /\ f.status = None /\ f.from # None /\ f.to # None =>
                S = UNION {Daily(c, d) : d \in f.from .. f.to}
          /\ f.student # None /\ profile[f.student].active =>
                /\ SelfDetail(f.student, c, f, 2, 0) = Detail(c, f, 2, 0)
                /\ f.status = None /\ S # {} =>
                      SelfStats(f.student, c, f.from, f.to).own = students[f.student]
      BY <2>3, <2>4, <2>5, <2>6, <2>7
    <2>9. QED  BY <1>2, <2>8 DEF S, overall, students, rooms, Sums, Pages
  <1>3. QED  BY <1>1, <1>2

\* The register of a "register" input is the one the state shows.
LEMMA RegisterIs == DecisionsSpec => [](input.kind = "register" => Register)
  <1> DEFINE Shown == /\ input \in Inputs
                      /\ input.kind = "register" => rows = input.rows /\ profile = input.profile
  <1>1. DecisionsInit => Shown
    BY DEF DecisionsInit
  <1>2. Shown /\ [DecisionsNext]_<<input, rows, profile>> => Shown'
    BY DEF DecisionsNext
  <1>3. Shown => (input.kind = "register" => Register)
    BY InputsAssumption DEF RegisterInputs, Register
  <1> HIDE DEF Shown
  <1>4. QED  BY <1>1, <1>2, <1>3, PTL DEF DecisionsSpec

\* For any register and any filter: groups add up to the whole, pages show every
\* row once, and daily sheets, exports and a student's own view show the same rows.
THEOREM StatisticsAlwaysAgree == DecisionsSpec => []StatisticsAgree
  <1>1. (input.kind = "register" => Register) => StatisticsAgree
    BY ViewsAgreeHolds DEF StatisticsAgree
  <1>2. QED  BY <1>1, RegisterIs, PTL
(***************************************************************************)
(* The reports of one period.                                              *)
(***************************************************************************)
LEMMA RosterIs ==
    ASSUME Register, NEW c
    PROVE  /\ Roster(c) \in SUBSET Students /\ IsFiniteSet(Roster(c))
           /\ Cardinality(Roster(c)) \in Nat
           /\ \A s \in Roster(c) : s \in Nat /\ s # None
  <1>1. Roster(c) \in SUBSET Students
    BY DEF Roster
  <1>2. QED  BY <1>1, RegisterAssumption, FS_Subset, FS_CardinalityType

LEMMA WithinIs ==
    ASSUME Register, NEW c \in Rooms, NEW from \in Dates, NEW to \in Dates
    PROVE  /\ Within(c, from, to) \in SUBSET RegisterRows /\ IsFiniteSet(Within(c, from, to))
           /\ \A q, r \in Within(c, from, to) : q.student = r.student /\ q.date = r.date => q = r
  <1>1. Within(c, from, to) \in SUBSET rows /\ \A r \in Within(c, from, to) : r.classroom = c
    BY DEF Within
  <1>2. QED  BY <1>1, FS_Subset DEF Register, OneRowPerDay

LEMMA ByRollOrders ==
    ASSUME Register
    PROVE  /\ \A s \in Students : ~ByRoll(s, s)
           /\ \A s, t, u \in Students : ByRoll(s, t) /\ ByRoll(t, u) => ByRoll(s, u)
           /\ \A s, t \in Students : s = t \/ ByRoll(s, t) \/ ByRoll(t, s)
  <1>1. \A s \in Students : s \in Nat /\ profile[s].roll \in Nat
    BY RegisterAssumption DEF Register, RegisterProfiles
  <1>2. \A s \in Students : ~ByRoll(s, s)
    BY <1>1 DEF ByRoll
  <1>3. \A s, t, u \in Students : ByRoll(s, t) /\ ByRoll(t, u) => ByRoll(s, u)
    BY <1>1 DEF ByRoll
  <1>4. \A s, t \in Students : s = t \/ ByRoll(s, t) \/ ByRoll(t, s)
    BY <1>1 DEF ByRoll
  <1>5. QED  BY <1>2, <1>3, <1>4

\* A report that is small enough is not cut off.
LEMMA DetailsAre ==
    ASSUME Register, NEW c \in Rooms, NEW from \in Dates, NEW to \in Dates, NEW limit \in Nat,
           Cardinality(ReportRows(c, from, to, None)) <= limit
    PROVE  Details(c, from, to, None, limit + 1) = ReportRows(c, from, to, None)
  <1> DEFINE S == ReportRows(c, from, to, None)
             Before(q, r) ==
                 q.date < r.date \/ (q.date = r.date /\ ByRoll(q.student, r.student))
             R == {p \in S \X S : Before(p[1], p[2])}
  <1>1. S \in SUBSET Within(c, from, to)
    BY DEF ReportRows
  <1>2. IsFiniteSet(S)
    BY <1>1, WithinIs, FS_Subset
  <1>3. \A q, r \in S : <<q, r>> \in R <=> Before(q, r)
    <2> HIDE DEF Before
    <2>1. QED  OBVIOUS
  <1>4. \A r \in S : Ahead(R, S, r) = {q \in S : Before(q, r)}
    <2> HIDE DEF R, Before
    <2>1. QED  BY <1>3 DEF Ahead
  <1>5. Orders(R, S)
    <2>1. \A r \in S : r.student \in Students /\ r.date \in Nat
      BY <1>1, WithinIs, RowIs
    <2>2. \A q, r \in S : q.student = r.student /\ q.date = r.date => q = r
      BY <1>1, WithinIs
    <2> HIDE DEF S, R
    <2>3. \A r \in S : ~Before(r, r)
      BY <2>1, ByRollOrders
    <2>4. \A q, r, u \in S : Before(q, r) /\ Before(r, u) => Before(q, u)
      BY <2>1, ByRollOrders
    <2>5. \A q, r \in S : q = r \/ Before(q, r) \/ Before(r, q)
      BY <2>1, <2>2, ByRollOrders
    <2> HIDE DEF Before
    <2>6. QED  BY <1>3, <2>3, <2>4, <2>5 DEF Orders
  <1>6. Details(c, from, to, None, limit + 1)
            = {r \in S : Cardinality({q \in S : Before(q, r)}) < limit + 1}
    BY DEF Details
  <1> HIDE DEF S, R, Before
  <1>7. \A r \in S : Cardinality(Ahead(R, S, r)) \in 0 .. Cardinality(S) - 1
    BY <1>2, <1>5, RankIs
  <1>8. Cardinality(S) \in Nat /\ Cardinality(S) <= limit
    BY <1>2, FS_CardinalityType DEF S
  <1>9. \A r \in S : Cardinality({q \in S : Before(q, r)}) < limit + 1
    <2>1. \A r \in S : Cardinality(Ahead(R, S, r)) < limit + 1
      BY <1>7, <1>8
    <2>2. QED  BY <1>4, <2>1
  <1>10. QED  BY <1>6, <1>9 DEF S

\* The leaderboard's rows are the report, student by student.
LEMMA RosterCountsAddUp ==
    ASSUME Register, NEW c \in Rooms, NEW from \in Dates, NEW to \in Dates
    PROVE  /\ AddUp(RosterCounts(c, from, to), Counts(ReportRows(c, from, to, None)))
           /\ \A s \in Roster(c) :
                 Counts(ReportRows(c, from, to, s)) = RosterCounts(c, from, to)[s]
  <1> DEFINE S == ReportRows(c, from, to, None)
             groups == RosterCounts(c, from, to)
             of == [r \in S |-> r.student]
  <1>1. S = {r \in Within(c, from, to) : r.student \in Roster(c)}
    BY DEF ReportRows
  <1>2. IsFiniteSet(S)
    <2>1. S \in SUBSET Within(c, from, to)
      BY <1>1
    <2>2. QED  BY <2>1, WithinIs, FS_Subset
  <1>3. DOMAIN groups = Roster(c) /\ IsFiniteSet(DOMAIN groups)
    <2>1. DOMAIN groups = Roster(c)
      BY DEF RosterCounts
    <2>2. QED  BY <2>1, RosterIs
  <1>4. \A s \in Roster(c) : groups[s] = Counts({r \in Within(c, from, to) : r.student = s})
    BY DEF RosterCounts
  <1>5. \A s \in Roster(c) :
            {r \in Within(c, from, to) : r.student = s} = {r \in S : of[r] = s}
    BY <1>1
  <1>6. of \in [S -> DOMAIN groups]
    BY <1>1, <1>3
  <1>7. ASSUME NEW s \in Roster(c)
        PROVE  Counts(ReportRows(c, from, to, s)) = groups[s]
    <2>1. s # None
      BY RosterIs
    <2>2. ReportRows(c, from, to, s) = {r \in Within(c, from, to) : r.student = s}
      BY <2>1 DEF ReportRows
    <2>3. QED  BY <1>4, <2>2
  <1> HIDE DEF S, groups, of
  <1>8. \A s \in DOMAIN groups : groups[s] = Counts({r \in S : of[r] = s})
    BY <1>3, <1>4, <1>5
  <1>9. AddUp(groups, Counts(S))
    BY <1>2, <1>3, <1>6, <1>8, CountsAddUp
  <1>10. QED  BY <1>7, <1>9 DEF S, groups

LEMMA RowsOfThePeriod ==
    ASSUME Register, NEW c \in Rooms, NEW from \in Dates, NEW to \in Dates
    PROVE  Cardinality(Within(c, from, to))
              = Cardinality(ReportRows(c, from, to, None))
                  + Cardinality({r \in Within(c, from, to) : r.student \notin Roster(c)})
  <1> DEFINE W == Within(c, from, to)
             S == ReportRows(c, from, to, None)
             left == {r \in W : r.student \notin Roster(c)}
  <1>1. S = {r \in W : r.student \in Roster(c)}
    BY DEF ReportRows
  <1>2. W = S \cup left /\ S \cap left = {} /\ S \in SUBSET W /\ left \in SUBSET W
    BY <1>1
  <1>3. IsFiniteSet(W)
    BY WithinIs
  <1> HIDE DEF W, S, left
  <1>4. /\ IsFiniteSet(S) /\ IsFiniteSet(left)
        /\ Cardinality(S) \in Nat /\ Cardinality(left) \in Nat
    BY <1>2, <1>3, FS_Subset, FS_CardinalityType
  <1>5. Cardinality(W) = Cardinality(S) + Cardinality(left) - Cardinality(S \cap left)
    BY <1>2, <1>4, FS_Union
  <1>6. Cardinality(S \cap left) = 0
    BY <1>2, FS_EmptySet
  <1>7. Cardinality(W) = Cardinality(S) + Cardinality(left)
    BY <1>4, <1>5, <1>6
  <1>8. QED  BY <1>7 DEF W, S, left
LEMMA NumberingIs ==
    ASSUME NEW S, IsFiniteSet(S), NEW R, Orders(R, S)
    PROVE  {1 + Cardinality(Ahead(R, S, x)) : x \in S} = 1 .. Cardinality(S)
  <1> DEFINE n == Cardinality(S)
             rank(x) == Cardinality(Ahead(R, S, x))
  <1>1. /\ n \in Nat /\ \A x \in S : rank(x) \in 0 .. n - 1
        /\ \A k \in 0 .. n - 1 : \E x \in S : rank(x) = k
    BY RankIs
  <1> HIDE DEF n, rank
  <1>2. \A x \in S : 1 + rank(x) \in 1 .. n
    BY <1>1
  <1>3. ASSUME NEW k \in 1 .. n PROVE \E x \in S : 1 + rank(x) = k
    <2>1. k - 1 \in 0 .. n - 1
      BY <1>1
    <2>2. PICK x \in S : rank(x) = k - 1
      BY <1>1, <2>1
    <2>3. 1 + rank(x) = k
      BY <2>2
    <2>4. QED  BY <2>3
  <1>4. {1 + rank(x) : x \in S} = 1 .. n
    BY <1>2, <1>3
  <1>5. QED  BY <1>4 DEF n, rank

\* Those behind all the others have the last numbers.
LEMMA LastOnesAre ==
    ASSUME NEW S, IsFiniteSet(S), NEW R, Orders(R, S), NEW T \in SUBSET S,
           \A x \in S \ T, y \in T : <<x, y>> \in R
    PROVE  {1 + Cardinality(Ahead(R, S, y)) : y \in T}
              = Cardinality(S) - Cardinality(T) + 1 .. Cardinality(S)
  <1> DEFINE n == Cardinality(S)
             m == Cardinality(S \ T)
             rank(x) == Cardinality(Ahead(R, S, x))
  <1>1. /\ n \in Nat /\ \A x \in S : rank(x) \in 0 .. n - 1
        /\ \A k \in 0 .. n - 1 : \E x \in S : rank(x) = k
    BY RankIs
  <1>2. IsFiniteSet(S \ T) /\ m = n - Cardinality(T) /\ m \in Nat /\ Cardinality(T) \in Nat
    <2>1. S \cap T = T
      OBVIOUS
    <2>2. IsFiniteSet(S \ T) /\ IsFiniteSet(T) /\ m = n - Cardinality(S \cap T)
      BY FS_Difference, FS_Subset
    <2> HIDE DEF n, m
    <2>3. Cardinality(T) \in Nat /\ m \in Nat
      BY <2>2, FS_CardinalityType DEF m
    <2>4. QED  BY <2>1, <2>2, <2>3
  <1>3. ASSUME NEW y \in T PROVE rank(y) >= m
    <2>1. S \ T \in SUBSET Ahead(R, S, y)
      BY DEF Ahead
    <2>2. Ahead(R, S, y) \in SUBSET S
      BY DEF Ahead
    <2>3. IsFiniteSet(Ahead(R, S, y))
      BY <2>2, FS_Subset
    <2>4. QED  BY <2>1, <2>3, FS_Subset
  <1>4. ASSUME NEW x \in S \ T PROVE rank(x) <= m - 1
    <2>1. Ahead(R, S, x) \in SUBSET ((S \ T) \ {x})
      BY DEF Ahead, Orders
    <2>2. IsFiniteSet((S \ T) \ {x}) /\ Cardinality((S \ T) \ {x}) = m - 1
      BY <1>2, FS_RemoveElement
    <2>3. QED  BY <2>1, <2>2, FS_Subset
  <1>5. n - Cardinality(T) = m
    BY <1>2
  <1> HIDE DEF n, m, rank
  <1>6. \A y \in T : 1 + rank(y) \in m + 1 .. n
    BY <1>1, <1>2, <1>3
  <1>7. ASSUME NEW k \in m + 1 .. n PROVE \E y \in T : 1 + rank(y) = k
    <2>1. k - 1 \in 0 .. n - 1 /\ k - 1 >= m
      BY <1>1, <1>2
    <2>2. PICK x \in S : rank(x) = k - 1
      BY <1>1, <2>1
    <2>3. x \in T
      BY <1>1, <1>2, <1>4, <2>1, <2>2
    <2>4. 1 + rank(x) = k
      BY <2>2
    <2>5. QED  BY <2>3, <2>4
  <1>8. {1 + rank(y) : y \in T} = m + 1 .. n
    BY <1>6, <1>7
  <1>9. QED  BY <1>5, <1>8 DEF n, rank

LEMMA PercentageIs ==
    ASSUME Register, NEW c \in Rooms, NEW from \in Dates, NEW to \in Dates, NEW s \in Roster(c)
    PROVE  Percentage(RosterCounts(c, from, to)[s]) \in Int
  <1> DEFINE S == {r \in Within(c, from, to) : r.student = s}
             a == Counts(S).total
             b == Counts(S).present
  <1>1. RosterCounts(c, from, to)[s] = Counts(S)
    BY DEF RosterCounts
  <1>2. IsFiniteSet(S)
    <2>1. S \in SUBSET Within(c, from, to)
      OBVIOUS
    <2>2. QED  BY <2>1, WithinIs, FS_Subset
  <1>3. a \in Nat /\ b \in Nat
    <2> HIDE DEF S
    <2>1. a = Cardinality(S) /\ b = Cardinality({r \in S : r.status = "present"})
      BY DEF Counts
    <2>2. IsFiniteSet({r \in S : r.status = "present"})
      BY <1>2, FS_Subset
    <2>3. QED  BY <1>2, <2>1, <2>2, FS_CardinalityType
  <1>4. Percentage(Counts(S))
            = IF a = 0 THEN 0
              ELSE LET q == (10000 * b) \div a
                       r == 2 * ((10000 * b) % a)
                   IN  IF r > a \/ (r = a /\ q % 2 = 1) THEN q + 1 ELSE q
    BY DEF Percentage
  <1> HIDE DEF a, b, S
  <1>5. a # 0 => (10000 * b) \div a \in Int
    BY <1>3
  <1>6. QED  BY <1>1, <1>4, <1>5

\* The leaderboard's order and the order of the defaulters.
LEMMA ResultsOrder ==
    ASSUME Register, NEW c \in Rooms, NEW from \in Dates, NEW to \in Dates
    PROVE  LET P(s)     == Percentage(RosterCounts(c, from, to)[s])
               Best     == {p \in Roster(c) \X Roster(c) :
                               \/ P(p[1]) > P(p[2])
                               \/ P(p[1]) = P(p[2]) /\ ByRoll(p[1], p[2])}
               Worst    == {p \in Roster(c) \X Roster(c) :
                               \/ P(p[1]) < P(p[2])
                               \/ P(p[1]) = P(p[2]) /\ ByRoll(p[1], p[2])}
           IN  Orders(Best, Roster(c)) /\ \A T \in SUBSET Roster(c) : Orders(Worst, T)
  <1> DEFINE P(s)     == Percentage(RosterCounts(c, from, to)[s])
             S        == Roster(c)
             More(s, t) == P(s) > P(t) \/ (P(s) = P(t) /\ ByRoll(s, t))
             Less(s, t) == P(s) < P(t) \/ (P(s) = P(t) /\ ByRoll(s, t))
             Best     == {p \in S \X S : More(p[1], p[2])}
             Worst    == {p \in S \X S : Less(p[1], p[2])}
  <1>1. \A s \in S : P(s) \in Int /\ s \in Students
    BY PercentageIs, RosterIs
  <1>2. /\ \A s \in S : ~ByRoll(s, s)
        /\ \A s, t, u \in S : ByRoll(s, t) /\ ByRoll(t, u) => ByRoll(s, u)
        /\ \A s, t \in S : s = t \/ ByRoll(s, t) \/ ByRoll(t, s)
    BY <1>1, ByRollOrders
  <1> HIDE DEF P, S
  <1>3. /\ \A s \in S : ~More(s, s)
        /\ \A s, t, u \in S : More(s, t) /\ More(t, u) => More(s, u)
        /\ \A s, t \in S : s = t \/ More(s, t) \/ More(t, s)
    BY <1>1, <1>2
  <1>4. /\ \A s \in S : ~Less(s, s)
        /\ \A s, t, u \in S : Less(s, t) /\ Less(t, u) => Less(s, u)
        /\ \A s, t \in S : s = t \/ Less(s, t) \/ Less(t, s)
    BY <1>1, <1>2
  <1>5. /\ \A s, t \in S : <<s, t>> \in Best <=> More(s, t)
        /\ \A s, t \in S : <<s, t>> \in Worst <=> Less(s, t)
    <2> HIDE DEF More, Less
    <2>1. QED  OBVIOUS
  <1> HIDE DEF More, Less, Best, Worst
  <1>6. Orders(Best, S)
    BY <1>3, <1>5 DEF Orders
  <1>7. \A T \in SUBSET S : Orders(Worst, T)
    BY <1>4, <1>5 DEF Orders
  <1>8. QED  BY <1>6, <1>7 DEF Best, Worst, More, Less, S, P
LEMMA BoardIs ==
    ASSUME Register, NEW c \in Rooms, NEW from \in Dates, NEW to \in Dates,
           Leaderboard(c, from, to).code = "ok", NEW threshold \in Int
    PROVE  LET rank  == Leaderboard(c, from, to).rank
               place == Defaulters(c, from, to, threshold).place
               n     == Cardinality(Roster(c))
               m     == Cardinality(DOMAIN place)
           IN  /\ Leaderboard(c, from, to).counts = RosterCounts(c, from, to)
               /\ {rank[s] : s \in Roster(c)} = 1 .. n
               /\ {place[s] : s \in DOMAIN place} = 1 .. m
               /\ {rank[s] : s \in DOMAIN place} = n - m + 1 .. n
  <1> DEFINE P(s)     == Percentage(RosterCounts(c, from, to)[s])
             S        == Roster(c)
             More(s, t) == P(s) > P(t) \/ (P(s) = P(t) /\ ByRoll(s, t))
             Less(s, t) == P(s) < P(t) \/ (P(s) = P(t) /\ ByRoll(s, t))
             Best     == {p \in S \X S : P(p[1]) > P(p[2]) \/ (P(p[1]) = P(p[2]) /\ ByRoll(p[1], p[2]))}
             Worst    == {p \in S \X S : P(p[1]) < P(p[2]) \/ (P(p[1]) = P(p[2]) /\ ByRoll(p[1], p[2]))}
             T        == {s \in S : P(s) < threshold}
             rank     == Leaderboard(c, from, to).rank
             place    == Defaulters(c, from, to, threshold).place
  <1>1. Orders(Best, S) /\ Orders(Worst, T) /\ IsFiniteSet(S)
    <2>1. T \in SUBSET S
      OBVIOUS
    <2>2. QED  BY <2>1, ResultsOrder, RosterIs
  <1>2. \A s \in S : P(s) \in Int
    BY PercentageIs
  <1>3. Cardinality(S) <= MaxReportStudents
    <2>1. ASSUME Cardinality(S) > MaxReportStudents PROVE FALSE
      <3>1. Leaderboard(c, from, to).code = "too_large"
        BY <2>1 DEF Leaderboard
      <3>2. QED  BY <3>1
    <2>2. Cardinality(S) \in Nat /\ MaxReportStudents \in Nat
      BY <1>1, FS_CardinalityType, RegisterAssumption
    <2>3. QED  BY <2>1, <2>2
  <1>4. ~(Cardinality(S) > MaxReportStudents)
    <2>1. Cardinality(S) \in Nat /\ MaxReportStudents \in Nat
      BY <1>1, FS_CardinalityType, RegisterAssumption
    <2>2. QED  BY <1>3, <2>1
  <1>5. /\ Leaderboard(c, from, to).counts = RosterCounts(c, from, to)
        /\ rank = [s \in S |-> 1 + Cardinality({t \in S : More(t, s)})]
    BY <1>4 DEF Leaderboard
  <1>6. place = [s \in T |-> 1 + Cardinality({t \in T : Less(t, s)})]
    BY <1>4 DEF Defaulters
  <1>7. /\ \A s, t \in S : <<s, t>> \in Best <=> More(s, t)
        /\ \A s, t \in S : <<s, t>> \in Worst <=> Less(s, t)
    <2> HIDE DEF P
    <2>1. QED  OBVIOUS
  <1>8. T \in SUBSET S /\ \A s \in S \ T, t \in T : More(s, t)
    BY <1>2
  <1> HIDE DEF S, More, Less, Best, Worst, T, rank, place, P
  <1>9. \A s \in S : rank[s] = 1 + Cardinality(Ahead(Best, S, s))
    <2>1. \A s \in S : {t \in S : More(t, s)} = Ahead(Best, S, s)
      BY <1>7 DEF Ahead
    <2>2. QED  BY <1>5, <2>1
  <1>10. DOMAIN place = T /\ \A s \in T : place[s] = 1 + Cardinality(Ahead(Worst, T, s))
    <2>1. \A s \in T : {t \in T : Less(t, s)} = Ahead(Worst, T, s)
      BY <1>7, <1>8 DEF Ahead
    <2>2. QED  BY <1>6, <2>1
  <1>11. {rank[s] : s \in S} = 1 .. Cardinality(S)
    <2>1. {rank[s] : s \in S} = {1 + Cardinality(Ahead(Best, S, s)) : s \in S}
      BY <1>9
    <2>2. QED  BY <1>1, <2>1, NumberingIs
  <1>12. {place[s] : s \in T} = 1 .. Cardinality(T)
    <2>1. {place[s] : s \in T} = {1 + Cardinality(Ahead(Worst, T, s)) : s \in T}
      BY <1>10
    <2>2. IsFiniteSet(T)
      BY <1>1, <1>8, FS_Subset
    <2>3. QED  BY <1>1, <2>1, <2>2, NumberingIs
  <1>13. {rank[s] : s \in T} = Cardinality(S) - Cardinality(T) + 1 .. Cardinality(S)
    <2>1. {rank[s] : s \in T} = {1 + Cardinality(Ahead(Best, S, s)) : s \in T}
      BY <1>8, <1>9
    <2>2. \A s \in S \ T, t \in T : <<s, t>> \in Best
      BY <1>7, <1>8
    <2>3. QED  BY <1>1, <1>8, <2>1, <2>2, LastOnesAre
  <1>14. QED  BY <1>5, <1>10, <1>11, <1>12, <1>13 DEF S, rank, place

LEMMA PeriodReportsAgreeHolds ==
    ASSUME Register
    PROVE  PeriodReportsAgree
  <1> SUFFICES ASSUME NEW c \in Rooms, NEW from \in Dates, NEW to \in Dates
               PROVE  PeriodAgrees(c, from, to)
    BY DEF PeriodReportsAgree
  <1> SUFFICES ASSUME Leaderboard(c, from, to).code = "ok"
               PROVE  PeriodAgrees(c, from, to)
    BY DEF PeriodAgrees
  <1> DEFINE board  == Leaderboard(c, from, to)
             report == AttendanceReport(c, from, to, None)
             left   == {r \in Within(c, from, to) : r.student \notin Roster(c)}
             S      == ReportRows(c, from, to, None)
  <1>1. board.counts = RosterCounts(c, from, to)
    <2>1. 0 \in Int
      OBVIOUS
    <2>2. QED  BY <2>1, BoardIs
  <1>2. ASSUME report.code = "ok"
        PROVE  /\ report.summary = Counts(report.details)
               /\ AddUp(board.counts, report.summary)
               /\ Counts(Within(c, from, to)).total = report.summary.total + Cardinality(left)
    <2>1. Cardinality(S) \in Nat /\ MaxReportRows \in Nat
      <3>1. S \in SUBSET Within(c, from, to)
        BY DEF ReportRows
      <3>2. QED  BY <3>1, WithinIs, FS_Subset, FS_CardinalityType, RegisterAssumption
    <2>2. Counts(S).total = Cardinality(S)
      BY DEF Counts
    <2>3. Cardinality(S) <= MaxReportRows
      <3>1. ASSUME Counts(S).total > MaxReportRows PROVE FALSE
        <4>1. report.code = "too_large"
          BY <3>1 DEF AttendanceReport
        <4>2. QED  BY <1>2, <4>1
      <3>2. QED  BY <2>1, <2>2, <3>1
    <2>4. report.summary = Counts(S) /\ report.details = Details(c, from, to, None, MaxReportRows + 1)
      BY <2>1, <2>2, <2>3 DEF AttendanceReport
    <2>5. report.details = S
      BY <2>1, <2>3, <2>4, DetailsAre
    <2>6. AddUp(board.counts, report.summary)
      BY <1>1, <2>4, RosterCountsAddUp
    <2>7. Counts(Within(c, from, to)).total = Cardinality(Within(c, from, to))
      BY DEF Counts
    <2>8. Counts(Within(c, from, to)).total = report.summary.total + Cardinality(left)
      BY <2>2, <2>4, <2>7, RowsOfThePeriod
    <2>9. QED  BY <2>4, <2>5, <2>6, <2>8
  <1>3. ASSUME NEW s \in Roster(c), AttendanceReport(c, from, to, s).code = "ok"
        PROVE  AttendanceReport(c, from, to, s).summary = board.counts[s]
    <2>1. s # None
      BY RosterIs
    <2>2. AttendanceReport(c, from, to, s).summary = Counts(ReportRows(c, from, to, s))
      <3>1. ASSUME Counts(ReportRows(c, from, to, s)).total > MaxReportRows PROVE FALSE
        <4>1. AttendanceReport(c, from, to, s).code = "too_large"
          BY <3>1 DEF AttendanceReport
        <4>2. QED  BY <1>3, <4>1
      <3>2. QED  BY <3>1 DEF AttendanceReport
    <2>3. QED  BY <1>1, <2>2, RosterCountsAddUp
  <1>4. {board.rank[s] : s \in Roster(c)} = 1 .. Cardinality(Roster(c))
    <2>1. 0 \in Int
      OBVIOUS
    <2>2. QED  BY <2>1, BoardIs
  <1>5. ASSUME NEW threshold \in {0, 5000, 7500, 10000}
        PROVE  LET place == Defaulters(c, from, to, threshold).place
               IN  /\ {place[s] : s \in DOMAIN place} = 1 .. Cardinality(DOMAIN place)
                   /\ {board.rank[s] : s \in DOMAIN place}
                         = Cardinality(Roster(c)) - Cardinality(DOMAIN place) + 1
                             .. Cardinality(Roster(c))
    <2>1. threshold \in Int
      OBVIOUS
    <2>2. QED  BY <2>1, BoardIs
  <1> HIDE DEF board, report, left
  <1>6. QED  BY <1>2, <1>3, <1>4, <1>5 DEF PeriodAgrees, board, report, left

\* For any register, period and limits: a report that is not refused counts its
\* details and the rows of the leaderboard, every rank is given once, and the
\* defaulters of any threshold are the end of the leaderboard.
THEOREM ReportsAlwaysAgree == DecisionsSpec => []ReportsAgree
  <1>1. (input.kind = "register" => Register) => ReportsAgree
    BY PeriodReportsAgreeHolds DEF ReportsAgree
  <1>2. QED  BY <1>1, RegisterIs, PTL
(***************************************************************************)
(* Bulk imports.                                                           *)
(***************************************************************************)
LEMMA EveryIndex ==
    ASSUME NEW n \in Nat, NEW T \in SUBSET (0 .. n),
           0 \in T, \A i \in 1 .. n : i - 1 \in T => i \in T
    PROVE  \A i \in 0 .. n : i \in T
  <1> DEFINE g == [i \in 0 .. n |-> i]
  <1>1. \A i \in 1 .. n : i \in 0 .. n /\ i - 1 \in 0 .. n /\ g[i] = i /\ g[i - 1] = i - 1
    OBVIOUS
  <1>2. g[0] \in T
    OBVIOUS
  <1> HIDE DEF g
  <1>3. \A i \in 0 .. n : g[i] \in T
    BY <1>1, <1>2, StepsStayIn
  <1>4. QED  BY <1>3 DEF g

\* The row numbers are read in their order, each once.
LEMMA NthIs ==
    ASSUME NEW S \in SUBSET Nat, IsFiniteSet(S)
    PROVE  /\ Cardinality(S) \in Nat
           /\ \A k \in 1 .. Cardinality(S) : Nth(S, k) \in S
           /\ \A j, k \in 1 .. Cardinality(S) : Nth(S, j) = Nth(S, k) => j = k
  <1> DEFINE R == {p \in S \X S : p[1] < p[2]}
             before(i) == {j \in S : j < i}
  <1>1. \A i, j \in S : <<i, j>> \in R <=> i < j
    OBVIOUS
  <1>2. \A i \in S : Ahead(R, S, i) = before(i)
    BY <1>1 DEF Ahead
  <1> HIDE DEF R
  <1>3. Orders(R, S)
    BY <1>1 DEF Orders
  <1>4. /\ Cardinality(S) \in Nat
        /\ \A k \in 0 .. Cardinality(S) - 1 : \E i \in S : Cardinality(Ahead(R, S, i)) = k
    BY <1>3, RankIs
  <1>5. ASSUME NEW k \in 1 .. Cardinality(S)
        PROVE  Nth(S, k) \in S /\ Cardinality(before(Nth(S, k))) = k - 1
    <2>1. k - 1 \in 0 .. Cardinality(S) - 1
      BY <1>4
    <2>2. PICK i \in S : Cardinality(Ahead(R, S, i)) = k - 1
      BY <1>4, <2>1
    <2>3. Cardinality({j \in S : j < i}) = k - 1
      BY <1>2, <2>2
    <2>4. QED  BY <2>3 DEF Nth
  <1>6. ASSUME NEW j \in 1 .. Cardinality(S), NEW k \in 1 .. Cardinality(S), Nth(S, j) = Nth(S, k)
        PROVE  j = k
    <2>1. j - 1 = k - 1
      BY <1>5, <1>6
    <2>2. QED  BY <2>1
  <1>7. QED  BY <1>4, <1>5, <1>6

Contents(entries) == {entries[k][2] : k \in DOMAIN entries}

\* A file that parses has numbered rows, each with a number of its own.
LEMMA ParseIs ==
    ASSUME NEW file, file.rows \in Seq(Seq(STRING)), Parse(file).code = "ok"
    PROVE  LET entries == Parse(file).rows
               n       == Len(entries)
           IN  /\ n \in Nat
               /\ entries \in [1 .. n -> (DOMAIN file.rows) \X Contents(entries)]
               /\ \A j, k \in 1 .. n : entries[j][1] = entries[k][1] => j = k
  <1> DEFINE parsed == [i \in DOMAIN file.rows |-> Parsed(file, file.rows[i])]
             filled == {i \in DOMAIN parsed : DOMAIN parsed[i] # {}}
             n == Cardinality(filled)
             entries == [k \in 1 .. n |-> <<Nth(filled, k), parsed[Nth(filled, k)]>>]
  <1>1. Parse(file).rows = entries
    BY DEF Parse
  <1>2. filled \in SUBSET DOMAIN file.rows /\ filled \in SUBSET Nat /\ IsFiniteSet(filled)
    <2>1. filled \in SUBSET DOMAIN file.rows
      OBVIOUS
    <2> HIDE DEF filled
    <2>2. DOMAIN file.rows = 1 .. Len(file.rows) /\ Len(file.rows) \in Nat
      OBVIOUS
    <2>3. IsFiniteSet(DOMAIN file.rows)
      BY <2>2, FS_Interval
    <2>4. QED  BY <2>1, <2>2, <2>3, FS_Subset
  <1> HIDE DEF filled, parsed
  <1>3. n \in Nat /\ \A k \in 1 .. n : Nth(filled, k) \in filled
    BY <1>2, NthIs
  <1>4. \A j, k \in 1 .. n : Nth(filled, j) = Nth(filled, k) => j = k
    BY <1>2, NthIs
  <1> HIDE DEF n
  <1>5. \A k \in 1 .. n : entries[k] = <<Nth(filled, k), parsed[Nth(filled, k)]>>
    OBVIOUS
  <1>6. DOMAIN entries = 1 .. n /\ Len(entries) = n
    <2>1. entries \in Seq({entries[k] : k \in 1 .. n})
      BY <1>3
    <2>2. QED  BY <1>3, <2>1
  <1>7. entries = [k \in 1 .. n |-> entries[k]]
    OBVIOUS
  <1> HIDE DEF entries
  <1>8. \A k \in 1 .. n : entries[k] \in (DOMAIN file.rows) \X Contents(entries)
    <2>1. \A k \in 1 .. n : entries[k][2] \in Contents(entries)
      BY <1>6 DEF Contents
    <2>2. \A k \in 1 .. n : Nth(filled, k) \in DOMAIN file.rows
      BY <1>2, <1>3
    <2>3. \A k \in 1 .. n : parsed[Nth(filled, k)] \in Contents(entries)
      BY <1>5, <2>1
    <2>4. ASSUME NEW k \in 1 .. n PROVE entries[k] \in (DOMAIN file.rows) \X Contents(entries)
      <3> DEFINE i == Nth(filled, k)
                 D == DOMAIN file.rows
                 C == Contents(entries)
      <3>1. i \in D /\ parsed[i] \in C /\ entries[k] = <<i, parsed[i]>>
        BY <1>5, <2>2, <2>3
      <3> HIDE DEF i, D, C
      <3>2. entries[k] \in D \X C
        BY <3>1
      <3>3. QED  BY <3>2 DEF D, C
    <2>5. QED  BY <2>4
  <1>9. entries \in [1 .. n -> (DOMAIN file.rows) \X Contents(entries)]
    BY <1>7, <1>8
  <1>10. \A j, k \in 1 .. n : entries[j][1] = entries[k][1] => j = k
    BY <1>4, <1>5
  <1>11. QED  BY <1>1, <1>3, <1>6, <1>9, <1>10

Results(X, Y) == [table : Seq(X), imported : SUBSET Y, failed : Seq(Y)]

Accepts(table, row) ==
    /\ DOMAIN row \subseteq Columns /\ Valid(row)
    /\ \A i \in DOMAIN table : ~Conflicts(row, table[i])

LEMMA CreateRowIs ==
    ASSUME NEW X, NEW Y, NEW result \in Results(X, Y), NEW entry \in Y \X X
    PROVE  LET next == CreateRow(result, entry)
           IN  /\ next \in Results(X, Y)
               /\ Accepts(result.table, entry[2]) =>
                     /\ next.table = Append(result.table, entry[2])
                     /\ next.imported = result.imported \cup {entry[1]}
                     /\ next.failed = result.failed
               /\ ~Accepts(result.table, entry[2]) =>
                     /\ next.table = result.table /\ next.imported = result.imported
                     /\ next.failed = Append(result.failed, entry[1])
  <1> DEFINE next == CreateRow(result, entry)
  <1>1. entry[1] \in Y /\ entry[2] \in X
    OBVIOUS
  <1>2. /\ result.table \in Seq(X) /\ result.imported \in SUBSET Y /\ result.failed \in Seq(Y)
        /\ result = [table |-> result.table, imported |-> result.imported,
                     failed |-> result.failed]
    BY DEF Results
  <1>3. CASE Accepts(result.table, entry[2])
    <2>1. next = [result EXCEPT !.table = Append(@, entry[2]), !.imported = @ \cup {entry[1]}]
      BY <1>3 DEF CreateRow, Accepts
    <2>2. next = [table |-> Append(result.table, entry[2]),
                  imported |-> result.imported \cup {entry[1]}, failed |-> result.failed]
      BY <1>2, <2>1
    <2>3. Append(result.table, entry[2]) \in Seq(X) /\ result.imported \cup {entry[1]} \in SUBSET Y
      BY <1>1, <1>2
    <2> HIDE DEF next
    <2>4. next \in Results(X, Y)
      BY <1>2, <2>2, <2>3 DEF Results
    <2>5. QED  BY <1>3, <2>2, <2>4 DEF next
  <1>4. CASE ~Accepts(result.table, entry[2])
    <2>1. next = [result EXCEPT !.failed = Append(@, entry[1])]
      BY <1>4 DEF CreateRow, Accepts
    <2>2. next = [table |-> result.table, imported |-> result.imported,
                  failed |-> Append(result.failed, entry[1])]
      BY <1>2, <2>1
    <2>3. Append(result.failed, entry[1]) \in Seq(Y)
      BY <1>1, <1>2
    <2> HIDE DEF next
    <2>4. next \in Results(X, Y)
      BY <1>2, <2>2, <2>3 DEF Results
    <2>5. QED  BY <1>4, <2>2, <2>4 DEF next
  <1>5. QED  BY <1>3, <1>4

\* g lists what an import has done after each of its first n entries.
Runs(g, X, Y, table, n, entries) ==
    /\ g \in [0 .. n -> Results(X, Y)]
    /\ g[0] = [table |-> table, imported |-> {}, failed |-> <<>>]
    /\ \A k \in 1 .. n : g[k] = CreateRow(g[k - 1], entries[k])

\* The parsed rows of a file, each with its own number.
Entries(entries, n, X, Y) ==
    /\ n \in Nat /\ entries \in [1 .. n -> Y \X X]
    /\ \A j, k \in 1 .. n : entries[j][1] = entries[k][1] => j = k

IsTable(table, X) == table \in Seq(X)

Numbers(entries, k) == {entries[j][1] : j \in 1 .. k}

\* The recursion of Import has a value, and its prefixes are the shorter imports.
LEMMA ImportRuns ==
    ASSUME NEW X, NEW Y, NEW table, IsTable(table, X), NEW n, NEW entries, Entries(entries, n, X, Y)
    PROVE  \E g : /\ Runs(g, X, Y, table, n, entries)
                 /\ \A m \in 0 .. n : Import(table, entries, m) = g[m]
  <1> DEFINE V == Results(X, Y)
             base == [table |-> table, imported |-> {}, failed |-> <<>>]
             F == [k \in 1 .. n |-> [v \in V |-> CreateRow(v, entries[k])]]
  <1>t. table \in Seq(X) /\ n \in Nat /\ entries \in [1 .. n -> Y \X X]
    BY DEF IsTable, Entries
  <1> USE <1>t
  <1>1. base \in V
    BY DEF Results
  <1>2. F \in [1 .. n -> [V -> V]]
    <2>1. \A k \in 1 .. n, v \in V : CreateRow(v, entries[k]) \in V
      BY CreateRowIs
    <2>2. QED  BY <2>1
  <1>3. \A k \in 1 .. n, v \in V : F[k][v] = CreateRow(v, entries[k])
    OBVIOUS
  <1> HIDE DEF V, F, base
  <1>4. PICK g : Solves(g, n, V, base, F)
    BY <1>1, <1>2, RecursionExists
  <1>5. /\ g \in [0 .. n -> V] /\ g[0] = base
        /\ \A k \in 1 .. n : k - 1 \in 0 .. n /\ g[k] = CreateRow(g[k - 1], entries[k])
    <2>1. /\ g \in [0 .. n -> V]
          /\ \A i \in 0 .. n : g[i] = IF i = 0 THEN base ELSE F[i][g[i - 1]]
      BY <1>4 DEF Solves
    <2>2. \A k \in 1 .. n : k \in 0 .. n /\ k - 1 \in 0 .. n /\ k # 0
      OBVIOUS
    <2>3. 0 \in 0 .. n
      OBVIOUS
    <2>4. \A k \in 1 .. n : g[k] = F[k][g[k - 1]] /\ g[k - 1] \in V
      BY <2>1, <2>2
    <2>5. QED  BY <1>3, <2>1, <2>2, <2>3, <2>4
  <1>6. ASSUME NEW m \in 0 .. n PROVE Import(table, entries, m) = g[m]
    <2> DEFINE Step(h) == [k \in 0 .. m |-> IF k = 0 THEN base ELSE CreateRow(h[k - 1], entries[k])]
               result == CHOOSE h : h = Step(h)
               short == [k \in 0 .. m |-> g[k]]
    <2>1. Import(table, entries, m) = result[m]
      BY DEF Import, base
    <2>2. \A k \in 0 .. m : k = 0 \/ (k \in 1 .. n /\ k - 1 \in 0 .. m)
      OBVIOUS
    <2>3. short = Step(short)
      <3>1. \A k \in 0 .. m : short[k] = IF k = 0 THEN base ELSE CreateRow(short[k - 1], entries[k])
        BY <1>5, <2>2
      <3> DEFINE stepped == Step(short)
      <3>2. stepped = [k \in 0 .. m |-> short[k]]
        BY <3>1
      <3>3. QED  BY <3>2
    <2>4. result = Step(result)
      <3> HIDE DEF Step, short
      <3>1. QED  BY <2>3
    <2> HIDE DEF result
    <2>5. \A k \in 0 .. m : result[k] = IF k = 0 THEN base ELSE CreateRow(result[k - 1], entries[k])
      BY <2>4
    <2> DEFINE T == {k \in 0 .. m : result[k] = g[k]}
    <2>6. m \in Nat /\ T \in SUBSET (0 .. m) /\ 0 \in T
      BY <1>5, <2>5
    <2>7. ASSUME NEW k \in 1 .. m, k - 1 \in T PROVE k \in T
      <3>1. k \in 0 .. m /\ k # 0 /\ k \in 1 .. n /\ result[k - 1] = g[k - 1]
        BY <2>7
      <3>2. result[k] = g[k]
        BY <1>5, <2>5, <3>1
      <3>3. QED  BY <3>1, <3>2
    <2> HIDE DEF T
    <2>8. \A k \in 0 .. m : k \in T
      BY <2>6, <2>7, EveryIndex
    <2>9. m \in T
      BY <2>6, <2>8
    <2>10. QED  BY <2>1, <2>9 DEF T
  <1>7. Runs(g, X, Y, table, n, entries)
    BY <1>5 DEF V, base, Runs
  <1>8. QED  BY <1>6, <1>7

Extends(t, u) == Len(t) <= Len(u) /\ \A i \in 1 .. Len(t) : u[i] = t[i]

\* The first k entries have been reported under their numbers, once each, and the
\* imported ones are in a table that had size rows.
Reported(result, k, numbers, size) ==
    /\ IsFiniteSet(result.imported)
    /\ Cardinality(result.imported) + Len(result.failed) = k
    /\ result.imported \cap ToSet(result.failed) = {}
    /\ result.imported \cup ToSet(result.failed) = numbers
    /\ Len(result.table) = size + Cardinality(result.imported)

LEMMA ToSetAppend ==
    ASSUME NEW Y, NEW s \in Seq(Y), NEW y \in Y
    PROVE  ToSet(Append(s, y)) = ToSet(s) \cup {y}
  <1> DEFINE longer == Append(s, y)
  <1>1. DOMAIN longer = 1 .. Len(s) + 1 /\ DOMAIN s = 1 .. Len(s) /\ Len(s) \in Nat
    OBVIOUS
  <1>2. /\ \A i \in 1 .. Len(s) : longer[i] = s[i]
        /\ longer[Len(s) + 1] = y
    OBVIOUS
  <1>3. 1 .. Len(s) + 1 = (1 .. Len(s)) \cup {Len(s) + 1}
    BY <1>1
  <1> HIDE DEF longer
  <1>4. QED  BY <1>1, <1>2, <1>3 DEF ToSet, longer

LEMMA ExtendsIs ==
    ASSUME NEW X, NEW t \in Seq(X)
    PROVE  /\ Extends(t, t)
           /\ \A x \in X : Extends(t, Append(t, x))
           /\ \A u \in Seq(X), v \in Seq(X) : Extends(t, u) /\ Extends(u, v) => Extends(t, v)
  <1>1. \A u \in Seq(X) : Len(u) \in Nat
    OBVIOUS
  <1>2. Extends(t, t)
    BY <1>1 DEF Extends
  <1>3. ASSUME NEW x \in X PROVE Extends(t, Append(t, x))
    <2>1. Len(Append(t, x)) = Len(t) + 1 /\ \A i \in 1 .. Len(t) : Append(t, x)[i] = t[i]
      OBVIOUS
    <2>2. QED  BY <1>1, <2>1 DEF Extends
  <1>4. ASSUME NEW u \in Seq(X), NEW v \in Seq(X), Extends(t, u), Extends(u, v)
        PROVE  Extends(t, v)
    <2>1. Len(t) <= Len(v) /\ \A i \in 1 .. Len(t) : i \in 1 .. Len(u)
      BY <1>1, <1>4 DEF Extends
    <2>2. QED  BY <1>4, <2>1 DEF Extends
  <1>5. QED  BY <1>2, <1>3, <1>4

LEMMA EntryIs ==
    ASSUME NEW X, NEW Y, NEW old \in Results(X, Y), NEW entry \in Y \X X, NEW k \in Nat,
           NEW numbers, entry[1] \notin numbers, NEW size \in Nat,
           Reported(old, k, numbers, size)
    PROVE  LET new == CreateRow(old, entry)
           IN  /\ Reported(new, k + 1, numbers \cup {entry[1]}, size)
               /\ Extends(old.table, new.table)
  <1> DEFINE new == CreateRow(old, entry)
             y == entry[1]
             x == entry[2]
  <1>1. y \in Y /\ x \in X
    OBVIOUS
  <1>2. /\ old.table \in Seq(X) /\ old.failed \in Seq(Y)
        /\ Len(old.table) \in Nat /\ Len(old.failed) \in Nat
    BY DEF Results
  <1>3. IsFiniteSet(old.imported) /\ Cardinality(old.imported) \in Nat /\ y \notin old.imported
        /\ y \notin ToSet(old.failed)
    BY FS_CardinalityType DEF Reported
  <1> DEFINE a == Cardinality(old.imported)
             b == Len(old.failed)
             c == Len(old.table)
  <1>8. a \in Nat /\ b \in Nat /\ c \in Nat /\ a + b = k /\ c = size + a
    BY <1>2, <1>3 DEF Reported
  <1>9. a + 1 + b = k + 1 /\ a + (b + 1) = k + 1 /\ c + 1 = size + (a + 1)
    <2> HIDE DEF a, b, c
    <2>1. QED  BY <1>8
  <1>4. /\ Accepts(old.table, x) =>
              /\ new.table = Append(old.table, x)
              /\ new.imported = old.imported \cup {y} /\ new.failed = old.failed
        /\ ~Accepts(old.table, x) =>
              /\ new.table = old.table /\ new.imported = old.imported
              /\ new.failed = Append(old.failed, y)
    BY CreateRowIs
  <1> HIDE DEF new, y, x
  <1>5. CASE Accepts(old.table, x)
    <2>1. IsFiniteSet(new.imported) /\ Cardinality(new.imported) = Cardinality(old.imported) + 1
      <3>1. new.imported = old.imported \cup {y}
        BY <1>4, <1>5
      <3>2. /\ IsFiniteSet(old.imported \cup {y})
            /\ Cardinality(old.imported \cup {y}) = Cardinality(old.imported) + 1
        BY <1>3, FS_AddElement
      <3>3. QED  BY <3>1, <3>2
    <2>2. Len(new.table) = Len(old.table) + 1
      <3>1. new.table = Append(old.table, x)
        BY <1>4, <1>5
      <3>2. Len(Append(old.table, x)) = Len(old.table) + 1
        BY <1>1, <1>2
      <3>3. QED  BY <3>1, <3>2
    <2>3. /\ Cardinality(old.imported) + 1 + Len(old.failed) = k + 1
          /\ Len(old.table) + 1 = size + (Cardinality(old.imported) + 1)
      BY <1>9
    <2>4. /\ new.imported \cap ToSet(new.failed) = {}
          /\ new.imported \cup ToSet(new.failed) = numbers \cup {y}
      BY <1>3, <1>4, <1>5 DEF Reported
    <2>5. Reported(new, k + 1, numbers \cup {y}, size)
      BY <1>4, <1>5, <2>1, <2>2, <2>3, <2>4 DEF Reported
    <2>6. Extends(old.table, new.table)
      <3>1. new.table = Append(old.table, x)
        BY <1>4, <1>5
      <3>2. Extends(old.table, Append(old.table, x))
        BY <1>1, <1>2, ExtendsIs
      <3>3. QED  BY <3>1, <3>2
    <2>7. QED  BY <2>5, <2>6 DEF new, y
  <1>6. CASE ~Accepts(old.table, x)
    <2>1. ToSet(new.failed) = ToSet(old.failed) \cup {y}
      <3>1. new.failed = Append(old.failed, y)
        BY <1>4, <1>6
      <3>2. ToSet(Append(old.failed, y)) = ToSet(old.failed) \cup {y}
        BY <1>1, <1>2, ToSetAppend
      <3>3. QED  BY <3>1, <3>2
    <2>2. Len(new.failed) = Len(old.failed) + 1
      <3>1. new.failed = Append(old.failed, y)
        BY <1>4, <1>6
      <3>2. Len(Append(old.failed, y)) = Len(old.failed) + 1
        BY <1>1, <1>2
      <3>3. QED  BY <3>1, <3>2
    <2>3. Cardinality(old.imported) + (Len(old.failed) + 1) = k + 1
      BY <1>9
    <2>4. /\ new.imported \cap ToSet(new.failed) = {}
          /\ new.imported \cup ToSet(new.failed) = numbers \cup {y}
      BY <1>3, <1>4, <1>6, <2>1 DEF Reported
    <2>5. Reported(new, k + 1, numbers \cup {y}, size)
      BY <1>3, <1>4, <1>6, <2>2, <2>3, <2>4 DEF Reported
    <2>6. Extends(old.table, new.table)
      BY <1>2, <1>4, <1>6, ExtendsIs
    <2>7. QED  BY <2>5, <2>6 DEF new, y
  <1>7. QED  BY <1>5, <1>6

\* What a run of an import has done after k entries.
LEMMA RunIs ==
    ASSUME NEW X, NEW Y, NEW table, IsTable(table, X), NEW n, NEW entries, Entries(entries, n, X, Y),
           NEW g, Runs(g, X, Y, table, n, entries)
    PROVE  \A k \in 0 .. n :
               /\ Reported(g[k], k, Numbers(entries, k), Len(table))
               /\ \A j \in 0 .. k : Extends(g[j].table, g[k].table)
  <1> DEFINE P(k) == /\ Reported(g[k], k, Numbers(entries, k), Len(table))
                     /\ \A j \in 0 .. k : Extends(g[j].table, g[k].table)
             T == {k \in 0 .. n : P(k)}
  <1>t. table \in Seq(X) /\ n \in Nat /\ entries \in [1 .. n -> Y \X X]
    BY DEF IsTable, Entries
  <1> USE <1>t
  <1>0. /\ g \in [0 .. n -> Results(X, Y)]
        /\ g[0] = [table |-> table, imported |-> {}, failed |-> <<>>]
        /\ \A k \in 1 .. n : g[k] = CreateRow(g[k - 1], entries[k])
    BY DEF Runs
  <1>1. \A k \in 0 .. n : g[k] \in Results(X, Y) /\ g[k].table \in Seq(X)
    BY <1>0 DEF Results
  <1>2. Len(table) \in Nat
    OBVIOUS
  <1>3. P(0)
    <2>1. g[0].table = table /\ g[0].imported = {} /\ g[0].failed = <<>>
      BY <1>0
    <2>2. Numbers(entries, 0) = {} /\ ToSet(<<>>) = {}
      BY DEF ToSet, Numbers
    <2>3. \A j \in 0 .. 0 : Extends(g[j].table, g[0].table)
      BY <2>1, ExtendsIs
    <2>4. IsFiniteSet({}) /\ Cardinality({}) = 0
      BY FS_EmptySet
    <2>5. Reported(g[0], 0, Numbers(entries, 0), Len(table))
      <3>1. Len(g[0].failed) = 0 /\ Cardinality(g[0].imported) = 0 /\ IsFiniteSet(g[0].imported)
        BY <2>1, <2>4
      <3>2. /\ g[0].imported \cap ToSet(g[0].failed) = {}
            /\ g[0].imported \cup ToSet(g[0].failed) = Numbers(entries, 0)
        BY <2>1, <2>2
      <3>3. Len(g[0].table) = Len(table)
        BY <2>1
      <3>4. QED  BY <1>2, <3>1, <3>2, <3>3 DEF Reported
    <2>6. QED  BY <2>3, <2>5
  <1>4. ASSUME NEW k \in 1 .. n, P(k - 1) PROVE P(k)
    <2>1. k - 1 \in 0 .. n /\ k \in 0 .. n /\ k - 1 \in Nat /\ k - 1 + 1 = k
      OBVIOUS
    <2>2. entries[k] \in Y \X X
      OBVIOUS
    <2>3. entries[k][1] \notin Numbers(entries, k - 1) /\ Numbers(entries, k) = Numbers(entries, k - 1) \cup {entries[k][1]}
      <3>1. \A j \in 1 .. k - 1 : j \in 1 .. n /\ j # k
        BY <2>1
      <3>2. 1 .. k = (1 .. k - 1) \cup {k}
        BY <2>1
      <3>3. QED  BY <2>1, <3>1, <3>2 DEF Entries, Numbers
    <2>4. \A j \in 0 .. k : j = k \/ (j \in 0 .. k - 1 /\ j \in 0 .. n)
      BY <2>1
    <2>5. /\ Reported(g[k - 1], k - 1, Numbers(entries, k - 1), Len(table))
          /\ \A j \in 0 .. k - 1 : Extends(g[j].table, g[k - 1].table)
      BY <1>4
    <2>6. /\ Reported(g[k], k, Numbers(entries, k), Len(table))
          /\ Extends(g[k - 1].table, g[k].table)
      <3>1. g[k - 1] \in Results(X, Y) /\ g[k] = CreateRow(g[k - 1], entries[k])
        BY <1>0, <1>1, <2>1
      <3>2. /\ Reported(CreateRow(g[k - 1], entries[k]), k - 1 + 1,
                        Numbers(entries, k - 1) \cup {entries[k][1]}, Len(table))
            /\ Extends(g[k - 1].table, CreateRow(g[k - 1], entries[k]).table)
        BY <1>2, <2>1, <2>2, <2>3, <2>5, <3>1, EntryIs
      <3>3. QED  BY <2>1, <2>3, <3>1, <3>2
    <2>7. \A j \in 0 .. k : Extends(g[j].table, g[k].table)
      <3>1. \A j \in 0 .. k : g[j].table \in Seq(X)
        BY <1>1, <2>1, <2>4
      <3>2. g[k].table \in Seq(X) /\ g[k - 1].table \in Seq(X)
        BY <1>1, <2>1
      <3>3. QED  BY <2>4, <2>5, <2>6, <3>1, <3>2, ExtendsIs
    <2>8. QED  BY <2>6, <2>7
  <1> HIDE DEF P
  <1>5. T \in SUBSET (0 .. n) /\ 0 \in T
    BY <1>3
  <1>6. \A k \in 1 .. n : k - 1 \in T => k \in T
    <2>1. \A k \in 1 .. n : k \in 0 .. n
      OBVIOUS
    <2>2. QED  BY <1>4, <2>1
  <1> HIDE DEF T
  <1>7. \A k \in 0 .. n : k \in T
    BY <1>5, <1>6, EveryIndex
  <1>8. QED  BY <1>7 DEF T, P
LEMMA LongerRefusesMore ==
    ASSUME NEW X, NEW t \in Seq(X), NEW u \in Seq(X), Extends(t, u), NEW row, Accepts(u, row)
    PROVE  Accepts(t, row)
  <1>1. DOMAIN t = 1 .. Len(t) /\ DOMAIN u = 1 .. Len(u) /\ Len(t) \in Nat /\ Len(u) \in Nat
    OBVIOUS
  <1>2. \A i \in DOMAIN t : i \in DOMAIN u /\ u[i] = t[i]
    BY <1>1 DEF Extends
  <1>3. QED  BY <1>2 DEF Accepts

\* u is what the creation of the row x leaves of the table t.
Grown(t, x, u) == u = IF Accepts(t, x) THEN Append(t, x) ELSE t

LEMMA CreateRowGrows ==
    ASSUME NEW X, NEW Y, NEW table, IsTable(table, X), NEW n, NEW entries, Entries(entries, n, X, Y),
           NEW g, Runs(g, X, Y, table, n, entries), NEW k \in 1 .. n
    PROVE  Grown(g[k - 1].table, entries[k][2], g[k].table)
  <1>1. g[k - 1] \in Results(X, Y) /\ entries[k] \in Y \X X
    <2>1. k - 1 \in 0 .. n
      BY DEF Entries
    <2>2. g[k - 1] \in Results(X, Y)
      BY <2>1 DEF Runs
    <2>3. entries[k] \in Y \X X
      BY DEF Entries
    <2>4. QED  BY <2>2, <2>3
  <1>2. ASSUME NEW result \in Results(X, Y), NEW entry \in Y \X X
        PROVE  Grown(result.table, entry[2], CreateRow(result, entry).table)
    <2> DEFINE new == CreateRow(result, entry)
    <2>1. /\ Accepts(result.table, entry[2]) => new.table = Append(result.table, entry[2])
          /\ ~Accepts(result.table, entry[2]) => new.table = result.table
      BY CreateRowIs
    <2> HIDE DEF new
    <2>2. Grown(result.table, entry[2], new.table)
      BY <2>1 DEF Grown
    <2>3. QED  BY <2>2 DEF new
  <1>3. g[k] = CreateRow(g[k - 1], entries[k])
    BY DEF Runs
  <1>4. Grown(g[k - 1].table, entries[k][2], CreateRow(g[k - 1], entries[k]).table)
    BY <1>1, <1>2
  <1>5. QED  BY <1>3, <1>4

\* A row that has been created, or refused, is refused by every later table.
LEMMA RefusedAgain ==
    ASSUME NEW X, NEW x \in X, NEW s \in Seq(X), NEW t \in Seq(X), NEW u \in Seq(X),
           Grown(s, x, t), Extends(s, u), Extends(t, u)
    PROVE  ~Accepts(u, x)
  <1> SUFFICES ASSUME Accepts(u, x) PROVE FALSE
    OBVIOUS
  <1>1. Accepts(s, x)
    BY LongerRefusesMore
  <1>2. t = Append(s, x)
    BY <1>1 DEF Grown
  <1>3. Len(s) + 1 \in 1 .. Len(t) /\ t[Len(s) + 1] = x
    BY <1>2
  <1>4. Len(s) + 1 \in DOMAIN u /\ u[Len(s) + 1] = x
    BY <1>3 DEF Extends
  <1>5. Conflicts(x, x)
    BY DEF Conflicts
  <1>6. QED  BY <1>4, <1>5 DEF Accepts

\* What an import has created conflicts with its own row when the import is
\* repeated, and what it refused is refused again.
LEMMA RepeatedRuns ==
    ASSUME NEW X, NEW Y, NEW table, IsTable(table, X), NEW n, NEW entries, Entries(entries, n, X, Y),
           NEW g, Runs(g, X, Y, table, n, entries),
           NEW m \in 0 .. n, NEW h, Runs(h, X, Y, g[m].table, n, entries)
    PROVE  h[n].table = g[n].table
  <1> DEFINE top(k) == IF k < m THEN m ELSE k
             T == {k \in 0 .. n : h[k].table = g[top(k)].table}
  <1>1. \A k \in 0 .. n : g[k].table \in Seq(X)
    BY DEF Runs, Results
  <1>2. n \in Nat /\ m \in Nat /\ m <= n /\ \A k \in 1 .. n : entries[k][2] \in X
    BY DEF Entries
  <1>3. \A k \in 0 .. n : \A j \in 0 .. k : Extends(g[j].table, g[k].table)
    BY RunIs
  <1>4. 0 \in T
    <2>1. top(0) = m /\ h[0].table = g[m].table
      BY <1>2 DEF Runs
    <2>2. QED  BY <1>2, <2>1
  <1>5. ASSUME NEW k \in 1 .. n, k - 1 \in T PROVE k \in T
    <2> DEFINE x == entries[k][2]
    <2>1. k \in 0 .. n /\ k - 1 \in 0 .. n /\ x \in X
      BY <1>2
    <2>2. h[k - 1].table = g[top(k - 1)].table
      BY <1>5
    <2>3. Grown(g[k - 1].table, x, g[k].table)
      BY CreateRowGrows
    <2>4. Grown(h[k - 1].table, x, h[k].table)
      <3>1. IsTable(g[m].table, X)
        BY <1>1 DEF IsTable
      <3>2. QED  BY <3>1, CreateRowGrows
    <2> HIDE DEF x
    <2>5. CASE k > m
      <3>1. top(k - 1) = k - 1 /\ top(k) = k
        BY <1>2, <2>5
      <3>2. QED  BY <2>1, <2>2, <2>3, <2>4, <3>1 DEF Grown
    <2>6. CASE k <= m
      <3>1. top(k - 1) = m /\ top(k) = m /\ k - 1 \in 0 .. m /\ k \in 0 .. m
        BY <1>2, <2>6
      <3>2. Extends(g[k - 1].table, g[m].table) /\ Extends(g[k].table, g[m].table)
        BY <1>3, <3>1
      <3>3. ~Accepts(g[m].table, x)
        BY <1>1, <2>1, <2>3, <3>2, RefusedAgain
      <3>4. QED  BY <2>1, <2>2, <2>4, <3>1, <3>3 DEF Grown
    <2>7. QED  BY <1>2, <2>5, <2>6
  <1>6. T \in SUBSET (0 .. n) /\ top(n) = n /\ n \in 0 .. n
    BY <1>2
  <1>7. n \in T => h[n].table = g[top(n)].table
    OBVIOUS
  <1> HIDE DEF T, top
  <1>8. \A k \in 0 .. n : k \in T
    BY <1>2, <1>4, <1>5, <1>6, EveryIndex
  <1>9. QED  BY <1>6, <1>7, <1>8

\* What an import of any distinct entries into any table reports and leaves.
LEMMA ImportRepeats ==
    ASSUME NEW X, NEW Y, NEW table, IsTable(table, X), NEW n, NEW entries, Entries(entries, n, X, Y)
    PROVE  /\ Reported(Import(table, entries, n), n, Numbers(entries, n), Len(table))
           /\ \A m \in 0 .. n :
                 Import(Import(table, entries, m).table, entries, n).table
                     = Import(table, entries, n).table
  <1>1. PICK g : /\ Runs(g, X, Y, table, n, entries)
                 /\ \A m \in 0 .. n : Import(table, entries, m) = g[m]
    BY ImportRuns
  <1>2. \A k \in 0 .. n : Reported(g[k], k, Numbers(entries, k), Len(table))
    BY <1>1, RunIs
  <1>3. n \in 0 .. n
    BY DEF Entries
  <1>4. ASSUME NEW m \in 0 .. n
        PROVE  Import(Import(table, entries, m).table, entries, n).table
                   = Import(table, entries, n).table
    <2>1. IsTable(g[m].table, X)
      BY <1>1 DEF Runs, Results, IsTable
    <2>2. PICK h : /\ Runs(h, X, Y, g[m].table, n, entries)
                   /\ \A k \in 0 .. n : Import(g[m].table, entries, k) = h[k]
      BY <2>1, ImportRuns
    <2>3. h[n].table = g[n].table
      BY <1>1, <2>2, RepeatedRuns
    <2>4. QED  BY <1>1, <1>3, <2>2, <2>3
  <1>5. QED  BY <1>1, <1>2, <1>3, <1>4

LEMMA RepeatableImportHolds ==
    ASSUME NEW table, table \in Seq(ToSet(table)), NEW file, file.rows \in Seq(Seq(STRING))
    PROVE  RepeatableImport(table, file)
  <1> DEFINE parsed  == Parse(file)
             entries == parsed.rows
             n       == Len(entries)
             whole   == Import(table, entries, n)
             Y       == DOMAIN file.rows
             X       == ToSet(table) \cup Contents(entries)
  <1> SUFFICES ASSUME parsed.code = "ok"
               PROVE  /\ whole.imported \cap ToSet(whole.failed) = {}
                      /\ Cardinality(whole.imported) + Len(whole.failed) = n
                      /\ \A i \in whole.imported \cup ToSet(whole.failed) : i \in DOMAIN file.rows
                      /\ Len(whole.table) = Len(table) + Cardinality(whole.imported)
                      /\ \A m \in 0 .. n :
                            Import(Import(table, entries, m).table, entries, n).table = whole.table
    BY DEF RepeatableImport
  <1>1. /\ n \in Nat /\ entries \in [1 .. n -> Y \X Contents(entries)]
        /\ \A j, k \in 1 .. n : entries[j][1] = entries[k][1] => j = k
    BY ParseIs
  <1>2. IsTable(table, X)
    BY DEF IsTable
  <1> HIDE DEF parsed, entries, n, Y
  <1>3. entries \in [1 .. n -> Y \X X]
    BY <1>1
  <1>4. \A i \in Numbers(entries, n) : i \in Y
    BY <1>3 DEF Numbers
  <1> HIDE DEF X
  <1>e. Entries(entries, n, X, Y)
    BY <1>1, <1>3 DEF Entries
  <1>5. /\ Reported(Import(table, entries, n), n, Numbers(entries, n), Len(table))
        /\ \A m \in 0 .. n :
              Import(Import(table, entries, m).table, entries, n).table
                  = Import(table, entries, n).table
    BY <1>2, <1>e, ImportRepeats
  <1>6. QED  BY <1>4, <1>5 DEF Reported, Y

\* For any file, any saved table and any limits: an import reports every row once,
\* and repeating it, after any number of rows or after all of them, changes nothing
\* that it has created and creates what it had not.
THEOREM ImportsAlwaysRepeatable == DecisionsSpec => []ImportsRepeatable
  <1>1. input \in Inputs => ImportsRepeatable
    <2> SUFFICES ASSUME input \in Inputs, input.kind = "import"
                 PROVE  RepeatableImport(input.table, input.file)
      BY DEF ImportsRepeatable
    <2>1. input.table \in Seq(ToSet(input.table)) /\ input.file.rows \in Seq(Seq(STRING))
      BY InputsAssumption DEF IsImport, ImportFiles
    <2>2. QED  BY <2>1, RepeatableImportHolds
  <1>2. QED  BY <1>1, InputIs, PTL
===============================================================================
