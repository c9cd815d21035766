---------------------------- MODULE DecisionsProofs ----------------------------
(***************************************************************************)
(* The pure decisions, for every input and every limit: whom a face is     *)
(* taken for, what the offline rates mean, where a detected face lies,     *)
(* which embeddings are stored, and which uploads are accepted.            *)
(***************************************************************************)
EXTENDS Decisions, FiniteSetTheorems, WellFoundedInduction, TLAPS

(***************************************************************************)
(* Least and greatest elements.                                            *)
(***************************************************************************)
LEMMA LeastOf ==
    ASSUME NEW S \in SUBSET Nat, S # {}
    PROVE  \E m \in S : \A n \in S : m <= n
  <1>1. PICK m \in S : \A n \in S : ~(<<n, m>> \in OpToRel(<, Nat))
    BY NatLessThanWellFounded, WFMin
  <1>2. OpToRel(<, Nat) = {p \in Nat \X Nat : p[1] < p[2]}
    BY DEF OpToRel
  <1>3. ASSUME NEW n \in S PROVE m <= n
    <2>1. <<n, m>> \notin {p \in Nat \X Nat : p[1] < p[2]}
      BY <1>1, <1>2
    <2>2. QED  BY <2>1
  <1>4. QED  BY <1>3

\* Among finitely many indices, a total and transitive R has a greatest.
LEMMA GreatestOf ==
    ASSUME NEW n \in Nat, NEW T \in SUBSET (1 .. n), T # {}, NEW R,
           \A i, j \in T : <<i, j>> \in R \/ <<j, i>> \in R,
           \A i, j, k \in T : <<i, j>> \in R /\ <<j, k>> \in R => <<i, k>> \in R
    PROVE  \E i \in T : \A j \in T : <<j, i>> \in R
  <1> DEFINE Tops(U) == \E i \in U : \A j \in U : <<j, i>> \in R
             Bad == {k \in 0 .. n : \E U \in SUBSET (T \cap 1 .. k) : U # {} /\ ~Tops(U)}
  <1>1. ASSUME Bad # {} PROVE FALSE
    <2>1. Bad \in SUBSET Nat
      OBVIOUS
    <2>2. PICK k \in Bad : \A m \in Bad : k <= m
      <3> HIDE DEF Bad
      <3>1. QED  BY <1>1, <2>1, LeastOf
    <2> HIDE DEF Tops
    <2>3. PICK U \in SUBSET (T \cap 1 .. k) : U # {} /\ ~Tops(U)
      OBVIOUS
    <2>4. k \in 1 .. n
      <3>1. PICK e \in U : e \in 1 .. k
        BY <2>3
      <3>2. QED  BY <3>1
    <2>5. k - 1 \in 0 .. n /\ k - 1 \notin Bad
      <3> HIDE DEF Bad
      <3>1. QED  BY <2>1, <2>2, <2>4
    <2>6. \A V \in SUBSET (T \cap 1 .. k - 1) : V # {} => Tops(V)
      BY <2>5
    <2> HIDE DEF Bad
    <2>7. U \ {k} \in SUBSET (T \cap 1 .. k - 1)
      BY <2>3, <2>4
    <2>8. k \in U /\ k \in T
      <3>1. ASSUME k \notin U PROVE FALSE
        <4>1. U = U \ {k}
          BY <3>1
        <4>2. QED  BY <2>3, <2>6, <2>7, <4>1
      <3>2. QED  BY <2>3, <3>1
    <2>9. CASE U \ {k} = {}
      <3>1. \A j \in U : j = k
        BY <2>9
      <3>2. QED  BY <2>3, <2>8, <3>1 DEF Tops
    <2>10. CASE U \ {k} # {}
      <3>1. PICK i \in U \ {k} : \A j \in U \ {k} : <<j, i>> \in R
        BY <2>6, <2>7, <2>10 DEF Tops
      <3>2. i \in T /\ <<k, k>> \in R /\ U \subseteq T
        BY <2>3, <2>8, <3>1
      <3>3. CASE <<k, i>> \in R
        <4>1. \A j \in U : <<j, i>> \in R
          BY <3>1, <3>3
        <4>2. QED  BY <2>3, <3>1, <4>1 DEF Tops
      <3>4. CASE <<i, k>> \in R
        <4>1. \A j \in U : <<j, k>> \in R
          BY <2>8, <3>1, <3>2, <3>4
        <4>2. QED  BY <2>3, <2>8, <4>1 DEF Tops
      <3>5. QED  BY <2>8, <3>2, <3>3, <3>4
    <2>11. QED  BY <2>9, <2>10
  <1>2. n \notin Bad
    BY <1>1
  <1>3. T \cap 1 .. n = T
    OBVIOUS
  <1> HIDE DEF Tops
  <1>4. Tops(T)
    BY <1>2, <1>3
  <1>5. QED  BY <1>4 DEF Tops

(***************************************************************************)
(* The matcher.                                                            *)
(***************************************************************************)
LEMMA RangeOf ==
    ASSUME NEW D, NEW cs \in Seq(D)
    PROVE  /\ Range(cs) \subseteq D
           /\ Range(cs) = {cs[i] : i \in 1 .. Len(cs)}
           /\ cs = <<>> <=> Range(cs) = {}
  BY DEF Range

\* The best similarity of a student is that of one of its embeddings.
LEMMA BestIs ==
    ASSUME NEW cs \in Seq(CandidateRows)
    PROVE  /\ DOMAIN BestPerStudent(cs) = {c.student : c \in Range(cs)}
           /\ \A s \in DOMAIN BestPerStudent(cs) :
                 /\ BestPerStudent(cs)[s] \in Int
                 /\ \E c \in Range(cs) : c.student = s /\ c.similarity = BestPerStudent(cs)[s]
                 /\ \A c \in Range(cs) : c.student = s => c.similarity <= BestPerStudent(cs)[s]
  <1> DEFINE best == BestPerStudent(cs)
  <1>1. DOMAIN best = {c.student : c \in Range(cs)}
    BY DEF BestPerStudent
  <1>2. ASSUME NEW s \in DOMAIN best
        PROVE  /\ best[s] \in Int
               /\ \E c \in Range(cs) : c.student = s /\ c.similarity = best[s]
               /\ \A c \in Range(cs) : c.student = s => c.similarity <= best[s]
    <2> DEFINE own == {c.similarity : c \in {d \in Range(cs) : d.student = s}}
               T == {i \in 1 .. Len(cs) : cs[i].student = s}
               R == {p \in T \X T : cs[p[1]].similarity <= cs[p[2]].similarity}
    <2>1. T \in SUBSET (1 .. Len(cs)) /\ T # {}
      BY <1>1, RangeOf
    <2>2. \A i, j \in T : <<i, j>> \in R <=> cs[i].similarity <= cs[j].similarity
      OBVIOUS
    <2>3. \A i \in T : cs[i] \in Range(cs) /\ cs[i].student = s /\ cs[i].similarity \in Int
      <3>1. \A c \in CandidateRows : c.similarity \in Int
        BY DEF CandidateRows
      <3>2. QED  BY <3>1, RangeOf
    <2>4. \A c \in Range(cs) : c.student = s => \E i \in T : c = cs[i]
      BY RangeOf
    <2> HIDE DEF T, R
    <2>5. /\ \A i, j \in T : <<i, j>> \in R \/ <<j, i>> \in R
          /\ \A i, j, k \in T : <<i, j>> \in R /\ <<j, k>> \in R => <<i, k>> \in R
      BY <2>2, <2>3
    <2>6. PICK top \in T : \A j \in T : <<j, top>> \in R
      <3>1. Len(cs) \in Nat
        OBVIOUS
      <3>2. QED  BY <2>1, <2>5, <3>1, GreatestOf
    <2>7. \A c \in Range(cs) : c.student = s => c.similarity <= cs[top].similarity
      BY <2>2, <2>4, <2>6
    <2>8. own \subseteq Int
      <3>1. \A c \in CandidateRows : c.similarity \in Int
        BY DEF CandidateRows
      <3>2. QED  BY <3>1, RangeOf
    <2>9. cs[top].similarity \in own /\ \A y \in own : cs[top].similarity >= y
      BY <2>3, <2>7, <2>8
    <2>10. Max(own) \in own /\ \A y \in own : Max(own) >= y
      <3> HIDE DEF own
      <3>1. QED  BY <2>9 DEF Max
    <2>11. best[s] = Max(own)
      BY <1>2, <1>1 DEF BestPerStudent
    <2>12. QED  BY <2>8, <2>10, <2>11
  <1>3. QED  BY <1>1, <1>2

\* Every set of offered students has a leader.
LEMMA LeaderIs ==
    ASSUME NEW cs \in Seq(CandidateRows), NEW S \in SUBSET DOMAIN BestPerStudent(cs), S # {}
    PROVE  LET best == BestPerStudent(cs)
               s    == Leader(best, S)
           IN  s \in S /\ \A t \in S \ {s} : best[s] > best[t] \/ (best[s] = best[t] /\ s < t)
  <1> DEFINE best == BestPerStudent(cs)
             Before(s, t) == best[s] > best[t] \/ (best[s] = best[t] /\ s < t)
             T == {i \in 1 .. Len(cs) : cs[i].student \in S}
             R == {p \in T \X T : \/ cs[p[1]].student = cs[p[2]].student
                                 \/ Before(cs[p[2]].student, cs[p[1]].student)}
  <1>1. /\ \A s \in S : best[s] \in Int /\ s \in Nat
        /\ \A s \in S : \E i \in T : cs[i].student = s
    <2>1. /\ DOMAIN best = {c.student : c \in Range(cs)} /\ \A s \in DOMAIN best : best[s] \in Int
          /\ Range(cs) = {cs[i] : i \in 1 .. Len(cs)} /\ Range(cs) \subseteq CandidateRows
      BY BestIs, RangeOf
    <2>2. \A c \in CandidateRows : c.student \in Nat
      BY DEF CandidateRows
    <2>3. S \subseteq DOMAIN best
      OBVIOUS
    <2> HIDE DEF best
    <2>4. \A s \in S : \E i \in 1 .. Len(cs) : cs[i].student = s
      BY <2>1, <2>3
    <2>5. \A s \in S : best[s] \in Int /\ s \in Nat
      BY <2>1, <2>2, <2>3
    <2>6. QED  BY <2>4, <2>5
  <1>2. \A i, j \in T : <<i, j>> \in R <=>
            (cs[i].student = cs[j].student \/ Before(cs[j].student, cs[i].student))
    <2> HIDE DEF Before
    <2>1. QED  OBVIOUS
  <1>3. T \in SUBSET (1 .. Len(cs)) /\ T # {} /\ \A i \in T : cs[i].student \in S
    BY <1>1
  <1> HIDE DEF best, T, R
  <1>4. /\ \A i, j \in T : <<i, j>> \in R \/ <<j, i>> \in R
        /\ \A i, j, k \in T : <<i, j>> \in R /\ <<j, k>> \in R => <<i, k>> \in R
    <2>1. \A s, t \in S : s = t \/ Before(s, t) \/ Before(t, s)
      BY <1>1
    <2>2. \A s, t, u \in S : Before(s, t) /\ Before(t, u) => Before(s, u)
      BY <1>1
    <2> HIDE DEF Before
    <2>3. \A s, t, u \in S : (s = t \/ Before(t, s)) /\ (t = u \/ Before(u, t)) =>
                                 s = u \/ Before(u, s)
      BY <2>2
    <2>4. \A i, j \in T : <<i, j>> \in R \/ <<j, i>> \in R
      BY <1>2, <1>3, <2>1
    <2>5. ASSUME NEW i \in T, NEW j \in T, NEW k \in T, <<i, j>> \in R, <<j, k>> \in R
          PROVE  <<i, k>> \in R
      BY <1>2, <1>3, <2>3, <2>5
    <2>6. QED  BY <2>4, <2>5
  <1>5. PICK top \in T : \A j \in T : <<j, top>> \in R
    <2>1. Len(cs) \in Nat
      OBVIOUS
    <2>2. QED  BY <1>3, <1>4, <2>1, GreatestOf
  <1> HIDE DEF Before
  <1>6. cs[top].student \in S /\ \A t \in S \ {cs[top].student} : Before(cs[top].student, t)
    BY <1>1, <1>2, <1>3, <1>5
  <1>7. Leader(best, S) \in S /\ \A t \in S \ {Leader(best, S)} : Before(Leader(best, S), t)
    BY <1>6 DEF Leader, Before
  <1>8. QED  BY <1>7 DEF best, Before

\* What match decides between, given that the dimensions agree.
LEMMA MatchIs ==
    ASSUME NEW cs \in Seq(CandidateRows), cs # <<>>, NEW dimension,
           \A c \in Range(cs) : c.dimension = dimension
    PROVE  LET best   == BestPerStudent(cs)
               first  == Leader(best, DOMAIN best)
               others == DOMAIN best \ {first}
               second == Leader(best, others)
               Of(s)  == Candidate(s, best[s])
           IN  /\ first \in DOMAIN best /\ \A t \in DOMAIN best : best[t] <= best[first]
               /\ others # {} => second \in others /\ \A t \in others : best[t] <= best[second]
               /\ Match(dimension, cs) =
                     IF best[first] < Threshold THEN Unknown(Of(first))
                     ELSE IF others # {} /\ best[first] - best[second] < Margin
                     THEN Ambiguous(Of(first), Of(second))
                     ELSE Found(Of(first))
  <1> DEFINE best   == BestPerStudent(cs)
             first  == Leader(best, DOMAIN best)
             others == DOMAIN best \ {first}
             second == Leader(best, others)
  <1>1. /\ DOMAIN best = {c.student : c \in Range(cs)} /\ \A s \in DOMAIN best : best[s] \in Int
        /\ Range(cs) # {}
    <2>1. Range(cs) # {}
      BY RangeOf
    <2>2. QED  BY <2>1, BestIs
  <1>2. DOMAIN best # {}
    BY <1>1
  <1>3. \A S \in SUBSET DOMAIN best : S # {} =>
            LET s == Leader(best, S)
            IN  s \in S /\ \A t \in S \ {s} : best[s] > best[t] \/ (best[s] = best[t] /\ s < t)
    BY LeaderIs
  <1> HIDE DEF best
  <1>4. \A S \in SUBSET DOMAIN best : S # {} =>
            Leader(best, S) \in S /\ \A t \in S : best[t] <= best[Leader(best, S)]
    BY <1>1, <1>3
  <1>5. first \in DOMAIN best /\ \A t \in DOMAIN best : best[t] <= best[first]
    BY <1>2, <1>4
  <1>6. others # {} => second \in others /\ \A t \in others : best[t] <= best[second]
    BY <1>4
  <1>7. Match(dimension, cs) =
            IF best[first] < Threshold THEN Unknown(Candidate(first, best[first]))
            ELSE IF others # {} /\ best[first] - best[second] < Margin
            THEN Ambiguous(Candidate(first, best[first]), Candidate(second, best[second]))
            ELSE Found(Candidate(first, best[first]))
    BY DEF Match, best
  <1>8. QED  BY <1>5, <1>6, <1>7 DEF best

\* The order of the candidates does not matter.
LEMMA MatchReversed ==
    ASSUME NEW cs \in Seq(CandidateRows), NEW dimension
    PROVE  Match(dimension, Reverse(cs)) = Match(dimension, cs)
  <1>1. Reverse(cs) \in Seq(CandidateRows) /\ Len(Reverse(cs)) = Len(cs)
    BY DEF Reverse
  <1>2. \A i \in 1 .. Len(cs) :
            /\ Len(cs) - i + 1 \in 1 .. Len(cs)
            /\ Reverse(cs)[i] = cs[Len(cs) - i + 1]
            /\ Reverse(cs)[Len(cs) - i + 1] = cs[i]
    <2>1. \A n \in Nat : \A i \in 1 .. n : n - i + 1 \in 1 .. n /\ n - (n - i + 1) + 1 = i
      OBVIOUS
    <2>2. QED  BY <2>1 DEF Reverse
  <1>3. Range(Reverse(cs)) = Range(cs)
    <2>1. Range(cs) = {cs[i] : i \in 1 .. Len(cs)}
      BY RangeOf
    <2>2. Range(Reverse(cs)) = {Reverse(cs)[i] : i \in 1 .. Len(cs)}
      BY <1>1, RangeOf
    <2> HIDE DEF Reverse
    <2>3. \A x : x \in Range(cs) <=> x \in Range(Reverse(cs))
      BY <1>2, <2>1, <2>2
    <2>4. QED  BY <2>3
  <1>4. Reverse(cs) = <<>> <=> cs = <<>>
    BY <1>1, <1>3, RangeOf
  <1>5. BestPerStudent(Reverse(cs)) = BestPerStudent(cs)
    BY <1>3 DEF BestPerStudent
  <1>6. QED  BY <1>3, <1>4, <1>5 DEF Match

LEMMA SafeMatchHolds ==
    ASSUME NEW dimension, NEW cs \in Seq(CandidateRows)
    PROVE  SafeMatch(dimension, cs)
  <1> DEFINE m == Match(dimension, cs)
             Leads(s) ==
               \E c \in Range(cs) :
                  /\ c.student = s /\ c.similarity >= Threshold
                  /\ \A d \in Range(cs) :
                        d.student # s =>
                          c.similarity - d.similarity >= Margin /\ c.similarity >= d.similarity
             leaders == {s \in {c.student : c \in Range(cs)} : Leads(s)}
  <1> SUFFICES ASSUME \A c \in Range(cs) : c.dimension = dimension
               PROVE  /\ ValidShape(m)
                      /\ m.status = "found" => m.matched \in leaders
                      /\ Margin > 0 /\ leaders # {} => m.status = "found"
                      /\ m.status = "unknown" <=> \A c \in Range(cs) : c.similarity < Threshold
    BY MatchReversed DEF SafeMatch
  <1>1. CASE cs = <<>>
    <2>1. Range(cs) = {} /\ m = Unknown(Nobody)
      BY <1>1, RangeOf DEF Match
    <2>2. QED  BY <2>1 DEF Unknown, ValidShape
  <1>2. CASE cs # <<>>
    <2> DEFINE best   == BestPerStudent(cs)
               first  == Leader(best, DOMAIN best)
               others == DOMAIN best \ {first}
               second == Leader(best, others)
               Of(s)  == Candidate(s, best[s])
    <2>1. /\ first \in DOMAIN best /\ \A t \in DOMAIN best : best[t] <= best[first]
          /\ others # {} => second \in others /\ \A t \in others : best[t] <= best[second]
          /\ m = IF best[first] < Threshold THEN Unknown(Of(first))
                 ELSE IF others # {} /\ best[first] - best[second] < Margin
                 THEN Ambiguous(Of(first), Of(second))
                 ELSE Found(Of(first))
      BY <1>2, MatchIs
    <2>2. /\ DOMAIN best = {c.student : c \in Range(cs)}
          /\ \A s \in DOMAIN best :
                /\ best[s] \in Int
                /\ \E c \in Range(cs) : c.student = s /\ c.similarity = best[s]
                /\ \A c \in Range(cs) : c.student = s => c.similarity <= best[s]
      BY BestIs
    <2>3. \A c \in Range(cs) :
              c.student \in DOMAIN best /\ c.student \in Nat /\ c.similarity \in Int
      <3>1. \A c \in CandidateRows : c.student \in Nat /\ c.similarity \in Int
        BY DEF CandidateRows
      <3>2. QED  BY <2>2, <3>1, RangeOf
    <2> HIDE DEF m, best, first, second
    <2>4. /\ Threshold \in Int /\ Margin \in Nat
          /\ Nobody # Of(first) /\ (others # {} => Nobody # Of(second))
      <3>1. \A s \in DOMAIN best : Of(s) \in [student : Nat, similarity : Int]
        <4>1. \A s \in DOMAIN best : s \in Nat
          BY <2>2, <2>3
        <4>2. QED  BY <2>2, <4>1 DEF Candidate
      <3>2. QED  BY <2>1, <3>1, MatchingAssumption
    <2>5. ValidShape(m)
      BY <2>1, <2>2, <2>4 DEF ValidShape, Unknown, Ambiguous, Found, Candidate
    <2>6. /\ m.status = "unknown" <=> best[first] < Threshold
          /\ m.status = "found" =>
                /\ best[first] >= Threshold /\ m.matched = first
                /\ others # {} => best[first] - best[second] >= Margin
          /\ m.status # "found" =>
                \/ best[first] < Threshold
                \/ others # {} /\ best[first] - best[second] < Margin
      <3>1. CASE best[first] < Threshold
        BY <2>1, <3>1 DEF Unknown
      <3>2. CASE ~(best[first] < Threshold) /\ others # {} /\ best[first] - best[second] < Margin
        BY <2>1, <3>2 DEF Ambiguous
      <3>3. CASE ~(best[first] < Threshold) /\ ~(others # {} /\ best[first] - best[second] < Margin)
        <4>1. m = Found(Of(first))
          BY <2>1, <3>3
        <4>2. m.status = "found" /\ m.matched = first
          BY <4>1 DEF Found, Candidate
        <4>3. best[first] >= Threshold
          BY <2>1, <2>2, <2>4, <3>3
        <4>4. ASSUME others # {} PROVE best[first] - best[second] >= Margin
          <5>1. best[first] \in Int /\ best[second] \in Int
            BY <2>1, <2>2, <4>4
          <5>2. QED  BY <2>4, <3>3, <4>4, <5>1
        <4>5. QED  BY <3>3, <4>2, <4>3, <4>4
      <3>4. QED  BY <3>1, <3>2, <3>3
    <2>7. m.status = "found" => m.matched \in leaders
      <3> SUFFICES ASSUME m.status = "found" PROVE first \in DOMAIN best /\ Leads(first)
        BY <2>2, <2>6
      <3>1. PICK c \in Range(cs) : c.student = first /\ c.similarity = best[first]
        BY <2>1, <2>2
      <3>2. ASSUME NEW d \in Range(cs), d.student # first
            PROVE  c.similarity - d.similarity >= Margin /\ c.similarity >= d.similarity
        <4>1. d.student \in others /\ d.similarity <= best[d.student] /\ d.similarity \in Int
          BY <2>2, <2>3, <3>2
        <4>2. best[d.student] <= best[second] /\ best[second] \in Int /\ best[d.student] \in Int
          BY <2>1, <2>2, <4>1
        <4>3. best[first] - best[second] >= Margin /\ best[first] \in Int
          BY <2>1, <2>2, <2>6, <4>1
        <4>4. QED  BY <2>4, <3>1, <4>1, <4>2, <4>3
      <3>3. QED  BY <2>1, <2>6, <3>1, <3>2
    <2>8. ASSUME Margin > 0, leaders # {} PROVE m.status = "found"
      <3>1. PICK s \in leaders : TRUE
        BY <2>8
      <3>2. PICK c \in Range(cs) :
                /\ c.student = s /\ c.similarity >= Threshold
                /\ \A d \in Range(cs) :
                      d.student # s =>
                        c.similarity - d.similarity >= Margin /\ c.similarity >= d.similarity
        BY <3>1
      <3>3. \A t \in DOMAIN best : t # s => c.similarity - best[t] >= Margin
        BY <2>2, <3>2
      <3>4. s \in DOMAIN best /\ c.similarity <= best[s] /\ c.similarity \in Int
        BY <2>2, <2>3, <3>2
      <3>5. first = s
        BY <2>1, <2>2, <2>4, <2>8, <3>3, <3>4
      <3>6. best[first] >= Threshold
        BY <2>2, <2>4, <3>2, <3>4, <3>5
      <3>7. ASSUME others # {} PROVE ~(best[first] - best[second] < Margin)
        <4>1. second \in DOMAIN best /\ second # s
          BY <2>1, <3>5, <3>7
        <4>2. c.similarity - best[second] >= Margin /\ best[second] \in Int /\ best[s] \in Int
          BY <2>2, <3>3, <3>4, <4>1
        <4>3. QED  BY <2>4, <3>4, <3>5, <4>2
      <3>8. ~(best[first] < Threshold)
        BY <2>1, <2>2, <2>4, <3>6
      <3>9. QED  BY <2>6, <3>7, <3>8
    <2>9. m.status = "unknown" <=> \A c \in Range(cs) : c.similarity < Threshold
      <3>1. ASSUME best[first] < Threshold, NEW c \in Range(cs) PROVE c.similarity < Threshold
        <4>1. /\ c.similarity <= best[c.student] /\ best[c.student] <= best[first]
              /\ c.similarity \in Int /\ best[c.student] \in Int /\ best[first] \in Int
          BY <2>1, <2>2, <2>3
        <4>2. QED  BY <2>4, <3>1, <4>1
      <3>2. ASSUME \A c \in Range(cs) : c.similarity < Threshold PROVE best[first] < Threshold
        BY <2>1, <2>2, <3>2
      <3>3. QED  BY <2>6, <3>1, <3>2
    <2>10. QED  BY <2>5, <2>7, <2>8, <2>9
  <1>3. QED  BY <1>1, <1>2

\* An input of a kind has the shape of that kind.
LEMMA InputIs == DecisionsSpec => [](input \in Inputs)
  <1>1. DecisionsInit => input \in Inputs
    BY DEF DecisionsInit
  <1>2. input \in Inputs /\ [DecisionsNext]_<<input, rows, profile>> => (input \in Inputs)'
    BY DEF DecisionsNext
  <1>3. QED  BY <1>1, <1>2, PTL DEF DecisionsSpec

\* For any threshold, margin and list of embeddings: a student is named exactly
\* when it leads every other by the margin, whatever the order of the list.
THEOREM MatchesAreSafe == DecisionsSpec => []MatchIsSafe
  <1>1. input \in Inputs => MatchIsSafe
    <2> SUFFICES ASSUME input \in Inputs, input.kind = "match"
                 PROVE  SafeMatch(input.dimension, input.candidates)
      BY DEF MatchIsSafe
    <2>1. input.candidates \in Seq(CandidateRows)
      BY InputsAssumption DEF MatchInputs
    <2>2. QED  BY <2>1, SafeMatchHolds
  <1>2. QED  BY <1>1, InputIs, PTL

(***************************************************************************)
(* The offline rates.                                                      *)
(***************************************************************************)
LEMMA PositionsFinite ==
    ASSUME NEW S, NEW s \in Seq(S), NEW E \in SUBSET DOMAIN s
    PROVE  /\ IsFiniteSet(E) /\ Cardinality(E) \in Nat
           /\ \A F \in SUBSET E : Cardinality(F) <= Cardinality(E) /\ Cardinality(F) \in Nat
  <1>1. IsFiniteSet(DOMAIN s)
    <2>1. DOMAIN s = 1 .. Len(s) /\ Len(s) \in Nat
      OBVIOUS
    <2>2. QED  BY <2>1, FS_Interval
  <1>2. \A F \in SUBSET DOMAIN s : IsFiniteSet(F) /\ Cardinality(F) \in Nat
    BY <1>1, FS_Subset, FS_CardinalityType
  <1>3. \A F \in SUBSET E : Cardinality(F) <= Cardinality(E)
    BY <1>2, FS_Subset
  <1>4. QED  BY <1>2, <1>3

\* One candidate is named when it reaches the threshold.
LEMMA MatchOne ==
    ASSUME NEW dimension \in Nat, NEW c \in CandidateRows, c.dimension = dimension
    PROVE  Match(dimension, <<c>>).status = "found" <=> c.similarity >= Threshold
  <1> DEFINE cs     == <<c>>
             best   == BestPerStudent(cs)
             first  == Leader(best, DOMAIN best)
             others == DOMAIN best \ {first}
             second == Leader(best, others)
  <1>1. cs \in Seq(CandidateRows) /\ cs # <<>> /\ Range(cs) = {c}
    BY DEF Range
  <1>2. DOMAIN best = {c.student} /\ best[c.student] = c.similarity
    <2>1. /\ DOMAIN best = {d.student : d \in Range(cs)}
          /\ \A s \in DOMAIN best : \E d \in Range(cs) : d.student = s /\ d.similarity = best[s]
      BY <1>1, BestIs
    <2>2. QED  BY <1>1, <2>1
  <1>3. /\ first \in DOMAIN best
        /\ Match(dimension, cs) =
              IF best[first] < Threshold THEN Unknown(Candidate(first, best[first]))
              ELSE IF others # {} /\ best[first] - best[second] < Margin
              THEN Ambiguous(Candidate(first, best[first]), Candidate(second, best[second]))
              ELSE Found(Candidate(first, best[first]))
    BY <1>1, MatchIs
  <1> HIDE DEF cs, best, first, second
  <1>4. first = c.student /\ others = {} /\ best[first] = c.similarity
    BY <1>2, <1>3
  <1>5. c.similarity \in Int /\ Threshold \in Int
    BY MatchingAssumption DEF CandidateRows
  <1>6. Match(dimension, cs).status = "found" <=> c.similarity >= Threshold
    BY <1>3, <1>4, <1>5 DEF Found, Unknown
  <1>7. QED  BY <1>6 DEF cs

\* The first of two candidates reaches the threshold and is not behind the
\* second: the answer is ambiguous when the gap is below the margin.
LEMMA MatchTwo ==
    ASSUME NEW dimension \in Nat, NEW c \in CandidateRows, NEW d \in CandidateRows,
           c.dimension = dimension, d.dimension = dimension, c.student # d.student,
           c.similarity >= Threshold, c.similarity >= d.similarity
    PROVE  Match(dimension, <<c, d>>).status = "ambiguous" <=> c.similarity - d.similarity < Margin
  <1> DEFINE cs     == <<c, d>>
             best   == BestPerStudent(cs)
             first  == Leader(best, DOMAIN best)
             others == DOMAIN best \ {first}
             second == Leader(best, others)
  <1>1. cs \in Seq(CandidateRows) /\ cs # <<>> /\ Range(cs) = {c, d}
    BY DEF Range
  <1>2. /\ DOMAIN best = {c.student, d.student}
        /\ best[c.student] = c.similarity /\ best[d.student] = d.similarity
    <2>1. /\ DOMAIN best = {e.student : e \in Range(cs)}
          /\ \A s \in DOMAIN best : \E e \in Range(cs) : e.student = s /\ e.similarity = best[s]
      BY <1>1, BestIs
    <2> HIDE DEF best, cs
    <2>2. QED  BY <1>1, <2>1
  <1>3. /\ first \in DOMAIN best /\ \A t \in DOMAIN best : best[t] <= best[first]
        /\ others # {} => second \in others
        /\ Match(dimension, cs) =
              IF best[first] < Threshold THEN Unknown(Candidate(first, best[first]))
              ELSE IF others # {} /\ best[first] - best[second] < Margin
              THEN Ambiguous(Candidate(first, best[first]), Candidate(second, best[second]))
              ELSE Found(Candidate(first, best[first]))
    BY <1>1, MatchIs
  <1> HIDE DEF cs, best, first, second
  <1>4. c.similarity \in Int /\ d.similarity \in Int /\ Threshold \in Int /\ Margin \in Nat
    BY MatchingAssumption DEF CandidateRows
  <1>5. /\ others # {} /\ best[first] >= Threshold
        /\ best[first] - best[second] = c.similarity - d.similarity
    <2>1. CASE first = c.student
      <3>1. others = {d.student} /\ second = d.student
        BY <1>2, <1>3, <2>1
      <3>2. QED  BY <1>2, <1>4, <2>1, <3>1
    <2>2. CASE first = d.student
      <3>1. others = {c.student} /\ second = c.student
        BY <1>2, <1>3, <2>2
      <3>2. best[c.student] <= best[d.student]
        BY <1>2, <1>3, <2>2
      <3>3. QED  BY <1>2, <1>4, <2>2, <3>1, <3>2
    <2>3. QED  BY <1>2, <1>3, <2>1, <2>2
  <1>6. Match(dimension, cs).status = "ambiguous" <=> best[first] - best[second] < Margin
    <2>1. best[first] \in Int
      BY <1>2, <1>3, <1>4
    <2>2. ~(best[first] < Threshold)
      BY <1>4, <1>5, <2>1
    <2>3. QED  BY <1>3, <1>5, <2>2 DEF Found, Ambiguous
  <1>7. QED  BY <1>5, <1>6 DEF cs

LEMMA RatesMatchHold ==
    ASSUME NEW dimension \in Nat, NEW pairs \in Seq([genuine : BOOLEAN, similarity : Int])
    PROVE  RatesMatch(dimension, pairs)
  <1> DEFINE Offered(s, p) == [student |-> s, dimension |-> dimension, similarity |-> p.similarity]
             Named(p) == Match(dimension, <<Offered(1, p)>>).status = "found"
             TooClose(p, q) == AmbiguityRate(<<<<p.similarity, q.similarity>>>>)[1] = 1
             named == {i \in DOMAIN pairs : Named(pairs[i])}
             Far(t) == Rate(FalseAccepts(pairs, t), Impostors(pairs))
             Frr(t) == Rate(FalseRejects(pairs, t), Genuine(pairs))
  <1>1. Threshold \in Int /\ Margin \in Nat
    BY MatchingAssumption
  <1>2. /\ \A i \in DOMAIN pairs : pairs[i].similarity \in Int /\ pairs[i].genuine \in BOOLEAN
        /\ \A p \in Range(pairs) : p.similarity \in Int
    <2> DEFINE P == [genuine : BOOLEAN, similarity : Int]
    <2>1. \A p \in P : p.similarity \in Int /\ p.genuine \in BOOLEAN
      OBVIOUS
    <2> HIDE DEF P
    <2>2. pairs \in Seq(P)
      BY DEF P
    <2>3. \A i \in DOMAIN pairs : pairs[i] \in P
      BY <2>2
    <2>4. QED  BY <2>1, <2>3 DEF Range
  <1>3. \A i \in DOMAIN pairs : Named(pairs[i]) <=> pairs[i].similarity >= Threshold
    <2> TAKE i \in DOMAIN pairs
    <2>1. Offered(1, pairs[i]) \in CandidateRows
      BY <1>2 DEF CandidateRows
    <2> DEFINE c == Offered(1, pairs[i])
    <2>2. c.dimension = dimension /\ c.similarity = pairs[i].similarity
      OBVIOUS
    <2> HIDE DEF c
    <2>3. Match(dimension, <<c>>).status = "found" <=> c.similarity >= Threshold
      BY <2>1, <2>2, MatchOne DEF c
    <2>4. QED  BY <2>2, <2>3 DEF c
  <1> HIDE DEF Named
  <1>4. /\ FalseAccepts(pairs, Threshold) = Impostors(pairs) \cap named
        /\ FalseRejects(pairs, Threshold) = Genuine(pairs) \ named
    BY <1>1, <1>2, <1>3 DEF FalseAccepts, FalseRejects, Impostors, Genuine
  <1>5. \A t : /\ FalseAccepts(pairs, t) \subseteq Impostors(pairs)
              /\ FalseRejects(pairs, t) \subseteq Genuine(pairs)
              /\ Impostors(pairs) \subseteq DOMAIN pairs /\ Genuine(pairs) \subseteq DOMAIN pairs
    BY DEF FalseAccepts, FalseRejects, Impostors, Genuine
  <1>6. /\ FalseAccepts(pairs, Threshold + 1) \subseteq FalseAccepts(pairs, Threshold)
        /\ FalseRejects(pairs, Threshold) \subseteq FalseRejects(pairs, Threshold + 1)
    BY <1>1, <1>2 DEF FalseAccepts, FalseRejects, Impostors, Genuine
  <1>7. \A E, F \in SUBSET DOMAIN pairs : E \subseteq F =>
            Cardinality(E) <= Cardinality(F) /\ Cardinality(E) \in Nat /\ Cardinality(F) \in Nat
    BY PositionsFinite
  <1>8. Cardinality({}) = 0
    BY FS_EmptySet
  <1>9. \A E, F \in SUBSET DOMAIN pairs : E \subseteq F =>
            Rate(E, F)[1] = Cardinality(E) /\ Rate(E, F)[1] <= Rate(E, F)[2]
    <2> TAKE E, F \in SUBSET DOMAIN pairs
    <2>1. HAVE E \subseteq F
    <2>2. CASE F = {}
      <3>1. E = {}
        BY <2>1, <2>2
      <3>2. Rate(E, F) = <<0, 1>>
        BY <2>2 DEF Rate
      <3>3. QED  BY <1>8, <3>1, <3>2
    <2>3. CASE F # {}
      BY <1>7, <2>1, <2>3 DEF Rate
    <2>4. QED  BY <2>2, <2>3
  <1>10. \A t : /\ Far(t)[1] = Cardinality(FalseAccepts(pairs, t)) /\ Far(t)[1] <= Far(t)[2]
               /\ Frr(t)[1] = Cardinality(FalseRejects(pairs, t)) /\ Frr(t)[1] <= Frr(t)[2]
    BY <1>5, <1>9
  <1> HIDE DEF Far, Frr
  <1>11. \A t : FarFrr(pairs, t).far = Far(t) /\ FarFrr(pairs, t).frr = Frr(t)
    BY DEF FarFrr, Far, Frr
  <1>12. /\ ThresholdSweep(pairs, <<Threshold, Threshold + 1>>)[1] = FarFrr(pairs, Threshold)
         /\ ThresholdSweep(pairs, <<Threshold, Threshold + 1>>)[2] = FarFrr(pairs, Threshold + 1)
    BY DEF ThresholdSweep
  <1>13. Far(Threshold + 1)[1] <= Far(Threshold)[1] /\ Frr(Threshold)[1] <= Frr(Threshold + 1)[1]
    BY <1>5, <1>6, <1>7, <1>10
  <1>14. ASSUME NEW p \in Range(pairs), NEW q \in Range(pairs),
                p.similarity >= Threshold, p.similarity >= q.similarity
         PROVE  TooClose(p, q)
                    <=> Match(dimension, <<Offered(1, p), Offered(2, q)>>).status = "ambiguous"
    <2>1. p.similarity \in Int /\ q.similarity \in Int
      BY <1>2
    <2> DEFINE c == Offered(1, p)
               d == Offered(2, q)
    <2>2. /\ c \in CandidateRows /\ d \in CandidateRows /\ c.student # d.student
          /\ c.dimension = dimension /\ d.dimension = dimension
          /\ c.similarity = p.similarity /\ d.similarity = q.similarity
      BY <2>1 DEF CandidateRows
    <2> HIDE DEF c, d
    <2>3. Match(dimension, <<c, d>>).status = "ambiguous" <=> p.similarity - q.similarity < Margin
      BY <1>14, <2>2, MatchTwo
    <2>4. TooClose(p, q) <=> p.similarity - q.similarity < Margin
      <3> DEFINE tops   == <<<<p.similarity, q.similarity>>>>
                 events == {i \in DOMAIN tops : tops[i][1] - tops[i][2] < Margin}
      <3>1. DOMAIN tops = {1} /\ tops[1][1] = p.similarity /\ tops[1][2] = q.similarity
        OBVIOUS
      <3>2. AmbiguityRate(tops)[1] = Cardinality(events)
        BY <3>1 DEF AmbiguityRate, Rate
      <3> HIDE DEF tops
      <3>3. CASE p.similarity - q.similarity < Margin
        <4>1. events = {1}
          BY <3>1, <3>3
        <4>2. Cardinality(events) = 1
          BY <4>1, FS_Singleton
        <4>3. QED  BY <3>2, <3>3, <4>2 DEF tops
      <3>4. CASE ~(p.similarity - q.similarity < Margin)
        <4>1. events = {}
          BY <3>1, <3>4
        <4>2. Cardinality(events) = 0
          BY <4>1, FS_EmptySet
        <4>3. QED  BY <3>2, <3>4, <4>2 DEF tops
      <3>5. QED  BY <3>3, <3>4
    <2>5. QED  BY <2>3, <2>4 DEF c, d
  <1>15. QED
    BY <1>4, <1>10, <1>11, <1>12, <1>13, <1>14 DEF RatesMatch, Named

\* For any threshold, margin and pairs: the rates an evaluation reports count what
\* the matcher does with the same scores.
THEOREM RatesAreTheMatchers == DecisionsSpec => []RatesDescribeMatcher
  <1>1. input \in Inputs => RatesDescribeMatcher
    <2> SUFFICES ASSUME input \in Inputs, input.kind = "pairs"
                 PROVE  RatesMatch(input.dimension, input.pairs)
      BY DEF RatesDescribeMatcher
    <2>1. /\ input.dimension \in Nat
          /\ input.pairs \in Seq([genuine : BOOLEAN, similarity : Int])
      BY InputsAssumption DEF PairInputs
    <2>2. QED  BY <2>1, RatesMatchHold
  <1>2. QED  BY <1>1, InputIs, PTL

(***************************************************************************)
(* Detected faces.                                                         *)
(***************************************************************************)
\* Rounding moves a coordinate by at most half a pixel.
LEMMA RoundIs ==
    ASSUME NEW h \in Int
    PROVE  Round(h) \in Int /\ 2 * Round(h) \in h - 1 .. h + 1
  BY DEF Round

LEMMA FitsImageHolds ==
    ASSUME NEW v \in Int \cup {NotFinite}, NEW extent \in Int \cup {NotFinite},
           NEW size \in 1 .. MaxDimension
    PROVE  FitsImage(v, extent, size)
  <1> DEFINE start   == Clamp(v, 0, 2 * size)
             end     == Clamp(Plus(v, extent), 0, 2 * size)
             rounded == Round(end - start)
             clipped == Larger(1, rounded)
             at      == Larger(0, Smaller(Round(start), size - clipped))
  <1>1. size \in Int /\ size >= 1 /\ size <= MaxDimension /\ MaxDimension \in Int
    BY PipelineAssumption
  <1>2. start \in 0 .. 2 * size /\ end \in 0 .. 2 * size
    <2>1. Plus(v, extent) \in Int \cup {NotFinite}
      BY DEF Plus
    <2>2. 2 * size \in Int /\ 0 <= 2 * size
      BY <1>1
    <2>3. QED  BY <2>1, <2>2 DEF Clamp, Larger, Smaller
  <1> HIDE DEF start, end
  <1>3. rounded \in Int /\ rounded <= size
    <2>1. end - start \in Int /\ end - start <= 2 * size
      BY <1>1, <1>2
    <2>2. rounded \in Int /\ 2 * rounded <= end - start + 1
      BY <2>1, RoundIs
    <2> HIDE DEF rounded
    <2>3. 2 * rounded <= 2 * size + 1
      BY <1>1, <1>2, <2>1, <2>2
    <2>4. QED  BY <1>1, <2>2, <2>3
  <1> HIDE DEF rounded
  <1>4. clipped \in 1 .. size
    BY <1>1, <1>3 DEF Larger
  <1> HIDE DEF clipped
  <1>5. Round(start) \in Int
    BY <1>2, RoundIs
  <1>6. at \in Int /\ at >= 0 /\ at + clipped <= size
    BY <1>1, <1>4, <1>5 DEF Larger, Smaller
  <1> HIDE DEF at
  <1>7. Box(v, extent, size) = [at |-> at, extent |-> clipped]
    BY DEF Box, start, end, rounded, clipped, at
  <1>8. Landmark(v, size) \in 0 .. 2 * (size - 1)
    <2>1. 2 * (size - 1) \in Int /\ 0 <= 2 * (size - 1)
      BY <1>1
    <2>2. QED  BY <2>1 DEF Landmark, Clamp, Larger, Smaller
  <1>9. Confidence(v) \in 0 .. 2
    BY DEF Confidence, Clamp, Larger, Smaller
  <1>10. clipped \in 1 .. MaxDimension
    BY <1>1, <1>4
  <1>11. Landmark(v, size) # NotFinite
    BY <1>1, <1>8, PipelineAssumption
  <1>12. QED
    BY <1>6, <1>7, <1>8, <1>9, <1>10, <1>11 DEF FitsImage, ValidFace, ValidBox, ValidLandmark

\* Whatever finite or non-finite numbers the detector reports for whatever image,
\* a row becomes a face the value objects accept.
THEOREM DetectionsAlwaysFit == DecisionsSpec => []DetectionsFitImage
  <1>1. input \in Inputs => DetectionsFitImage
    <2> SUFFICES ASSUME input \in Inputs, input.kind = "box"
                 PROVE  FitsImage(input.at, input.extent, input.size)
      BY DEF DetectionsFitImage
    <2>1. /\ input.at \in Int \cup {NotFinite} /\ input.extent \in Int \cup {NotFinite}
          /\ input.size \in 1 .. MaxDimension
      BY InputsAssumption DEF BoxInputs
    <2>2. QED  BY <2>1, FitsImageHolds
  <1>2. QED  BY <1>1, InputIs, PTL

(***************************************************************************)
(* Stored embeddings.                                                      *)
(***************************************************************************)
\* g runs through V from base, by the steps F.
Solves(g, n, V, base, F) ==
    /\ g \in [0 .. n -> V]
    /\ \A i \in 0 .. n : g[i] = IF i = 0 THEN base ELSE F[i][g[i - 1]]

\* A recursion over the positions of a list has a solution, with a value at each
\* of them: otherwise there would be a first position up to which it has none.
LEMMA RecursionExists ==
    ASSUME NEW n \in Nat, NEW V, NEW base \in V, NEW F \in [1 .. n -> [V -> V]]
    PROVE  \E g : Solves(g, n, V, base, F)
  <1> DEFINE Solved(k) == \E g : Solves(g, k, V, base, F)
             Bad == {k \in 0 .. n : ~Solved(k)}
  <1>1. ASSUME Bad # {} PROVE FALSE
    <2>1. Bad \in SUBSET Nat
      OBVIOUS
    <2>2. PICK k \in Bad : \A m \in Bad : k <= m
      <3> HIDE DEF Bad
      <3>1. QED  BY <1>1, <2>1, LeastOf
    <2>3. k # 0
      <3>1. Solved(0)
        <4>1. [i \in 0 .. 0 |-> base] \in [0 .. 0 -> V]
          OBVIOUS
        <4>2. \A i \in 0 .. 0 : [j \in 0 .. 0 |-> base][i] = base /\ i = 0
          OBVIOUS
        <4>3. QED  BY <4>1, <4>2 DEF Solves
      <3> HIDE DEF Solved
      <3>2. QED  BY <3>1
    <2>4. k - 1 \in 0 .. n /\ k - 1 \notin Bad /\ k \in 1 .. n
      <3>1. k \in 0 .. n
        OBVIOUS
      <3> HIDE DEF Bad
      <3>2. QED  BY <2>2, <2>3, <3>1
    <2>5. Solved(k - 1)
      <3> HIDE DEF Solved
      <3>1. QED  BY <2>4
    <2>6. PICK g \in [0 .. k - 1 -> V] :
              \A i \in 0 .. k - 1 : g[i] = IF i = 0 THEN base ELSE F[i][g[i - 1]]
      BY <2>5 DEF Solves
    <2>7. g[k - 1] \in V
      BY <2>4
    <2>8. F[k][g[k - 1]] \in V
      BY <2>4, <2>7
    <2> DEFINE h == [i \in 0 .. k |-> IF i = k THEN F[k][g[k - 1]] ELSE g[i]]
    <2>9. h \in [0 .. k -> V]
      <3>1. \A i \in 0 .. k : i = k \/ i \in 0 .. k - 1
        BY <2>4
      <3>2. QED  BY <2>6, <2>8, <3>1
    <2>10. \A i \in 0 .. k : h[i] = IF i = 0 THEN base ELSE F[i][h[i - 1]]
      <3> TAKE i \in 0 .. k
      <3>1. CASE i = k
        BY <2>4, <3>1
      <3>2. CASE i # k
        <4>1. i \in 0 .. k - 1 /\ (i # 0 => i - 1 \in 0 .. k - 1)
          BY <2>4, <3>2
        <4>2. QED  BY <2>4, <2>6, <3>2, <4>1
      <3>3. QED  BY <3>1, <3>2
    <2> HIDE DEF h
    <2>11. Solved(k)
      BY <2>9, <2>10 DEF Solves
    <2> HIDE DEF Solved
    <2>12. QED  BY <2>11
  <1>2. Solved(n)
    <2> HIDE DEF Solved
    <2>1. QED  BY <1>1
  <1>3. QED  BY <1>2

\* What holds at the start and is kept from each position to the next holds
\* everywhere.
LEMMA StepsStayIn ==
    ASSUME NEW n \in Nat, NEW V, NEW g,
           g[0] \in V, \A i \in 1 .. n : g[i - 1] \in V => g[i] \in V
    PROVE  \A i \in 0 .. n : g[i] \in V
  <1> DEFINE Bad == {i \in 0 .. n : g[i] \notin V}
  <1>1. ASSUME Bad # {} PROVE FALSE
    <2>1. Bad \in SUBSET Nat
      OBVIOUS
    <2>2. PICK k \in Bad : \A m \in Bad : k <= m
      <3> HIDE DEF Bad
      <3>1. QED  BY <1>1, <2>1, LeastOf
    <2>3. k \in 0 .. n /\ g[k] \notin V
      OBVIOUS
    <2>4. k \in 1 .. n /\ k - 1 \in 0 .. n
      BY <2>3
    <2>5. k - 1 \notin Bad
      <3> HIDE DEF Bad
      <3>1. QED  BY <2>2, <2>4
    <2>6. g[k - 1] \in V
      BY <2>4, <2>5
    <2>7. QED  BY <2>3, <2>4, <2>6
  <1>2. QED  BY <1>1

\* The recursion of SquaredNorm has a value for every vector of numbers, and the
\* value is not negative.
LEMMA NormIs ==
    ASSUME NEW values \in Seq(Int)
    PROVE  SquaredNorm(values) \in Nat
  <1> DEFINE n == Len(values)
             F == [i \in 1 .. n |-> [y \in Nat |-> y + values[i] * values[i]]]
             Step(g) == [i \in 0 .. n |-> IF i = 0 THEN 0 ELSE g[i - 1] + values[i] * values[i]]
             sum == CHOOSE g : g = Step(g)
  <1>1. n \in Nat /\ values \in [1 .. n -> Int]
    OBVIOUS
  <1>2. SquaredNorm(values) = sum[n]
    BY DEF SquaredNorm
  <1> HIDE DEF n
  <1>3. F \in [1 .. n -> [Nat -> Nat]]
    <2>1. \A x \in Int, y \in Nat : y + x * x \in Nat
      OBVIOUS
    <2>2. \A i \in 1 .. n, y \in Nat : y + values[i] * values[i] \in Nat
      BY <1>1, <2>1
    <2>3. QED  BY <2>2
  <1>4. \A i \in 1 .. n, y \in Nat : F[i][y] = y + values[i] * values[i]
    OBVIOUS
  <1> HIDE DEF F
  <1>5. PICK g : Solves(g, n, Nat, 0, F)
    BY <1>1, <1>3, RecursionExists
  <1>6. g = Step(g)
    <2>1. \A i \in 0 .. n : i = 0 \/ (i \in 1 .. n /\ i - 1 \in 0 .. n)
      BY <1>1
    <2>2. \A i \in 0 .. n : i # 0 => F[i][g[i - 1]] = g[i - 1] + values[i] * values[i]
      BY <1>4, <1>5, <2>1 DEF Solves
    <2>3. QED  BY <1>5, <2>2 DEF Solves
  <1>7. sum = Step(sum)
    <2> HIDE DEF Step
    <2>1. QED  BY <1>6
  <1> HIDE DEF sum
  <1>8. \A i \in 0 .. n : sum[i] = IF i = 0 THEN 0 ELSE sum[i - 1] + values[i] * values[i]
    BY <1>7
  <1>9. sum[0] \in Nat /\ \A i \in 1 .. n : sum[i - 1] \in Nat => sum[i] \in Nat
    <2>1. \A x \in Int, y \in Nat : y + x * x \in Nat
      OBVIOUS
    <2>2. \A i \in 1 .. n : i \in 0 .. n /\ i # 0 /\ values[i] \in Int
      BY <1>1
    <2>3. \A i \in 1 .. n : sum[i] = sum[i - 1] + values[i] * values[i]
      BY <1>8, <2>2, Zenon
    <2>4. sum[0] = 0
      BY <1>1, <1>8
    <2>5. \A i \in 1 .. n : sum[i - 1] \in Nat => sum[i - 1] + values[i] * values[i] \in Nat
      BY <2>1, <2>2, Zenon
    <2>6. \A i \in 1 .. n : sum[i - 1] \in Nat => sum[i] \in Nat
      BY <2>3, <2>5, Zenon
    <2>7. QED  BY <2>4, <2>6
  <1>10. sum[n] \in Nat
    <2>1. \A i \in 0 .. n : sum[i] \in Nat
      BY <1>1, <1>9, StepsStayIn
    <2>2. QED  BY <1>1, <2>1
  <1>11. QED  BY <1>2, <1>10 DEF n

LEMMA ComparableIfStoredHolds ==
    ASSUME NEW models \in Models,
           NEW image \in [stored : BOOLEAN, decodes : BOOLEAN, width : Int, height : Int]
    PROVE  ComparableIfStored(models, image)
  <1> DEFINE raw      == models.descriptor
             decoded  == Decode(image)
             detected == Detect(models, decoded)
  <1>1. \A e : Failed(Raise(e)) /\ Raise(e).error = e
    BY DEF Failed, Raise
  <1>2. /\ models.detector \in Loading /\ models.embedder \in Loading
        /\ models.faces \in Seq([landmarks : Nat, estimable : BOOLEAN])
        /\ raw \in Seq(Int \cup {NotFinite})
    BY DEF Models
  <1>3. Failed(decoded) => decoded.error # "EnrollmentSampleNoFaceDetected"
    BY <1>1 DEF Decode, Failed
  <1>4. /\ Failed(detected) => detected.error # "EnrollmentSampleNoFaceDetected"
        /\ ~Failed(detected) => detected.faces = models.faces
    BY <1>1, <1>2 DEF Detect, Loading, Failed
  <1>5. \A face : /\ Failed(Align(face)) => Align(face).error # "EnrollmentSampleNoFaceDetected"
                  /\ ~Failed(Align(face)) => face.landmarks = LandmarkCount
    BY <1>1 DEF Align, Failed
  <1>6. /\ Failed(Embed(models)) => Embed(models).error # "EnrollmentSampleNoFaceDetected"
        /\ ~Failed(Embed(models)) => /\ ValidEmbedding(raw) /\ SquaredNorm(raw) # 0
                                     /\ Len(raw) = Dimension
                                     /\ Embed(models).values = raw
                                     /\ Embed(models).over = SquaredNorm(raw)
    BY <1>1, <1>2 DEF Embed, Usable, Normalized, Loading, Failed
  <1>7. \A e : ReasonCode(e) = "zero_faces_detected" => e = "EnrollmentSampleNoFaceDetected"
    BY DEF ReasonCode
  <1> HIDE DEF decoded, detected, raw
  <1> DEFINE result == Pipeline(models, image)
  <1>8. result = IF Failed(decoded) THEN decoded
                 ELSE IF Failed(detected) THEN detected
                 ELSE IF detected.faces = <<>> THEN Raise("EnrollmentSampleNoFaceDetected")
                 ELSE IF Len(detected.faces) > 1
                      THEN Raise("EnrollmentSampleMultipleFacesDetected")
                 ELSE IF Failed(Align(detected.faces[1])) THEN Align(detected.faces[1])
                 ELSE Embed(models)
    BY DEF Pipeline, DetectAlignEmbed, decoded, detected
  <1> HIDE DEF result
  <1>9. CASE Failed(result)
    <2>1. result.error = "EnrollmentSampleNoFaceDetected" => models.faces = <<>>
      BY <1>1, <1>3, <1>4, <1>5, <1>6, <1>8, <1>9
    <2>2. QED  BY <1>7, <1>9, <2>1 DEF ComparableIfStored, result
  <1>10. CASE ~Failed(result)
    <2>1. /\ ~Failed(detected) /\ detected.faces # <<>> /\ ~(Len(detected.faces) > 1)
          /\ ~Failed(Align(detected.faces[1])) /\ ~Failed(Embed(models)) /\ result = Embed(models)
      BY <1>1, <1>8, <1>10
    <2>2. Len(models.faces) = 1 /\ models.faces[1].landmarks = LandmarkCount
      <3>1. Len(models.faces) = 1 /\ detected.faces = models.faces
        <4>1. detected.faces = models.faces
          BY <1>4, <2>1
        <4>2. Len(models.faces) \in Nat /\ Len(models.faces) # 0
          BY <1>2, <2>1, <4>1
        <4>3. ~(Len(models.faces) > 1)
          BY <2>1, <4>1
        <4>4. \A k \in Nat : k # 0 /\ ~(k > 1) => k = 1
          OBVIOUS
        <4>5. Len(models.faces) = 1
          BY ONLY <4>2, <4>3, <4>4
        <4>6. QED  BY <4>1, <4>5
      <3>2. models.faces[1].landmarks = LandmarkCount
        <4>1. ~Failed(Align(models.faces[1]))
          BY <2>1, <3>1
        <4>2. QED  BY <1>5, <4>1
      <3>3. QED  BY <3>1, <3>2
    <2>3. ValidEmbedding(raw) /\ SquaredNorm(raw) # 0 /\ Len(raw) = Dimension
      BY <1>6, <2>1
    <2>4. raw \in Seq(Int)
      BY <1>2, <2>3 DEF ValidEmbedding
    <2>5. SquaredNorm(raw) \in Nat
      BY <2>4, NormIs
    <2>6. /\ ValidEmbedding(result.values) /\ result.over > 0 /\ Len(result.values) = Dimension
      BY <1>6, <2>1, <2>3, <2>5
    <2>7. QED  BY <1>10, <2>2, <2>6 DEF ComparableIfStored, result
  <1>11. QED  BY <1>9, <1>10

\* Whatever the models answer for a photo of whatever size, an embedding comes from
\* exactly one aligned face and has a length to be normalized by, and the reason
\* code for no face is given only when the detector found none.
THEOREM StoredEmbeddingsAreComparable == DecisionsSpec => []StoredEmbeddingsComparable
  <1>1. input \in Inputs => StoredEmbeddingsComparable
    <2> SUFFICES ASSUME input \in Inputs, input.kind = "photo"
                 PROVE  ComparableIfStored(input.models, input.image)
      BY DEF StoredEmbeddingsComparable
    <2>1. /\ input.models \in Models
          /\ input.image \in [stored : BOOLEAN, decodes : BOOLEAN, width : Int, height : Int]
      BY InputsAssumption DEF PhotoInputs
    <2>2. QED  BY <2>1, ComparableIfStoredHolds
  <1>2. QED  BY <1>1, InputIs, PTL

(***************************************************************************)
(* Accepted images.                                                        *)
(***************************************************************************)
\* The checks of an upload find nothing exactly when every one of them passes.
LEMMA FirstIs ==
    ASSUME NEW n \in Nat, NEW stages, DOMAIN stages = 1 .. n
    PROVE  First(stages) = {} <=> \A i \in 1 .. n : stages[i] = {}
  <1> DEFINE failing == {i \in DOMAIN stages : stages[i] # {}}
  <1>1. First(stages) = IF failing = {} THEN {} ELSE stages[Min(failing)]
    BY DEF First
  <1>2. \A i \in failing : i \in 1 .. n /\ stages[i] # {}
    OBVIOUS
  <1>3. \A i \in 1 .. n : i \notin failing => stages[i] = {}
    OBVIOUS
  <1>4. failing \in SUBSET Nat
    OBVIOUS
  <1> HIDE DEF failing
  <1>5. CASE failing = {}
    BY <1>1, <1>3, <1>5
  <1>6. CASE failing # {}
    <2>1. \E i \in failing : \A j \in failing : i <= j
      BY <1>4, <1>6, LeastOf
    <2>2. Min(failing) \in failing
      BY <2>1 DEF Min
    <2>3. QED  BY <1>1, <1>2, <1>6, <2>2
  <1>7. QED  BY <1>5, <1>6

LEMMA OversizedIs ==
    ASSUME NEW size \in Int \X Int, Oversized(size[1], size[2]) = {}
    PROVE  size[1] \in 1 .. MaxSide /\ size[2] \in 1 .. MaxSide /\ size[1] * size[2] <= MaxPixels
  BY LimitsAssumption DEF Oversized, LimitsAreNatural

\* What an image passes whatever type is claimed for it.
Acceptable(image) ==
    /\ image.bytes # 0 /\ ~(image.frames > 1) /\ image.format \in Formats
    /\ image.header = "ok" /\ image.stream = "ok" /\ image.body = "ok"
    /\ Oversized(image.declared[1], image.declared[2]) = {}
    /\ Oversized(image.size[1], image.size[2]) = {}

\* An image is rejected unless it passes every check, the last of the claimed type.
LEMMA RejectionIs ==
    ASSUME NEW image, NEW type
    PROVE  Rejection(image, type) = {} <=>
              Acceptable(image) /\ Claims(type) \subseteq {image.format}
  <1> DEFINE stages ==
          <<IF image.bytes = 0 THEN {"empty"} ELSE {},
            Opened(image.header),
            Declared(image),
            Opened(image.stream),
            Opened(image.body),
            IF image.format \in Formats THEN {} ELSE {"format"},
            Oversized(image.size[1], image.size[2]),
            IF image.frames > 1 THEN {"animated"} ELSE {},
            IF Claims(type) \subseteq {image.format} THEN {} ELSE {"mime_mismatch"}>>
  <1>1. DOMAIN stages = 1 .. 9
    OBVIOUS
  <1>2. Rejection(image, type) = First(stages)
    BY DEF Rejection
  <1>3. /\ stages[1] = IF image.bytes = 0 THEN {"empty"} ELSE {}
        /\ stages[2] = Opened(image.header) /\ stages[3] = Declared(image)
        /\ stages[4] = Opened(image.stream) /\ stages[5] = Opened(image.body)
        /\ stages[6] = IF image.format \in Formats THEN {} ELSE {"format"}
        /\ stages[7] = Oversized(image.size[1], image.size[2])
        /\ stages[8] = IF image.frames > 1 THEN {"animated"} ELSE {}
        /\ stages[9] = IF Claims(type) \subseteq {image.format} THEN {} ELSE {"mime_mismatch"}
    OBVIOUS
  <1> HIDE DEF stages
  <1>4. First(stages) = {} <=> \A i \in 1 .. 9 : stages[i] = {}
    BY <1>1, FirstIs
  <1>5. \A i \in 1 .. 9 : i \in {1, 2, 3, 4, 5, 6, 7, 8, 9}
    OBVIOUS
  <1>6. \A outcome : Opened(outcome) = {} <=> outcome = "ok"
    BY DEF Opened
  <1>7. (\A i \in 1 .. 9 : stages[i] = {}) <=>
           /\ stages[1] = {} /\ stages[2] = {} /\ stages[3] = {} /\ stages[4] = {}
           /\ stages[5] = {} /\ stages[6] = {} /\ stages[7] = {} /\ stages[8] = {}
           /\ stages[9] = {}
    BY <1>5
  <1>8. /\ stages[1] = {} <=> image.bytes # 0
        /\ stages[6] = {} <=> image.format \in Formats
        /\ stages[8] = {} <=> ~(image.frames > 1)
        /\ stages[9] = {} <=> Claims(type) \subseteq {image.format}
    BY <1>3
  <1>9. /\ stages[2] = {} <=> image.header = "ok"
        /\ stages[3] = {} <=> Oversized(image.declared[1], image.declared[2]) = {}
        /\ stages[4] = {} <=> image.stream = "ok"
        /\ stages[5] = {} <=> image.body = "ok"
        /\ stages[7] = {} <=> Oversized(image.size[1], image.size[2]) = {}
    BY <1>3, <1>6 DEF Declared
  <1>10. QED  BY <1>2, <1>4, <1>7, <1>8, <1>9 DEF Acceptable

\* The two vocabularies lose no rejection.
LEMMA TranslatedIs ==
    ASSUME NEW image, NEW type
    PROVE  /\ ValidateImageFile(image, type) = {} <=> Rejection(image, type) = {}
           /\ ValidateProbe(image, type) = {} <=> Rejection(image, type) = {}
  <1>1. CASE Rejection(image, type) = {}
    <2>1. ValidateImageFile(image, type) = {}
      BY <1>1 DEF ValidateImageFile
    <2>2. ValidateProbe(image, type) = {}
      BY <1>1 DEF ValidateProbe
    <2>3. QED  BY <1>1, <2>1, <2>2
  <1>2. ASSUME NEW k \in Rejection(image, type)
        PROVE  /\ EnrollmentErrors[k] \in ValidateImageFile(image, type)
               /\ ProbeErrors[k] \in ValidateProbe(image, type)
    <2>1. EnrollmentErrors[k] \in ValidateImageFile(image, type)
      BY <1>2 DEF ValidateImageFile
    <2>2. ProbeErrors[k] \in ValidateProbe(image, type)
      BY <1>2 DEF ValidateProbe
    <2>3. QED  BY <2>1, <2>2
  <1>3. QED  BY <1>1, <1>2

\* Each way in applies its limit on the bytes and the common checks.
LEMMA WaysIn ==
    ASSUME NEW image, NEW type
    PROVE  /\ UploadSample(image, type) = {} <=>
                  /\ ~(image.bytes > MaxImageBytes) /\ Acceptable(image)
                  /\ Claims(type) \subseteq {image.format}
           /\ StageMember(image) = {} <=> ~(image.bytes > MaxImageBytes) /\ Acceptable(image)
           /\ ReceiveProbe(image, type) = {} <=>
                  /\ ~(image.bytes > MaxProbeBytes) /\ Acceptable(image)
                  /\ Claims(type) \subseteq {image.format}
  <1>1. Claims("") = {}
    BY DEF Claims
  <1>2. /\ ValidateImageFile(image, type) = {} <=>
               Acceptable(image) /\ Claims(type) \subseteq {image.format}
        /\ ValidateProbe(image, type) = {} <=>
               Acceptable(image) /\ Claims(type) \subseteq {image.format}
        /\ ValidateImageFile(image, "") = {} <=> Acceptable(image)
    BY <1>1, RejectionIs, TranslatedIs
  <1>3. UploadSample(image, type) = {} <=>
           ~(image.bytes > MaxImageBytes) /\ ValidateImageFile(image, type) = {}
    BY DEF UploadSample
  <1>4. StageMember(image) = {} <=>
           ~(image.bytes > MaxImageBytes) /\ ValidateImageFile(image, "") = {}
    BY DEF StageMember
  <1>5. ReceiveProbe(image, type) = {} <=>
           ~(image.bytes > MaxProbeBytes) /\ ValidateProbe(image, type) = {}
    BY DEF ReceiveProbe
  <1>6. QED  BY <1>2, <1>3, <1>4, <1>5

LEMMA BoundedIfAcceptedHolds ==
    ASSUME NEW image \in [bytes : Nat, header : Outcomes, declared : Int \X Int,
                          stream : Outcomes, body : Outcomes, format : STRING,
                          size : Int \X Int, frames : Nat \ {0}],
           NEW type
    PROVE  BoundedIfAccepted(image, type)
  <1>1. image.bytes \in Nat /\ image.frames \in Nat \ {0}
        /\ image.declared \in Int \X Int /\ image.size \in Int \X Int
    OBVIOUS
  <1>2. MaxImageBytes \in Nat /\ MaxProbeBytes \in Nat
    BY LimitsAssumption DEF LimitsAreNatural
  <1>3. ASSUME Acceptable(image)
        PROVE  /\ \A size \in {image.declared, image.size} :
                     size[1] \in 1 .. MaxSide /\ size[2] \in 1 .. MaxSide
                       /\ size[1] * size[2] <= MaxPixels
               /\ image.frames = 1 /\ image.bytes # 0
               /\ image.header = "ok" /\ image.stream = "ok" /\ image.body = "ok"
    <2>1. \A size \in {image.declared, image.size} :
              size[1] \in 1 .. MaxSide /\ size[2] \in 1 .. MaxSide /\ size[1] * size[2] <= MaxPixels
      BY <1>1, <1>3, OversizedIs DEF Acceptable
    <2>2. image.frames = 1
      BY <1>1, <1>3 DEF Acceptable
    <2>3. QED  BY <1>3, <2>1, <2>2 DEF Acceptable
  <1> DEFINE uploaded == UploadSample(image, type) = {}
             member   == StageMember(image) = {}
             probed   == ReceiveProbe(image, type) = {}
             bounded  ==
                 /\ \A size \in {image.declared, image.size} :
                       size[1] \in 1 .. MaxSide /\ size[2] \in 1 .. MaxSide
                         /\ size[1] * size[2] <= MaxPixels
                 /\ image.frames = 1
                 /\ image.header = "ok" /\ image.stream = "ok" /\ image.body = "ok"
  <1>4. /\ uploaded <=> ~(image.bytes > MaxImageBytes) /\ Acceptable(image)
                          /\ Claims(type) \subseteq {image.format}
        /\ member <=> ~(image.bytes > MaxImageBytes) /\ Acceptable(image)
        /\ probed <=> ~(image.bytes > MaxProbeBytes) /\ Acceptable(image)
                        /\ Claims(type) \subseteq {image.format}
    BY WaysIn
  <1>5. Acceptable(image) => bounded /\ image.bytes # 0
    BY <1>3
  <1>6. QED
    <2>1. BoundedIfAccepted(image, type) <=>
             /\ uploaded \/ member => image.bytes \in 1 .. MaxImageBytes
             /\ probed => image.bytes \in 1 .. MaxProbeBytes
             /\ uploaded <=> member /\ Claims(type) \subseteq {image.format}
             /\ image.bytes <= MaxImageBytes /\ image.bytes <= MaxProbeBytes =>
                   (uploaded <=> probed)
             /\ member \/ probed => bounded
      BY Zenon DEF BoundedIfAccepted
    <2> HIDE DEF uploaded, member, probed, bounded
    <2>2. uploaded \/ member => image.bytes \in 1 .. MaxImageBytes
      BY <1>1, <1>2, <1>4, <1>5
    <2>3. probed => image.bytes \in 1 .. MaxProbeBytes
      BY <1>1, <1>2, <1>4, <1>5
    <2>4. uploaded <=> member /\ Claims(type) \subseteq {image.format}
      BY <1>4
    <2>5. image.bytes <= MaxImageBytes /\ image.bytes <= MaxProbeBytes => (uploaded <=> probed)
      BY <1>1, <1>2, <1>4
    <2>6. member \/ probed => bounded
      BY <1>4, <1>5
    <2>7. QED  BY <2>1, <2>2, <2>3, <2>4, <2>5, <2>6

\* For any limits: an image that is accepted, by itself, in an archive or as a probe,
\* is bounded in bytes and as announced and as decoded, and within the limits of
\* both the three ways in agree.
THEOREM AcceptedImagesAreBounded == DecisionsSpec => []AcceptedImageBounded
  <1>1. input \in Inputs => AcceptedImageBounded
    <2> SUFFICES ASSUME input \in Inputs, input.kind = "image"
                 PROVE  BoundedIfAccepted(input.image, input.type)
      BY DEF AcceptedImageBounded
    <2>1. input.image \in [bytes : Nat, header : Outcomes, declared : Int \X Int,
                           stream : Outcomes, body : Outcomes, format : STRING,
                           size : Int \X Int, frames : Nat \ {0}]
      BY InputsAssumption DEF ImageInputs
    <2>2. QED  BY <2>1, BoundedIfAcceptedHolds
  <1>2. QED  BY <1>1, InputIs, PTL

(***************************************************************************)
(* Accepted archives.                                                      *)
(***************************************************************************)
\* The total of the announced sizes is a number for every archive.
LEMMA SizeIs ==
    ASSUME NEW members \in Seq(Members), NEW S
    PROVE  Size(members, S) \in Nat
  <1> DEFINE n == Len(members)
             Grown(i, y) == IF i \in S THEN y + members[i].size ELSE y
             F == [i \in 1 .. n |-> [y \in Nat |-> Grown(i, y)]]
             Step(g) == [i \in 0 .. n |->
                            IF i = 0 THEN 0
                            ELSE IF i \in S THEN g[i - 1] + members[i].size ELSE g[i - 1]]
             total == CHOOSE g : g = Step(g)
  <1>1. n \in Nat /\ \A i \in 1 .. n : members[i].size \in Nat
    <2>1. n \in Nat /\ \A i \in 1 .. n : members[i] \in Members
      OBVIOUS
    <2>2. \A m \in Members : m.size \in Nat
      BY DEF Members
    <2>3. QED  BY <2>1, <2>2
  <1>2. Size(members, S) = total[n]
    BY DEF Size
  <1> HIDE DEF n
  <1>3. \A i \in 1 .. n, y \in Nat : Grown(i, y) \in Nat
    BY <1>1
  <1>4. \A g : Step(g) = [i \in 0 .. n |-> IF i = 0 THEN 0 ELSE Grown(i, g[i - 1])]
    OBVIOUS
  <1> HIDE DEF Grown
  <1>5. F \in [1 .. n -> [Nat -> Nat]] /\ \A i \in 1 .. n, y \in Nat : F[i][y] = Grown(i, y)
    BY <1>3
  <1> HIDE DEF F
  <1>6. PICK g : Solves(g, n, Nat, 0, F)
    BY <1>1, <1>5, RecursionExists
  <1>7. g = [i \in 0 .. n |-> IF i = 0 THEN 0 ELSE Grown(i, g[i - 1])]
    <2>1. \A i \in 0 .. n : i = 0 \/ (i \in 1 .. n /\ i - 1 \in 0 .. n)
      BY <1>1
    <2>2. \A i \in 0 .. n : i # 0 => F[i][g[i - 1]] = Grown(i, g[i - 1])
      BY <1>5, <1>6, <2>1 DEF Solves
    <2>3. QED  BY <1>6, <2>2 DEF Solves
  <1>8. total = [i \in 0 .. n |-> IF i = 0 THEN 0 ELSE Grown(i, total[i - 1])]
    <2>1. g = Step(g)
      BY <1>4, <1>7
    <2>2. total = Step(total)
      <3> HIDE DEF Step
      <3>1. QED  BY <2>1
    <2>3. QED  BY <1>4, <2>2
  <1> HIDE DEF total
  <1>9. total[0] \in Nat /\ \A i \in 1 .. n : total[i - 1] \in Nat => total[i] \in Nat
    <2>1. total[0] = 0 /\ \A i \in 1 .. n : total[i] = Grown(i, total[i - 1])
      BY <1>1, <1>8
    <2>2. \A i \in 1 .. n : total[i - 1] \in Nat => Grown(i, total[i - 1]) \in Nat
      BY <1>3, Zenon
    <2>3. QED  BY <2>1, <2>2
  <1>10. \A i \in 0 .. n : total[i] \in Nat
    BY <1>1, <1>9, StepsStayIn
  <1>11. QED  BY <1>1, <1>2, <1>10 DEF n

\* A manifest without problems is readable, and every row of it passed the checks
\* while all the rows before it were kept.
LEMMA ManifestIs ==
    ASSUME NEW manifest, NEW valid, manifest.rows \in Seq([student : STRING, file : STRING]),
           ParseManifest(manifest, valid).errors = {}
    PROVE  /\ ParseManifest(manifest, valid).kept = 1 .. Len(manifest.rows)
           /\ \A n \in 1 .. Len(manifest.rows) :
                  RowError(manifest.rows, n, 1 .. n - 1, valid) = "none"
  <1> DEFINE listed == manifest.rows
             N == Len(listed)
             Problems == {"ZIP_MANIFEST_ROW_INCOMPLETE", "ZIP_MANIFEST_ROW_INVALID_STUDENT_ID",
                          "ZIP_MANIFEST_DUPLICATE_STUDENT", "ZIP_MANIFEST_DUPLICATE_FILENAME",
                          "ZIP_MANIFEST_ROW_MISSING_FILE"}
             V == [kept : SUBSET Nat, errors : SUBSET Problems]
             base == [kept |-> {}, errors |-> {}]
             Error(i, p) == RowError(listed, i, p.kept, valid)
             Grown(i, p) == IF Error(i, p) = "none" THEN [p EXCEPT !.kept = @ \cup {i}]
                            ELSE [p EXCEPT !.errors = @ \cup {Error(i, p)}]
             F == [i \in 1 .. N |-> [p \in V |-> Grown(i, p)]]
             Step(g) == [n \in 0 .. N |->
                            IF n = 0 THEN [kept |-> {}, errors |-> {}]
                            ELSE LET error == RowError(listed, n, g[n - 1].kept, valid)
                                 IN  IF error = "none"
                                     THEN [g[n - 1] EXCEPT !.kept = @ \cup {n}]
                                     ELSE [g[n - 1] EXCEPT !.errors = @ \cup {error}]]
             parsed == CHOOSE g : g = Step(g)
  <1>1. ParseManifest(manifest, valid) =
            IF manifest.readable THEN parsed[N]
            ELSE [kept |-> {}, errors |-> {"ZIP_MANIFEST_INVALID"}]
    BY DEF ParseManifest
  <1>2. ParseManifest(manifest, valid) = parsed[N]
    <2> HIDE DEF parsed
    <2>1. [kept |-> {}, errors |-> {"ZIP_MANIFEST_INVALID"}].errors # {}
      OBVIOUS
    <2>2. QED  BY <1>1, <2>1
  <1>3. \A g : Step(g) = [n \in 0 .. N |-> IF n = 0 THEN base ELSE Grown(n, g[n - 1])]
    OBVIOUS
  <1>4. N \in Nat /\ base \in V
    OBVIOUS
  <1>5. \A i \in 1 .. N, p \in V : Error(i, p) \in Problems \cup {"none"}
    <2> HIDE DEF listed
    <2>1. \A i, kept : RowError(listed, i, kept, valid) \in Problems \cup {"none"}
      BY DEF RowError
    <2>2. QED  BY <2>1
  <1> HIDE DEF N
  <1>6. \A i \in 1 .. N, p \in V :
            /\ Grown(i, p) \in V
            /\ Error(i, p) = "none" => Grown(i, p).kept = p.kept \cup {i}
                                       /\ Grown(i, p).errors = p.errors
            /\ Error(i, p) # "none" => Grown(i, p).errors # {}
            /\ Grown(i, p).errors = {} => p.errors = {}
    <2> TAKE i \in 1 .. N, p \in V
    <2> HIDE DEF Error, Problems
    <2>1. Error(i, p) \in Problems \cup {"none"}
      BY <1>5
    <2>2. i \in Nat
      BY <1>4
    <2>3. CASE Error(i, p) = "none"
      <3>1. Grown(i, p) = [p EXCEPT !.kept = @ \cup {i}]
        BY <2>3
      <3> HIDE DEF Grown
      <3>2. QED  BY <2>2, <2>3, <3>1
    <2>4. CASE Error(i, p) # "none"
      <3>1. Grown(i, p) = [p EXCEPT !.errors = @ \cup {Error(i, p)}]
        BY <2>4
      <3> HIDE DEF Grown
      <3>2. QED  BY <2>1, <2>4, <3>1
    <2>5. QED  BY <2>3, <2>4
  <1> HIDE DEF Grown, base
  <1>7. F \in [1 .. N -> [V -> V]] /\ \A i \in 1 .. N, p \in V : F[i][p] = Grown(i, p)
    BY <1>6
  <1> HIDE DEF F, V
  <1>8. PICK g : Solves(g, N, V, base, F)
    BY <1>4, <1>7, RecursionExists
  <1>9. g = Step(g)
    <2>1. \A i \in 0 .. N : i = 0 \/ (i \in 1 .. N /\ i - 1 \in 0 .. N)
      BY <1>4
    <2>2. \A i \in 0 .. N : i # 0 => F[i][g[i - 1]] = Grown(i, g[i - 1])
      BY <1>7, <1>8, <2>1 DEF Solves
    <2>3. g = [n \in 0 .. N |-> IF n = 0 THEN base ELSE Grown(n, g[n - 1])]
      BY <1>8, <2>2 DEF Solves
    <2> HIDE DEF Step
    <2>4. QED  BY <1>3, <2>3
  <1> HIDE DEF Step
  <1>10. parsed = Step(parsed)
    BY <1>9
  <1> HIDE DEF parsed
  <1>11. parsed[0] = base /\ \A i \in 1 .. N : parsed[i] = Grown(i, parsed[i - 1])
    <2>1. parsed = [n \in 0 .. N |-> IF n = 0 THEN base ELSE Grown(n, parsed[n - 1])]
      BY <1>3, <1>10
    <2>2. QED  BY <1>4, <2>1
  <1>12. \A i \in 0 .. N : parsed[i] \in V
    <2>1. parsed[0] \in V
      BY <1>4, <1>11
    <2>2. \A i \in 1 .. N : parsed[i - 1] \in V => parsed[i] \in V
      BY <1>6, <1>11
    <2>3. QED  BY <1>4, <2>1, <2>2, StepsStayIn
  <1>13. \A i \in 0 .. N : parsed[i].errors = {}
    <2> DEFINE r == [i \in 0 .. N |-> parsed[N - i].errors]
    <2>1. r[0] = {} /\ \A i \in 1 .. N : r[i - 1] = {} => r[i] = {}
      <3>1. r[0] = {}
        BY <1>2, <1>4
      <3>2. ASSUME NEW i \in 1 .. N, r[i - 1] = {} PROVE r[i] = {}
        <4>1. N - i \in 0 .. N /\ N - i + 1 \in 1 .. N /\ N - (i - 1) = N - i + 1
              /\ (N - i + 1) - 1 = N - i /\ i - 1 \in 0 .. N /\ i \in 0 .. N
          BY <1>4
        <4>2. parsed[N - i + 1].errors = {}
          BY <3>2, <4>1
        <4>3. parsed[N - i + 1] = Grown(N - i + 1, parsed[N - i]) /\ parsed[N - i] \in V
          BY <1>11, <1>12, <4>1
        <4>4. parsed[N - i].errors = {}
          BY <1>6, <4>1, <4>2, <4>3
        <4>5. QED  BY <4>1, <4>4
      <3>3. QED  BY <3>1, <3>2
    <2> HIDE DEF r
    <2>2. \A i \in 0 .. N : r[i] = {}
      <3> DEFINE W == {{}}
      <3>1. r[0] \in W /\ \A i \in 1 .. N : r[i - 1] \in W => r[i] \in W
        BY <2>1
      <3> HIDE DEF W
      <3>2. \A i \in 0 .. N : r[i] \in W
        BY <1>4, <3>1, StepsStayIn
      <3>3. QED  BY <3>2 DEF W
    <2>3. \A i \in 0 .. N : N - i \in 0 .. N /\ N - (N - i) = i
      BY <1>4
    <2>4. \A i \in 0 .. N : r[N - i] = parsed[i].errors
      BY <2>3 DEF r
    <2>5. QED  BY <2>2, <2>3, <2>4
  <1>14. \A i \in 1 .. N : /\ Error(i, parsed[i - 1]) = "none"
                           /\ parsed[i].kept = parsed[i - 1].kept \cup {i}
    <2> TAKE i \in 1 .. N
    <2>1. i - 1 \in 0 .. N /\ i \in 0 .. N
      BY <1>4
    <2>2. parsed[i] = Grown(i, parsed[i - 1]) /\ parsed[i - 1] \in V /\ parsed[i].errors = {}
      BY <1>11, <1>12, <1>13, <2>1
    <2> HIDE DEF Error
    <2>3. QED  BY <1>6, <2>2
  <1>15. \A i \in 0 .. N : parsed[i].kept = 1 .. i
    <2> DEFINE q == [i \in 0 .. N |-> IF parsed[i].kept = 1 .. i THEN "all" ELSE "some"]
               W == {"all"}
    <2>1. \A i \in 0 .. N : q[i] \in W <=> parsed[i].kept = 1 .. i
      OBVIOUS
    <2> HIDE DEF q, W
    <2>2. q[0] \in W
      <3>1. parsed[0].kept = {} /\ 1 .. 0 = {}
        BY <1>11 DEF base
      <3>2. 0 \in 0 .. N /\ parsed[0].kept = 1 .. 0
        BY <1>4, <3>1
      <3>3. QED  BY <2>1, <3>2
    <2>3. \A i \in 1 .. N : q[i - 1] \in W => q[i] \in W
      <3> TAKE i \in 1 .. N
      <3>1. i - 1 \in 0 .. N /\ i \in 0 .. N /\ 1 .. i = (1 .. i - 1) \cup {i}
        BY <1>4
      <3>2. QED  BY <1>14, <2>1, <3>1
    <2>4. \A i \in 0 .. N : q[i] \in W
      BY <1>4, <2>2, <2>3, StepsStayIn
    <2>5. QED  BY <2>1, <2>4
  <1>16. \A n \in 1 .. N : RowError(listed, n, 1 .. n - 1, valid) = "none"
    <2> TAKE n \in 1 .. N
    <2>1. n - 1 \in 0 .. N
      BY <1>4
    <2>2. parsed[n - 1].kept = 1 .. n - 1
      BY <1>15, <2>1
    <2>3. QED  BY <1>14, <2>2
  <1>17. QED  BY <1>2, <1>4, <1>15, <1>16 DEF N

\* What a member is that no check refused.
LEMMA HarmlessIs ==
    ASSUME NEW m \in Members, NEW seen
    PROVE  /\ Verdict(m, seen) \in Harmless /\ ~m.directory =>
                 /\ Weighed(m, seen) /\ ~BeyondRatio(m)
                 /\ m.kind # "manifest" => m.kind = "image" /\ Verdict(m, seen) = "image"
           /\ Verdict(m, seen) = "image" => ~m.directory /\ m.kind = "image"
  <1>1. /\ m.path \in PathFindings /\ m.kind \in {"image", "manifest", "archive", "other"}
        /\ m.directory \in BOOLEAN /\ m.encrypted \in BOOLEAN /\ m.symlink \in BOOLEAN
    BY DEF Members
  <1> DEFINE code == Verdict(m, seen)
  <1>2. m.path # "safe" => m.path \notin Harmless
    BY <1>1 DEF PathFindings, Harmless
  <1>3. m.directory => code = "directory"
    BY <1>1 DEF Verdict
  <1>4. ~m.directory /\ m.path # "safe" => code \notin Harmless
    BY <1>1, <1>2 DEF Verdict
  <1>5. ASSUME ~m.directory, m.path = "safe"
        PROVE  /\ m.name \in seen \/ m.encrypted \/ m.symlink \/ BeyondRatio(m) => code \notin Harmless
               /\ m.kind = "archive" \/ m.kind = "other" => code \notin Harmless
               /\ m.kind = "manifest" => code # "image"
               /\ m.kind = "image" => code # "manifest" /\ code # "directory"
    BY <1>1, <1>5 DEF Verdict, Harmless
  <1> HIDE DEF code
  <1>6. \A c : c \in Harmless <=> c = "directory" \/ c = "manifest" \/ c = "image"
    BY DEF Harmless
  <1>7. QED  BY <1>1, <1>3, <1>4, <1>5, <1>6 DEF Weighed, code

LEMMA SoundIfAcceptedHolds ==
    ASSUME NEW members \in Seq(Members), NEW manifest,
           manifest.bytes \in Nat, manifest.rows \in Seq([student : STRING, file : STRING])
    PROVE  SoundIfAccepted(members, manifest)
  <1> DEFINE result  == ValidateArchive(members, manifest)
             valid   == ValidMembers(members)
             parsed  == ParseManifest(manifest, valid)
             found   == MemberErrors(members) \cup ArchiveErrors(members)
             files   == {i \in DOMAIN members : ~members[i].directory}
             images  == {i \in files : members[i].kind # "manifest"}
             before(i) == Seen(members, i)
             listed    == manifest.rows
             N       == Len(listed)
  <1> SUFFICES ASSUME result.errors = {}
               PROVE
          /\ result.rows = DOMAIN manifest.rows
          /\ \A i \in images : Cardinality({n \in result.rows : listed[n].file = members[i].name}) = 1
          /\ \A n \in result.rows : \E i \in images : listed[n].file = members[i].name
          /\ \A n, k \in result.rows : listed[n].student = listed[k].student => n = k
          /\ \A i, j \in files : members[i].name = members[j].name => i = j
          /\ \A i \in files : ~members[i].encrypted /\ ~members[i].symlink
          /\ \A i \in images : members[i].kind = "image" /\ StreamMember(members[i]) <= MaxImageBytes
          /\ Cardinality(images) <= MaxFiles
          /\ Size(members, files) <= MaxTotalBytes
    BY DEF SoundIfAccepted
  <1>1. /\ DOMAIN members = 1 .. Len(members) /\ Len(members) \in Nat
        /\ \A i \in DOMAIN members : members[i] \in Members
        /\ DOMAIN listed = 1 .. N /\ N \in Nat
    OBVIOUS
  <1>2. found = {} /\ parsed.errors = {} /\ Unreferenced(parsed, manifest, valid) = {}
        /\ result.rows = parsed.kept
    <2> DEFINE errors ==
                  IF members = <<>> THEN {"empty_archive"}
                  ELSE IF Positions(members, "manifest") = {}
                       THEN found \cup {"ZIP_MANIFEST_MISSING"}
                  ELSE IF manifest.bytes > MaxManifestBytes
                       THEN {"ZIP_MEMBER_DECOMPRESSED_SIZE_EXCEEDED"}
                  ELSE found \cup parsed.errors \cup Unreferenced(parsed, manifest, valid)
    <2>1. result.errors = errors /\ (errors = {} => result.rows = parsed.kept)
      BY DEF ValidateArchive
    <2> HIDE DEF result, found, parsed, valid
    <2>2. errors = found \cup parsed.errors \cup Unreferenced(parsed, manifest, valid)
      BY <2>1
    <2>3. QED  BY <2>1, <2>2
  <1> HIDE DEF result, found, parsed, valid, before
  <1>3. \A i \in DOMAIN members : Verdict(members[i], before(i)) \in Harmless
    BY <1>2 DEF found, MemberErrors, before
  <1>4. \A i \in files : /\ Weighed(members[i], before(i)) /\ ~BeyondRatio(members[i])
                         /\ i \in images => members[i].kind = "image"
                                            /\ Verdict(members[i], before(i)) = "image"
    <2> TAKE i \in files
    <2>1. members[i] \in Members /\ ~members[i].directory
          /\ Verdict(members[i], before(i)) \in Harmless
          /\ (i \in images => members[i].kind # "manifest")
      BY <1>1, <1>3
    <2> HIDE DEF files, images
    <2>2. QED  BY <2>1, HarmlessIs
  <1>5. valid = {members[i].name : i \in images}
    <2>1. Positions(members, "image") = images
      <3>1. \A i \in DOMAIN members : Verdict(members[i], before(i)) = "image" =>
                ~members[i].directory /\ members[i].kind = "image"
        BY <1>1, HarmlessIs
      <3>2. Positions(members, "image")
                = {i \in DOMAIN members : Verdict(members[i], before(i)) = "image"}
        BY DEF Positions, before
      <3>3. QED  BY <1>4, <3>1, <3>2
    <2>2. QED  BY <2>1 DEF valid, ValidMembers
  <1>6. \A i, j \in files : members[i].name = members[j].name => i = j
    <2>1. ASSUME NEW i \in files, NEW j \in files, i < j
          PROVE  members[i].name # members[j].name
      <3>1. Weighed(members[i], before(i)) /\ Weighed(members[j], before(j))
        BY <1>4
      <3>2. i \in 1 .. j - 1 /\ ~members[i].directory /\ members[i].path = "safe"
        BY <1>1, <2>1, <3>1 DEF Weighed
      <3>3. members[i].name \in before(j)
        BY <3>2 DEF before, Seen
      <3>4. QED  BY <3>1, <3>3 DEF Weighed
    <2>2. \A i, j \in files : i < j \/ j < i \/ i = j
      BY <1>1
    <2> HIDE DEF files
    <2>3. QED  BY <2>1, <2>2
  <1>7. parsed.kept = 1 .. N /\ \A n \in 1 .. N : RowError(listed, n, 1 .. n - 1, valid) = "none"
    BY <1>2, ManifestIs DEF parsed
  <1>8. \A n \in 1 .. N : /\ listed[n].file \in valid
                          /\ \A k \in 1 .. n - 1 : /\ listed[k].student # listed[n].student
                                                   /\ listed[k].file # listed[n].file
    <2> TAKE n \in 1 .. N
    <2>1. RowError(listed, n, 1 .. n - 1, valid) = "none"
      BY <1>7
    <2>2. /\ listed[n].file \in valid
          /\ ~Repeated(listed, n, 1 .. n - 1, "student") /\ ~Repeated(listed, n, 1 .. n - 1, "file")
      BY <2>1 DEF RowError
    <2>3. QED  BY <2>2 DEF Repeated
  <1>9. \A n, k \in 1 .. N : n # k => /\ listed[k].student # listed[n].student
                                      /\ listed[k].file # listed[n].file
    <2> TAKE n, k \in 1 .. N
    <2> HAVE n # k
    <2>1. k \in 1 .. n - 1 \/ n \in 1 .. k - 1
      BY <1>1
    <2>2. QED  BY <1>8, <2>1
  <1>10. \A n \in 1 .. N : \E i \in images : listed[n].file = members[i].name
    BY <1>5, <1>8
  <1>11. \A i \in images : Cardinality({n \in 1 .. N : listed[n].file = members[i].name}) = 1
    <2> TAKE i \in images
    <2>1. valid \subseteq {listed[n].file : n \in 1 .. N}
      BY <1>2, <1>7 DEF Unreferenced
    <2>2. PICK n \in 1 .. N : listed[n].file = members[i].name
      BY <1>5, <2>1
    <2>3. {k \in 1 .. N : listed[k].file = members[i].name} = {n}
      BY <1>9, <2>2
    <2>4. QED  BY <2>3, FS_Singleton
  <1>12. \A i \in files : ~members[i].encrypted /\ ~members[i].symlink
    BY <1>4 DEF Weighed
  <1>13. \A i \in images : members[i].kind = "image" /\ StreamMember(members[i]) <= MaxImageBytes
    <2> TAKE i \in images
    <2>1. members[i].holds \in Nat
      BY <1>1 DEF Members
    <2>2. MaxImageBytes \in Nat
      BY LimitsAssumption DEF LimitsAreNatural
    <2>3. StreamMember(members[i]) <= MaxImageBytes
      BY <2>1, <2>2 DEF StreamMember
    <2>4. QED  BY <1>4, <2>3
  <1>14. FileCount(members) <= MaxFiles /\ TotalBytes(members) <= MaxTotalBytes
    <2>1. FileCount(members) \in Nat
      <3>1. {i \in DOMAIN members : CountedFile(members[i], Seen(members, i))} \in SUBSET DOMAIN members
        OBVIOUS
      <3>2. QED  BY <1>1, <3>1, PositionsFinite DEF FileCount
    <2>2. TotalBytes(members) \in Nat
      BY SizeIs DEF TotalBytes
    <2>3. MaxFiles \in Nat /\ MaxTotalBytes \in Nat
      BY LimitsAssumption DEF LimitsAreNatural
    <2>4. ~(FileCount(members) > MaxFiles) /\ ~(TotalBytes(members) > MaxTotalBytes)
      BY <1>2 DEF found, ArchiveErrors
    <2>5. QED  BY <2>1, <2>2, <2>3, <2>4
  <1>15. Cardinality(images) = FileCount(members)
    <2>1. images = {i \in DOMAIN members : CountedFile(members[i], Seen(members, i))}
      BY <1>4 DEF CountedFile, Weighed, before
    <2>2. QED  BY <2>1 DEF FileCount
  <1>16. Size(members, files) = TotalBytes(members)
    <2>1. files = {i \in DOMAIN members : Weighed(members[i], Seen(members, i))}
      BY <1>4 DEF Weighed, before
    <2>2. QED  BY <2>1 DEF TotalBytes
  <1> HIDE DEF files, images, N
  <1>17. result.rows = 1 .. N /\ DOMAIN listed = 1 .. N
    BY <1>1, <1>2, <1>7
  <1>18. QED
    BY <1>6, <1>9, <1>10, <1>11, <1>12, <1>13, <1>14, <1>15, <1>16, <1>17

\* For any limits, any archive and any manifest: what is accepted pairs students
\* and images one to one, within the announced bounds.
THEOREM AcceptedArchivesAreSound == DecisionsSpec => []AcceptedArchiveSound
  <1>1. input \in Inputs => AcceptedArchiveSound
    <2> SUFFICES ASSUME input \in Inputs, input.kind = "archive"
                 PROVE  SoundIfAccepted(input.members,
                            [bytes |-> input.bytes, readable |-> input.readable,
                             rows |-> input.rows])
      BY DEF AcceptedArchiveSound
    <2>1. /\ input.members \in Seq(Members) /\ input.bytes \in Nat
          /\ input.rows \in Seq([student : STRING, file : STRING])
      BY InputsAssumption DEF ArchiveInputs
    <2>2. QED  BY <2>1, SoundIfAcceptedHolds
  <1>2. QED  BY <1>1, InputIs, PTL

===============================================================================
