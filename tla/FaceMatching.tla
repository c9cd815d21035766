---------------------------- MODULE FaceMatching ----------------------------
(***************************************************************************)
(* Whom a probe face is taken for (CosineSimilarityFaceMatcher), the shape *)
(* a MatchResult must have, and the offline rates threshold calibration    *)
(* relies on (evaluation.py).  Similarities are integers: the code only    *)
(* compares and subtracts them.  A candidate is one enrolled embedding:    *)
(* its student, its dimension and its similarity to the probe.             *)
(***************************************************************************)
EXTENDS Integers, Sequences, FiniteSets, SequencesExt

CONSTANTS
    Threshold,  \* FACE_MATCH_THRESHOLD, an integer
    Margin,     \* FACE_MATCH_AMBIGUOUS_MARGIN, not negative
    Nobody      \* no student, no candidate

(***************************************************************************)
(* MatchResult.                                                            *)
(***************************************************************************)
Candidate(s, similarity) == [student |-> s, similarity |-> similarity]

Found(c) == [status |-> "found", matched |-> c.student, best |-> c, second |-> Nobody]

Unknown(c) == [status |-> "unknown", matched |-> Nobody, best |-> c, second |-> Nobody]

Ambiguous(c, d) == [status |-> "ambiguous", matched |-> Nobody, best |-> c, second |-> d]

ValidShape(m) ==
    /\ m.status = "found" =>
          /\ m.best # Nobody /\ m.matched = m.best.student
          /\ m.second = Nobody
    /\ m.status # "found" => m.matched = Nobody
    /\ m.status = "ambiguous" =>
          /\ m.best # Nobody /\ m.second # Nobody
          /\ m.best.student # m.second.student
          /\ m.best.similarity >= m.second.similarity
    /\ m.status = "unknown" => m.second = Nobody

(***************************************************************************)
(* match.                                                                  *)
(***************************************************************************)
\* Mutant: the embedding offered last stands for its student.
LastPerStudent(candidates) ==
    [s \in {c.student : c \in Range(candidates)} |->
        LET last == CHOOSE i \in DOMAIN candidates :
                       /\ candidates[i].student = s
                       /\ \A j \in i + 1 .. Len(candidates) : candidates[j].student # s
        IN  candidates[last].similarity]

\* The best similarity of every student, over however many embeddings of it.
BestPerStudent(candidates) ==
    [s \in {c.student : c \in Range(candidates)} |->
        Max({c.similarity : c \in {d \in Range(candidates) : d.student = s}})]

\* The student sorted first among S: by falling similarity, equal ones by the
\* text of the id, whose order the ids have here.
Leader(best, S) ==
    CHOOSE s \in S : \A t \in S \ {s} : best[s] > best[t] \/ (best[s] = best[t] /\ s < t)

Match(dimension, candidates) ==
    LET best   == BestPerStudent(candidates)
        first  == Leader(best, DOMAIN best)
        others == DOMAIN best \ {first}
        second == Leader(best, others)
        Of(s)  == Candidate(s, best[s])
    IN  CASE candidates = <<>> -> Unknown(Nobody)
          [] \E c \in Range(candidates) : c.dimension # dimension ->
                [status |-> "dimension_mismatch"]
          [] OTHER ->
                IF best[first] < Threshold THEN Unknown(Of(first))
                ELSE IF others # {} /\ best[first] - best[second] < Margin
                THEN Ambiguous(Of(first), Of(second))
                ELSE Found(Of(first))

(***************************************************************************)
(* evaluation.py.  A rate is a pair, the count and the size of its class;  *)
(* the pairs counted are given by their positions.                         *)
(***************************************************************************)
Genuine(pairs) == {i \in DOMAIN pairs : pairs[i].genuine}

Impostors(pairs) == {i \in DOMAIN pairs : ~pairs[i].genuine}

\* Mutant: an impostor at the threshold is not counted.
FalseAcceptsAbove(pairs, threshold) ==
    {i \in Impostors(pairs) : pairs[i].similarity > threshold}

FalseAccepts(pairs, threshold) ==
    {i \in Impostors(pairs) : pairs[i].similarity >= threshold}

FalseRejects(pairs, threshold) ==
    {i \in Genuine(pairs) : pairs[i].similarity < threshold}

Rate(events, class) ==
    IF class = {} THEN <<0, 1>> ELSE <<Cardinality(events), Cardinality(class)>>

FarFrr(pairs, threshold) ==
    [far |-> Rate(FalseAccepts(pairs, threshold), Impostors(pairs)),
     frr |-> Rate(FalseRejects(pairs, threshold), Genuine(pairs))]

ThresholdSweep(pairs, thresholds) ==
    [i \in DOMAIN thresholds |-> FarFrr(pairs, thresholds[i])]

AmbiguityRate(tops) ==
    Rate({i \in DOMAIN tops : tops[i][1] - tops[i][2] < Margin}, DOMAIN tops)

(***************************************************************************)
(* What is promised of one list of candidates and of one list of pairs.    *)
(***************************************************************************)
Reaches(candidates, s, n) ==
    \E c \in Range(candidates) : c.student = s /\ c.similarity >= n

\* A student is named only if one of its embeddings reaches the threshold and
\* leads every embedding of every other student by the margin, and is then always
\* named; the order of the candidates and further embeddings of one student never
\* make it ambiguous with itself; a near tie is never resolved.
SafeMatch(dimension, candidates) ==
    LET m == Match(dimension, candidates)
        Leads(s) ==
            \E c \in Range(candidates) :
                /\ c.student = s /\ c.similarity >= Threshold
                /\ \A d \in Range(candidates) :
                      d.student # s =>
                        c.similarity - d.similarity >= Margin /\ c.similarity >= d.similarity
        leaders == {s \in {c.student : c \in Range(candidates)} : Leads(s)}
    IN  (\A c \in Range(candidates) : c.dimension = dimension) =>
          /\ ValidShape(m)
          /\ m = Match(dimension, Reverse(candidates))
          /\ m.status = "found" => m.matched \in leaders
          /\ Margin > 0 /\ leaders # {} => m.status = "found"
          /\ m.status = "unknown" <=>
                \A c \in Range(candidates) : c.similarity < Threshold

\* A threshold calibrated offline means the same at match time: one impostor
\* pair counts as a false accept exactly when the matcher, given that one
\* candidate, names the student, one genuine pair as a false reject exactly when
\* it does not; two of them are too close in the ambiguity rate exactly when the
\* matcher calls them ambiguous; raising the threshold never accepts more.
RatesMatch(dimension, pairs) ==
    LET Offered(s, p) == [student |-> s, dimension |-> dimension, similarity |-> p.similarity]
        Named(p) == Match(dimension, <<Offered(1, p)>>).status = "found"
        TooClose(p, q) == AmbiguityRate(<<<<p.similarity, q.similarity>>>>)[1] = 1
        rates  == FarFrr(pairs, Threshold)
        sweep  == ThresholdSweep(pairs, <<Threshold, Threshold + 1>>)
        named  == {i \in DOMAIN pairs : Named(pairs[i])}
    IN  /\ rates.far[1] = Cardinality(Impostors(pairs) \cap named)
        /\ rates.frr[1] = Cardinality(Genuine(pairs) \ named)
        /\ rates.far[1] <= rates.far[2] /\ rates.frr[1] <= rates.frr[2]
        /\ sweep[2].far[1] <= sweep[1].far[1] /\ sweep[1].frr[1] <= sweep[2].frr[1]
        /\ sweep[1] = rates
        /\ \A p, q \in Range(pairs) :
              p.similarity >= Threshold /\ p.similarity >= q.similarity =>
                (TooClose(p, q)
                    <=> Match(dimension, <<Offered(1, p), Offered(2, q)>>).status = "ambiguous")
=============================================================================
