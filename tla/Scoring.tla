------------------------------- MODULE Scoring -------------------------------
(***************************************************************************)
(* How issues become points: the category of an Activity Type value and    *)
(* the counters of a scoring period (reconciler.go), the score of a count  *)
(* and a distribution, and the weighted average of scores (scorecard.go).  *)
(*                                                                         *)
(* The code's float64 values are exact fractions here, so a score that is  *)
(* off by a rounding error next to a grade's threshold is not seen.        *)
(***************************************************************************)
EXTENDS Integers, FiniteSetsExt

Categories == {"wellness", "incidents", "security", "quality", "future", "product"}

Counters == Categories \cup {"uncategorized"}

ActivityDistribution == [Counters -> Nat]

NoIssues == [c \in Counters |-> 0]

-----------------------------------------------------------------------------
(* The category of an issue.  The table exists twice: the reconciler's is  *)
(* the one that is used, the scorecard package's the one that is tested.   *)

\* Faulty variant: a value of the other table is missing.
MapWithoutDefect(type) ==
    CASE type = "Associate Wellness & Development" -> "wellness"
      [] type \in {"Incidents & Escalations", "Customer Support"} -> "incidents"
      [] type = "Security & Compliance" -> "security"
      [] type \in {"Tech Debt", "QE Activities",
                   "Quality / Stability / Reliability"} -> "quality"
      [] type = "Future Sustainability" -> "future"
      [] type \in {"Product / Portfolio Work", "New Feature",
                   "Feature Enhancement"} -> "product"
      [] OTHER -> ""

mapActivityTypeToCategory(type) ==
    CASE type = "Associate Wellness & Development" -> "wellness"
      [] type \in {"Incidents & Escalations", "Customer Support"} -> "incidents"
      [] type = "Security & Compliance" -> "security"
      [] type \in {"Tech Debt", "Defect", "QE Activities",
                   "Quality / Stability / Reliability"} -> "quality"
      [] type = "Future Sustainability" -> "future"
      [] type \in {"Product / Portfolio Work", "New Feature",
                   "Feature Enhancement"} -> "product"
      [] OTHER -> ""

activityTypeMapping ==
    { <<"Associate Wellness & Development", "wellness">>,
      <<"Incidents & Escalations", "incidents">>, <<"Customer Support", "incidents">>,
      <<"Security & Compliance", "security">>,
      <<"Tech Debt", "quality">>, <<"Defect", "quality">>, <<"QE Activities", "quality">>,
      <<"Quality / Stability / Reliability", "quality">>,
      <<"Future Sustainability", "future">>,
      <<"Product / Portfolio Work", "product">>, <<"New Feature", "product">>,
      <<"Feature Enhancement", "product">> }

\* An issue of the given Activity Type is added to a period and counted.
CategorizeAndAdd(period, type) ==
    LET category == mapActivityTypeToCategory(type)
    IN  [period EXCEPT
           !.issues[type] = @ + 1,
           !.total = @ + 1,
           !.categorized = IF category # "" THEN @ + 1 ELSE @,
           !.distribution[IF category # "" THEN category ELSE "uncategorized"] = @ + 1]

-----------------------------------------------------------------------------
(* Fractions, in lowest terms.  Nil stands for a *float64 that is nil.     *)

gcd[p \in Nat \X Nat] == IF p[2] = 0 THEN p[1] ELSE gcd[<<p[2], p[1] % p[2]>>]

Nil == [num |-> 0, den |-> 0]

Zero == [num |-> 0, den |-> 1]

Fraction(n, d) ==
    LET g == gcd[<<n, d>>] IN [num |-> n \div g, den |-> d \div g]

Plus(a, b) == Fraction(a.num * b.den + b.num * a.den, a.den * b.den)

Times(a, n) == Fraction(a.num * n, a.den)

Over(a, n) == Fraction(a.num, a.den * n)

AtLeast(a, n) == a.num >= n * a.den

-----------------------------------------------------------------------------
(* The score of a count of issues and their distribution.                  *)

Ranks == 1..5

\* The scored categories by priority, the highest first.
ScoredCategoriesInOrder == <<"incidents", "security", "quality", "future", "product">>

\* In 88ths.
TargetDistribution == <<12, 12, 22, 21, 21>>

\* Penalty weights, in quarters.
OverAllocationWeight(rank) == 2 + (rank - 1)
UnderAllocationWeight(rank) == 6 - (rank - 1)

\* The excess of the rank's category over its share of n issues, in 88ths.
Deviation(n, dist, rank) ==
    88 * dist[ScoredCategoriesInOrder[rank]] - TargetDistribution[rank] * n

\* Faulty variant: the two weights are taken for each other.
PenaltySwapped(n, dist, rank) ==
    LET deviation == Deviation(n, dist, rank)
    IN  IF deviation > 0 THEN deviation * UnderAllocationWeight(rank)
                         ELSE -deviation * OverAllocationWeight(rank)

\* In 352nds: quarters of 88ths.
Penalty(n, dist, rank) ==
    LET deviation == Deviation(n, dist, rank)
    IN  IF deviation > 0 THEN deviation * OverAllocationWeight(rank)
                         ELSE -deviation * UnderAllocationWeight(rank)

TotalPenalty(n, dist) ==
    Penalty(n, dist, 1) + Penalty(n, dist, 2) + Penalty(n, dist, 3)
      + Penalty(n, dist, 4) + Penalty(n, dist, 5)

\* What is left of the 352 n points a distribution of n issues can lose.
Aligned(n, dist) ==
    IF TotalPenalty(n, dist) < 352 * n THEN 352 * n - TotalPenalty(n, dist) ELSE 0

ComputeDistributionAlignment(categorized, dist) ==
    LET scored == categorized - dist["wellness"]
    IN  IF scored <= 0 THEN Zero ELSE Fraction(30 * Aligned(scored, dist), 352 * scored)

AssignGrade(total) ==
    IF total = Nil THEN "-"
    ELSE IF AtLeast(total, 90) THEN "A"
    ELSE IF AtLeast(total, 75) THEN "B"
    ELSE IF AtLeast(total, 60) THEN "C"
    ELSE IF AtLeast(total, 45) THEN "D"
    ELSE "F"

NilScore ==
    [total |-> Nil, grade |-> "-", catRate |-> Nil, distAlign |-> Nil, count |-> 0]

ScoreOf(catRate, distAlign, total, count) ==
    [total |-> total, grade |-> AssignGrade(total), catRate |-> catRate,
     distAlign |-> distAlign, count |-> count]

ComputeScore(count, categorized, dist) ==
    LET catRate == Fraction(70 * categorized, count)
        distAlign == ComputeDistributionAlignment(categorized, dist)
    IN  IF count = 0 THEN NilScore
        ELSE ScoreOf(catRate, distAlign, Plus(catRate, distAlign), count)

-----------------------------------------------------------------------------
(* The average of entities' scores, weighted by their issues.              *)

NoPoints == [catRate |-> Zero, distAlign |-> Zero, total |-> Zero, count |-> 0]

AddPoints(a, b) ==
    [ catRate |-> Plus(a.catRate, b.catRate), distAlign |-> Plus(a.distAlign, b.distAlign),
      total |-> Plus(a.total, b.total), count |-> a.count + b.count ]

\* Faulty variant: one of the three parts is not weighted.
WeightedButOne(score) ==
    [ catRate |-> Times(score.catRate, score.count), distAlign |-> score.distAlign,
      total |-> Times(score.total, score.count), count |-> score.count ]

Weighted(score) ==
    [ catRate |-> Times(score.catRate, score.count),
      distAlign |-> Times(score.distAlign, score.count),
      total |-> Times(score.total, score.count), count |-> score.count ]

WithScore(entities) == {e \in entities : e.score.total # Nil}

\* The weighted sums of the entities with a score.
WeightedSum(entities) ==
    FoldFunction(AddPoints, NoPoints, [e \in WithScore(entities) |-> Weighted(e.score)])

\* Faulty variant: every score that is not nil weighs the same.
UnweightedAverage(entities) ==
    LET sum == FoldFunction(AddPoints, NoPoints, [e \in WithScore(entities) |-> e.score])
        n == Cardinality(WithScore(entities))
    IN  IF n = 0 THEN NilScore
        ELSE ScoreOf(Over(sum.catRate, n), Over(sum.distAlign, n), Over(sum.total, n),
                     sum.count)

WeightedAverage(entities) ==
    LET sum == WeightedSum(entities)
    IN  IF sum.count = 0 THEN NilScore
        ELSE ScoreOf(Over(sum.catRate, sum.count), Over(sum.distAlign, sum.count),
                     Over(sum.total, sum.count), sum.count)
=============================================================================
