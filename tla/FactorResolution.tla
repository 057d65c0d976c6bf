-------------------------- MODULE FactorResolution --------------------------
(* Which emission factor an activity is calculated with                     *)
(* (factors/resolution.py, and what services/factor_resolution.py,          *)
(* calculations.py and data_comparisons.py load for it).  The scope stands  *)
(* for the scope and the greenhouse-gas component; texts are equal, or one  *)
(* contains another, after case and blanks are folded; units are canonical  *)
(* and known, which the callers have made sure of, so that                  *)
(* INCOMPATIBLE_UNIT is not reached.                                        *)
EXTENDS Integers, FiniteSets, FiniteSetsExt

CONSTANTS
    Pools,           \* sets of factors that may be stored
    Queries,         \* what is asked for
    Contains(_, _),  \* text, text: the first contains the second
    Dimension(_),    \* unit -> its dimension
    Limit,           \* MAX_DATABASE_CANDIDATES
    None

VARIABLES
    stored,          \* the factors of the database, of approved sets or not
    resolution       \* the last resolution, with the candidates it was made from

vars == <<stored, resolution>>

Levels == {"level_1", "level_2", "level_3", "level_4", "column_text"}

Init == stored \in Pools /\ resolution = None

----------------------------------------------------------------------------
(* Scores                                                                   *)

Exact   == [level_1 |-> 80, level_2 |-> 60, level_3 |-> 50, level_4 |-> 40, column_text |-> 35]
Partial == [level_1 |-> 40, level_2 |-> 30, level_3 |-> 25, level_4 |-> 20, column_text |-> 15]

(* _score_optional_level                                                    *)
LevelScore(l, f, q) ==
    IF q.text[l] = None THEN 0
    ELSE IF f.text[l] = q.text[l] THEN Exact[l]
    ELSE IF Contains(f.text[l], q.text[l]) THEN Partial[l]
    ELSE -Exact[l]

(* Mutant: the older the factor, the higher its score.                      *)
OlderIsBetter(f, q) == IF f.year = q.year THEN 100 ELSE 70 + 10 * (q.year - f.year)

YearScore(f, q) ==
    IF f.year = q.year THEN 100
    ELSE IF 70 - 10 * (q.year - f.year) > 10 THEN 70 - 10 * (q.year - f.year) ELSE 10

LifecycleScore(f, q) ==
    IF q.lifecycle = None THEN 0 ELSE IF f.lifecycle = q.lifecycle THEN 60 ELSE -60

(* score_factor, for a factor that it does not turn down                    *)
Eligible(f, q) ==
    /\ f.scope = q.scope
    /\ q.set # None => f.set = q.set
    /\ f.year = q.year \/ (q.previousYear /\ f.year < q.year)
    /\ f.geography = q.geography \/ q.anyGeography
    /\ Dimension(f.unit) = Dimension(q.unit)

Score(f, q) ==
    120 + YearScore(f, q) + (IF f.geography = q.geography THEN 80 ELSE 10)
        + (IF f.unit = q.unit THEN 120 ELSE 100)
        + LevelScore("level_1", f, q) + LevelScore("level_2", f, q) + LevelScore("level_3", f, q)
        + LevelScore("level_4", f, q) + LevelScore("column_text", f, q)
        + LifecycleScore(f, q)

Strength(f, q) ==
    IF f.year # q.year \/ f.geography # q.geography THEN "fallback"
    ELSE IF Score(f, q) >= 600 THEN "exact" ELSE "strong"

(* resolve_factor                                                           *)
Resolution(loaded, q) ==
    LET scored == {f \in loaded : Eligible(f, q)}
        top == {f \in scored : \A g \in scored : Score(g, q) <= Score(f, q)} IN
    IF scored = {} THEN [outcome |-> "no_match", selected |-> None, strength |-> None]
    ELSE IF Cardinality(top) > 1
    THEN [outcome |-> "ambiguous", selected |-> None, strength |-> None]
    ELSE LET f == CHOOSE x \in top : TRUE IN
         [outcome |-> "resolved", selected |-> f, strength |-> Strength(f, q)]

----------------------------------------------------------------------------
(* load_candidate_factors: level_1 is compared in the query, without case   *)
Candidates(q) ==
    {f \in stored : /\ f.approved /\ f.scope = q.scope
                    /\ q.set # None => f.set = q.set
                    /\ q.text["level_1"] # None => f.text["level_1"] = q.text["level_1"]
                    /\ IF q.previousYear THEN f.year <= q.year ELSE f.year = q.year
                    /\ f.geography = q.geography \/ q.anyGeography}

(* generate_government_comparator: the factors of the year, scope and GB    *)
ComparatorCandidates(q) ==
    {f \in stored : /\ f.approved /\ f.scope = q.scope
                    /\ f.year = q.year /\ f.geography = q.geography}

(* calculate_activity: any set, and levels that only the score looks at     *)
CalculationCandidates(q) ==
    {f \in stored : /\ f.approved /\ f.scope = q.scope
                    /\ IF q.previousYear THEN f.year <= q.year ELSE f.year = q.year
                    /\ f.geography = q.geography \/ q.anyGeography}

(* LIMIT without ORDER BY                                                   *)
Loaded(candidates) ==
    IF Cardinality(candidates) <= Limit THEN {candidates} ELSE kSubset(Limit, candidates)

Answer(candidates, q) ==
    /\ \E loaded \in Loaded(candidates) :
         resolution' = [query |-> q, loaded |-> loaded, answer |-> Resolution(loaded, q)]
    /\ UNCHANGED stored

(* resolve_emission_factor: level_1 or a set is named                       *)
Resolve(q) ==
    /\ resolution = None
    /\ q.text["level_1"] # None \/ q.set # None
    /\ Answer(Candidates(q), q)

Compare(q) ==
    /\ resolution = None
    /\ q.set = None /\ ~q.previousYear /\ ~q.anyGeography
    /\ Answer(ComparatorCandidates(q), q)

(* A supplier's own result takes no factor and is left out.                 *)
Calculate(q) ==
    /\ resolution = None
    /\ q.set = None
    /\ Answer(CalculationCandidates(q), q)

Next == \E q \in Queries : Resolve(q) \/ Compare(q) \/ Calculate(q)

Spec == Init /\ [][Next]_vars

----------------------------------------------------------------------------
TypeOK ==
    resolution # None =>
      /\ resolution.answer.outcome \in {"resolved", "ambiguous", "no_match"}
      /\ resolution.answer.selected \in resolution.loaded \union {None}

Rank(l, f, q) ==
    IF q.text[l] = None THEN 0
    ELSE IF f.text[l] = q.text[l] THEN 2
    ELSE IF Contains(f.text[l], q.text[l]) THEN 1 ELSE 0

(* On every criterion that was asked for, f fits at least as well as g.     *)
FitsAsWell(f, g, q) ==
    /\ f.year >= g.year
    /\ g.geography = q.geography => f.geography = q.geography
    /\ g.unit = q.unit => f.unit = q.unit
    /\ \A l \in Levels : Rank(l, f, q) >= Rank(l, g, q)
    /\ q.lifecycle # None /\ g.lifecycle = q.lifecycle => f.lifecycle = q.lifecycle

Better(f, g, q) == FitsAsWell(f, g, q) /\ ~FitsAsWell(g, f, q)

(* Whatever the weights add up to, the factor that is selected fits, no     *)
(* candidate fits better on one criterion and as well on the others, and a  *)
(* candidate that fits better than every other is selected, not reported    *)
(* ambiguous; only the age of factors more than five years old is not told  *)
(* apart (resolution.py:125-215, docs/unit-and-factor-resolution.md).       *)
BestSelected ==
    resolution # None =>
      LET q == resolution.query  selected == resolution.answer.selected
          fit == {f \in resolution.loaded : Eligible(f, q)} IN
      /\ selected # None => selected \in fit /\ \A g \in fit : ~Better(g, selected, q)
      /\ \A f \in fit :
           (\A g \in fit \ {f} : Better(f, g, q)) /\ q.year - f.year <= 5 => selected = f
=============================================================================
