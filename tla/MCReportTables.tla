--------------------------- MODULE MCReportTables ---------------------------
(* The report's tables over every ledger of up to four rows of four shapes  *)
(* per arm, a fifth row added to each.                                      *)
EXTENDS Integers, FiniteSets, Sequences

LOCAL R == INSTANCE Report WITH Arms <- {"react", "semantic", "precondition"},
                                Baseline <- "react"

LOCAL Row(arm, occurrence, shape) ==
    [arm |-> arm, fault |-> "f", seed |-> occurrence, occurrence |-> occurrence,
     replicate |-> 1, invalid |-> shape = "invalid", role |-> shape,
     succeeded |-> shape = "variant" \/ (shape = "replay" /\ occurrence = 1),
     fired |-> IF arm = "react" THEN "none" ELSE IF occurrence = 1 THEN "a" ELSE "b",
     correct |-> "a", acceptable |-> {}, tokens |-> IF shape = "replay" THEN 1 ELSE 3,
     intact |-> "kept", surface |-> "none", gate |-> IF occurrence = 1 THEN "two" ELSE "pos",
     library |-> IF arm = "semantic" THEN "l1" ELSE "l2"]

LOCAL Rows ==
    {Row(arm, occurrence, shape) :
        arm \in {"react", "semantic", "precondition"}, occurrence \in 1 .. 2,
        shape \in {"variant", "replay", "invalid"}}

LOCAL One(L) == \A r, q \in L : r # q => R!Episode(r) # R!Episode(q)

LOCAL Ledgers == {L \in {{a, b, c, d} : a, b, c, d \in Rows} : One(L)}

(* The matched sides have the same number of rows, stratum by stratum, and  *)
(* leave out only what the other side lacks (report.py:960).                *)
ASSUME MatchedOnN ==
    \A L \in Ledgers :
        LET found == R!mismatch_comparison(L)
            Of(side, s) == {r \in side : R!Stratum(r) = s}
        IN \A s \in {R!Stratum(r) : r \in L} :
               /\ Cardinality(Of(found.semantic.matched, s))
                      = Cardinality(Of(found.precondition.matched, s))
               /\ \/ Of(found.semantic.matched, s) # {}
                  \/ \A r, q \in Of(R!Variants(R!Graded(L)), s) :
                        ~(r.arm = "semantic" /\ q.arm = "precondition")

(* An episode that could not be graded changes the invalid rate and no      *)
(* other: it cannot be right, wrong or cheap (report.py:669).               *)
ASSUME InvalidMovesNothing ==
    \A L \in Ledgers :
        LET kept == R!Graded(L)
        IN /\ R!arm_triples(L) = R!arm_triples(kept)
           /\ R!mismatch_comparison(L) = R!mismatch_comparison(kept)
           /\ R!occurrence_counts(L) = R!occurrence_counts(kept)
           /\ \A arm \in {"semantic", "precondition"} :
                  R!break_even(L, arm) = R!break_even(kept, arm)

(* The crossing is the first shared occurrence at which the arm is not      *)
(* dearer, and rows of later occurrences never move it (report.py:822).     *)
ASSUME CrossingStays ==
    \A L \in Ledgers, arm \in {"semantic", "precondition"} :
        LET k == R!break_even(L, arm)
        IN k # R!Never => R!break_even({r \in L : r.occurrence <= k}, arm) = k

(* A refused factorial stays refused whatever is appended, and one that is  *)
(* not has one library per gate (report.py:1082).                           *)
ASSUME RefusalIsFinal ==
    \A L \in Ledgers : R!FactorialRefused(L) =>
        \A r \in Rows : One(L \cup {r}) => R!FactorialRefused(L \cup {r})

(* Someone is on the frontier whenever anyone is ranked, and whoever is     *)
(* beaten is beaten by an arm on it (report.py:1340).                       *)
ASSUME FrontierDominates ==
    \A L \in Ledgers :
        LET found == R!pareto_frontier(L)
        IN \A arm \in DOMAIN found.dominated_by :
               found.dominated_by[arm] \cap found.frontier # {}

(* Resampling every instance once is the whole sample (report.py:1240).     *)
ASSUME EachOnceIsTheSample ==
    \A L \in Ledgers :
        LET instance == [x \in {"f"} \X (1 .. 2) |-> x[2]]
            drawn == R!difference(L, instance, <<1, 2>>)
            arm2 == R!per_fire(R!OfArm(R!DispatchRows(L), "semantic"))
            arm3 == R!per_fire(R!OfArm(R!DispatchRows(L), "precondition"))
        IN /\ (drawn = <<>>) <=> (arm2.d = 0 \/ arm3.d = 0)
           /\ drawn # <<>> => drawn[1].n = arm2.n * arm3.d - arm3.n * arm2.d

(* An interval with one end beyond the margin is worded as a difference     *)
(* larger than the margin, though it holds smaller ones too: 1 of 2    *)
(* against 0 of 1.  The other way round of it, an interval the margin       *)
(* holds, is "equivalent" (report.py:343, against its docstring, 264-269).  *)
ASSUME OneSidedIsWordedAsDifference ==
    LET half == [n |-> 1, d |-> 2]
        none == [n |-> 0, d |-> 1]
        diff == R!PerMille(half) - R!PerMille(none)
    IN /\ R!tost_equivalence(half, none) = "differ by more than the margin"
       /\ ~R!Exceeds(diff - R!EQUIVALENCE_MARGIN, half, none)
       /\ R!tost_equivalence([n |-> 500, d |-> 1000], [n |-> 500, d |-> 1000]) = "equivalent"

(* The floor of 13 of 24 at three choices, where 12 of 24 does not clear it *)
(* (report.py:402).                                                         *)
ASSUME FloorBoundary == R!arm2_baseline_floor(13, 24, 3) /\ ~R!arm2_baseline_floor(12, 24, 3)

=============================================================================
