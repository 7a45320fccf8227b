------------------------------- MODULE Report -------------------------------
(***************************************************************************)
(* bench/report.py over the episode ledger of bench/ledger.py.  The ledger *)
(* only grows, a row per episode, and a report may be regenerated after    *)
(* any of them: its tables are functions of the rows.  Rates keep their    *)
(* counts, and a rate over nothing has no value.                           *)
(***************************************************************************)
EXTENDS LibraryStatus, Integers, FiniteSets, FiniteSetsExt, Sequences

CONSTANTS
    Arms,
    Baseline        \* Arm.REACT, what the curves are compared with

(* What distinguishes an episode from every other of its run.               *)
Episode(r) == <<r.arm, r.fault, r.seed, r.occurrence, r.replicate>>

------------------------------------------------------------------------------
(* A row's derived verdicts: a wrong fire and a success are independent.    *)

misfired(r) ==
    /\ r.fired # None
    /\ ~(/\ r.correct # None
         /\ IF r.acceptable = {} THEN r.fired = r.correct ELSE r.fired \in r.acceptable)

Graded(rows) == {r \in rows : ~r.invalid}

Rate(rows, all) == [n |-> Cardinality(rows), d |-> Cardinality(all)]

Tokens(rows) == MapThenSumSet(LAMBDA r : r.tokens, rows)

(* A sum and the number of rows it is the mean of.                          *)
Mean(rows) == [n |-> Tokens(rows), d |-> Cardinality(rows)]

OfArm(rows, arm) == {r \in rows : r.arm = arm}

Variants(rows) == {r \in rows : r.role = "variant"}

Replays(rows) == {r \in rows : r.role = "replay"}

Fires(rows) == {r \in rows : r.fired # None}

per_fire(rows) == Rate({r \in Fires(rows) : misfired(r)}, Fires(rows))

------------------------------------------------------------------------------
(* One cell per arm, fault and occurrence; there is no total row.           *)
Cell(r) == <<r.arm, r.fault, r.occurrence>>

ablation_table(rows) ==
    [key \in {Cell(r) : r \in rows} |->
        LET group == {r \in rows : Cell(r) = key}
            graded == Graded(group)
        IN [episodes |-> Cardinality(group),
            invalid |-> Rate(group \ graded, group),
            success |-> Rate({r \in graded : r.succeeded}, graded),
            mismatch |-> Rate({r \in graded : misfired(r)}, graded),
            spec_gaming |-> Rate({r \in graded : r.intact = "lost"}, graded),
            tokens |-> Mean(graded)]]

occurrence_counts(rows) ==
    [variant |-> Cardinality(Variants(Graded(rows))),
     replay |-> Cardinality(Replays(Graded(rows)))]

(* What each fault's rows applied; "none" is a check that did not run.      *)
change_surfaces(rows) ==
    [fault \in {r.fault : r \in rows} |->
        LET applied == {r \in rows : r.fault = fault /\ r.surface # None}
            surfaces == {r.surface : r \in applied}
        IN [episodes |-> Cardinality({r \in rows : r.fault = fault}),
            applied |-> Cardinality(applied), surfaces |-> surfaces,
            disagreement |-> Cardinality(surfaces) > 1]]

(* The environments a resolution's seeds really build.                      *)
achieved_instances(rows, instance_for_seed) ==
    LET labelled == {r \in rows : r.correct # None}
    IN [key \in {<<r.fault, r.correct>> : r \in labelled} |->
           LET seeds == {r.seed : r \in {q \in labelled : <<q.fault, q.correct>> = key}}
           IN [seeds |-> Cardinality(seeds),
               instances |-> Cardinality({instance_for_seed[s] : s \in seeds})]]

------------------------------------------------------------------------------
(* The cost curve: graded replays only, an arm's spend accumulated over its *)
(* own occurrences up to each.                                              *)
Curve(rows, arm) == {r.occurrence : r \in OfArm(Replays(Graded(rows)), arm)}

cost_curve(rows, arm) ==
    LET mine == OfArm(Replays(Graded(rows)), arm)
    IN [occurrence \in Curve(rows, arm) |->
           [tokens |-> Mean({r \in mine : r.occurrence = occurrence}),
            cumulative |-> Mean({r \in mine : r.occurrence <= occurrence})]]

AtMost(a, b) == a.n * b.d <= b.n * a.d

(* The first shared occurrence at which the arm's amortized cost is not     *)
(* above the baseline's; Never when there is none.                          *)
Never == 0

break_even(rows, arm) ==
    LET shared == Curve(rows, arm) \cap Curve(rows, Baseline)
        crossed == {k \in shared : AtMost(cost_curve(rows, arm)[k].cumulative,
                                          cost_curve(rows, Baseline)[k].cumulative)}
    IN IF crossed = {} THEN Never ELSE Min(crossed)

------------------------------------------------------------------------------
(* Arm 2 against arm 3, over common (fault, occurrence) strata, each side   *)
(* keeping as many of a stratum's rows as the other has, in seed order.     *)
Stratum(r) == <<r.fault, r.occurrence>>

Kept(side, other) ==
    {r \in side :
        Cardinality({q \in side : Stratum(q) = Stratum(r) /\ (q.seed < r.seed
                        \/ (q.seed = r.seed /\ q.replicate < r.replicate))})
            < Cardinality({q \in other : Stratum(q) = Stratum(r)})}

mismatch_comparison(rows) ==
    LET independent == Variants(Graded(rows))
        arm2 == OfArm(independent, "semantic")
        arm3 == OfArm(independent, "precondition")
        Side(available, matched) ==
            [available |-> Cardinality(available), matched |-> matched,
             mismatch |-> Rate({r \in matched : misfired(r)}, matched)]
    IN [semantic |-> Side(arm2, Kept(arm2, arm3)),
        precondition |-> Side(arm3, Kept(arm3, arm2)),
        replays_excluded |-> Cardinality(Replays(Graded(rows)))]

(* Figure 3: dispatch x admission, refused when a gate is unknown or names  *)
(* more than one library.                                                   *)
DispatchRows(rows) ==
    Variants(Graded({r \in rows : r.arm \in {"semantic", "precondition"}}))

FactorialRefused(rows) ==
    LET dispatched == DispatchRows(rows)
    IN \/ \E r \in dispatched : r.gate = None
       \/ \E r, q \in dispatched : r.gate = q.gate /\ r.library # q.library

admission_factorial(rows) ==
    LET dispatched == DispatchRows(rows)
    IN [key \in {<<r.arm, r.gate>> : r \in dispatched} |->
           LET cell == {r \in dispatched : <<r.arm, r.gate>> = key}
           IN [episodes |-> Cardinality(cell), coverage |-> Rate(Fires(cell), cell),
               mismatch |-> per_fire(cell)]]

(* One resample of the clustered bootstrap: `sample` draws instances with   *)
(* replacement, each with all its rows.  No fire on a side, no difference.  *)
difference(rows, instance, sample) ==
    LET Drawn(arm) == {<<i, r>> \in (DOMAIN sample) \X DispatchRows(rows) :
                          r.arm = arm /\ instance[r.fault, r.seed] = sample[i]}
        fired(arm) == {x \in Drawn(arm) : x[2].fired # None}
        wrong(arm) == {x \in fired(arm) : misfired(x[2])}
        n2 == Cardinality(fired("semantic"))
        n3 == Cardinality(fired("precondition"))
    IN IF n2 = 0 \/ n3 = 0 THEN <<>>
       ELSE <<[n |-> Cardinality(wrong("semantic")) * n3 - Cardinality(wrong("precondition")) * n2,
               d |-> n2 * n3]>>

------------------------------------------------------------------------------
(* Success, cost per episode and cost per success, together.                *)
arm_triples(rows) ==
    [arm \in {r.arm : r \in Graded(rows)} |->
        LET mine == OfArm(Graded(rows), arm)
            successes == {r \in mine : r.succeeded}
        IN [success |-> Rate(successes, mine), tokens_per_episode |-> Mean(mine),
            tokens_per_success |-> [n |-> Tokens(mine), d |-> Cardinality(successes)]]]

NoWorse(a, b) ==
    /\ AtMost(b.success, a.success)
    /\ AtMost(a.tokens_per_episode, b.tokens_per_episode)
    /\ AtMost(a.tokens_per_success, b.tokens_per_success)

Dominates(a, b) == NoWorse(a, b) /\ ~NoWorse(b, a)

(* An arm without a success has no cost per success and is not ranked.      *)
pareto_frontier(rows) ==
    LET triples == arm_triples(rows)
        ranked == {arm \in DOMAIN triples : triples[arm].tokens_per_success.d > 0}
        beaten(arm) == {other \in ranked : Dominates(triples[other], triples[arm])}
    IN [frontier |-> {arm \in ranked : beaten(arm) = {}},
        dominated_by |-> [arm \in {a \in ranked : beaten(a) # {}} |-> beaten(arm)],
        unranked |-> DOMAIN triples \ ranked]

------------------------------------------------------------------------------
(* The equivalence test.  Rates are in thousandths, variances in            *)
(* millionths; z squared is 2.7 at the registered alpha.                    *)

EQUIVALENCE_MARGIN == 100

PerMille(rate) == (1000 * rate.n) \div rate.d

(* Agresti-Coull: z^2 / 2 added to the successes, z^2 to the trials.        *)
adjusted_variance(rate) ==
    LET p == (1000 * (20 * rate.n + 27)) \div (20 * rate.d + 54)
    IN (p * (1000 - p) * 20) \div (20 * rate.d + 54)

(* Whether x, in thousandths, exceeds z standard errors of the difference.  *)
Exceeds(x, first, second) ==
    /\ x > 0
    /\ x * x > ((adjusted_variance(first) + adjusted_variance(second)) * 27) \div 10

(* The reason a report prints.  `inside` is low > -margin and high < margin, *)
(* of the interval difference +/- z standard errors.                        *)
tost_equivalence(first, second) ==
    IF first.d = 0 \/ second.d = 0 THEN "no test"
    ELSE LET diff == PerMille(first) - PerMille(second)
             low_above == Exceeds(diff + EQUIVALENCE_MARGIN, first, second)
             high_below == Exceeds(EQUIVALENCE_MARGIN - diff, first, second)
         IN IF low_above /\ high_below THEN "equivalent"
            ELSE IF low_above \/ high_below THEN "differ by more than the margin"
            ELSE "underpowered"

success_rate_wording(first, second) ==
    IF tost_equivalence(first, second) = "equivalent" THEN "equal" ELSE "comparable"

(* The Wilson lower bound exceeds chance, 1 / candidates: the score test of *)
(* chance rejects it.  z squared is 3.84.                                   *)
arm2_baseline_floor(decided, decidable, choices) ==
    LET above == choices * decided - decidable
    IN decidable > 0 /\ above > 0
       /\ 100 * above * above > 384 * decidable * (choices - 1)

=============================================================================
