---------------------------- MODULE PairAnalysis ----------------------------
(***************************************************************************)
(* The pair-level analysis: bench/pairs.py, coverage.py, soft_vote.py and  *)
(* primary.py.  Pure: an experiment is a function from a finite set of     *)
(* pairs to what one dispatcher did on each of them, its outcome.  A score *)
(* is its place among the scores that occur; Unscored is below all of them *)
(* and NoFloor admits it, so a dispatcher without a score is a scored one  *)
(* that is only ever asked at NoFloor.                                     *)
(***************************************************************************)
EXTENDS LibraryStatus, Integers, FiniteSets, Sequences

Unscored == -1

NoFloor == -1

Outcome(Variants, Scores) ==
    [correct_variant : Variants \cup {None}, acceptable_variants : SUBSET Variants,
     fired_variant : Variants \cup {None}, score : Scores \cup {Unscored},
     informed : BOOLEAN]

(* program.accepts: the one rule that says whether a fire is right.         *)
accepts(correct, acceptable, fired) ==
    /\ correct # None
    /\ IF acceptable = {} THEN fired = correct ELSE fired \in acceptable

fire_is_right(o, variant) == accepts(o.correct_variant, o.acceptable_variants, variant)

(* What the dispatcher decides when it fires `decision`, None to abstain.   *)
DecidedCorrectly(o, decision) ==
    IF decision = None THEN o.correct_variant = None ELSE fire_is_right(o, decision)

decided_correctly(o) == DecidedCorrectly(o, o.fired_variant)

------------------------------------------------------------------------------
(* pairs.py: what the pairs are and what is right on them.                  *)

(* One instance in one request channel.  A label is a function of the state *)
(* alone: the channel decides the wording and nothing else.                 *)
label(intent, seed, state, uninformed) ==
    [intent |-> intent.name, seed |-> seed, state |-> state,
     correct_variant |-> intent.correct_variant[state],
     acceptable_variants |-> intent.acceptable_variants[state],
     ambiguous |-> intent.is_ambiguous,
     informed |-> ~uninformed /\ state \in intent.informed_states]

(* Every state and seed in its declared channel, and once more uninformed   *)
(* where that channel is informed.                                          *)
labelled_pairs(intent, states, seeds) ==
    {label(intent, seed, state, FALSE) : seed \in seeds, state \in states}
    \cup {label(intent, seed, state, TRUE) :
             seed \in seeds, state \in states \cap intent.informed_states}

decision_is_correct(pair, candidate_variant) ==
    accepts(pair.correct_variant, pair.acceptable_variants, candidate_variant)

positive_subset(pairs) == {p \in pairs : p.correct_variant # None}

ambiguous_subset(pairs) == {p \in pairs : p.ambiguous}

denominator_report(pairs) ==
    [pairs |-> Cardinality(pairs), ambiguous |-> Cardinality(ambiguous_subset(pairs)),
     positive |-> Cardinality(positive_subset(pairs)),
     negative |-> Cardinality(pairs) - Cardinality(positive_subset(pairs))]

------------------------------------------------------------------------------
(* coverage.py: operating points, and the one comparison stated of them.    *)

(* Informed and uninformed pairs are never pooled (ADR-0004).               *)
OneRegime(outcomes) == \A i, j \in DOMAIN outcomes : outcomes[i].informed = outcomes[j].informed

fires(o, threshold) == o.fired_variant # None /\ o.score >= threshold

Fired(outcomes, threshold) == {i \in DOMAIN outcomes : fires(outcomes[i], threshold)}

Wrong(outcomes, threshold) ==
    {i \in Fired(outcomes, threshold) : ~fire_is_right(outcomes[i], outcomes[i].fired_variant)}

(* Coverage is fires / pairs, mismatch wrong / fires; no fires, no rate.    *)
operating_point(outcomes, threshold) ==
    [threshold |-> threshold, fires |-> Cardinality(Fired(outcomes, threshold)),
     wrong |-> Cardinality(Wrong(outcomes, threshold)),
     pairs |-> Cardinality(DOMAIN outcomes)]

(* The scores something fires at: the floors at which the fired set changes *)
Floors(outcomes) ==
    {outcomes[i].score : i \in {j \in DOMAIN outcomes : outcomes[j].fired_variant # None}}

(* A curve needs a score on every fire; it lists its points strictest first *)
Sweepable(outcomes) == OneRegime(outcomes) /\ Unscored \notin Floors(outcomes)

sweep(outcomes) ==
    LET floors == Floors(outcomes)
        Strictness(t) == 1 + Cardinality({u \in floors : u > t})
    IN [n \in 1 .. Cardinality(floors) |->
           operating_point(outcomes, CHOOSE t \in floors : Strictness(t) = n)]

Abs(n) == IF n < 0 THEN -n ELSE n

(* How far a point's coverage is from another's, as an exact fraction.      *)
CoverageGap(p, q) ==
    [n |-> Abs(p.fires * q.pairs - q.fires * p.pairs), d |-> p.pairs * q.pairs]

Below(a, b) == a.n * b.d < b.n * a.d

(* Arm 2's point nearest arm 3's coverage; a tie goes to the lower coverage *)
(* and then to the stricter floor, which the curve lists first.             *)
Matched(curve, arm3) ==
    LET Nearer(p, q) ==
            \/ Below(CoverageGap(p, arm3), CoverageGap(q, arm3))
            \/ /\ ~Below(CoverageGap(q, arm3), CoverageGap(p, arm3))
               /\ p.fires * q.pairs < q.fires * p.pairs
        candidates == {i \in DOMAIN curve : curve[i].pairs > 0}
    IN CHOOSE i \in candidates :
           \A j \in candidates : ~Nearer(curve[j], curve[i]) /\ (Nearer(curve[i], curve[j]) \/ i <= j)

(* The difference is arm 2's mismatch less arm 3's, absent when either arm  *)
(* fired nothing.                                                           *)
matched_comparison(curve, arm3) ==
    LET arm2 == curve[Matched(curve, arm3)]
    IN [arm2 |-> arm2, arm3 |-> arm3,
        difference |-> IF arm2.fires = 0 \/ arm3.fires = 0 THEN <<>>
                       ELSE <<[n |-> arm2.wrong * arm3.fires - arm3.wrong * arm2.fires,
                               d |-> arm2.fires * arm3.fires]>>]

(* An arm that decides every pair correctly is the labelling rule, and      *)
(* comparing with it compares with the answer key.                          *)
vacuous_reason(outcomes) ==
    DOMAIN outcomes # {} /\ \A i \in DOMAIN outcomes : decided_correctly(outcomes[i])

(* The variance a detectable difference is the root of, at base rate r:     *)
(* r (1 - r) (1 / fires_a + 1 / fires_b); absent when an arm fired nothing. *)
detectable_difference(fires_a, fires_b, r) ==
    IF fires_a <= 0 \/ fires_b <= 0 THEN <<>>
    ELSE <<[n |-> r.n * (r.d - r.n) * (fires_a + fires_b), d |-> r.d * r.d * fires_a * fires_b]>>

------------------------------------------------------------------------------
(* primary.py: Figure 1, for one regime.                                    *)

(* A scored dispatcher is a curve, any other one a point.                   *)
dispatcher(outcomes) ==
    IF \E i \in DOMAIN outcomes : outcomes[i].score # Unscored THEN sweep(outcomes)
    ELSE <<operating_point(outcomes, NoFloor)>>

(* The power statement is given at the rate with the least power, and at    *)
(* the pooled rate when that is informative.                                *)
power_statement(matched) ==
    LET observed == [n |-> matched.arm2.wrong + matched.arm3.wrong,
                     d |-> matched.arm2.fires + matched.arm3.fires]
        At(r) == detectable_difference(matched.arm2.fires, matched.arm3.fires, r)
    IN [at_conservative_rate |-> At([n |-> 1, d |-> 2]),
        at_observed_rate |-> IF 0 < observed.n /\ observed.n < observed.d THEN At(observed)
                             ELSE <<>>]

Reportable(arm2, arm3, baselines) ==
    /\ DOMAIN arm3 # {}
    /\ \A outcomes \in {arm2} \cup baselines :
           /\ Cardinality(DOMAIN outcomes) = Cardinality(DOMAIN arm3)
           /\ \A i \in DOMAIN outcomes, j \in DOMAIN arm3 : outcomes[i].informed = arm3[j].informed
           /\ OneRegime(outcomes)

primary_report(arm2_outcomes, arm3_outcomes) ==
    LET arm3 == operating_point(arm3_outcomes, NoFloor)
        curve == SelectSeq(dispatcher(arm2_outcomes), LAMBDA p : p.fires > 0)
        matched == IF curve = <<>> THEN <<>> ELSE <<matched_comparison(curve, arm3)>>
    IN [arm3 |-> arm3, curve |-> curve, vacuous |-> vacuous_reason(arm3_outcomes),
        matched |-> matched,
        power |-> IF matched = <<>> THEN <<>> ELSE <<power_statement(matched[1])>>]

------------------------------------------------------------------------------
(* soft_vote.py: arm 2b's threshold, and when Claim 2 must be restated.     *)

(* The fault injected at the seed is a positive with the state's label, the *)
(* clean sandbox a negative; the vote's top choice is what it fires.        *)
soft_vote_outcomes(label_of, ranked) ==
    [b \in DOMAIN ranked |->
        [correct_variant |-> IF b.injected THEN label_of[b].correct ELSE None,
         acceptable_variants |-> IF b.injected THEN label_of[b].acceptable ELSE {},
         fired_variant |-> IF ranked[b] = <<>> THEN None ELSE ranked[b][1].variant,
         score |-> IF ranked[b] = <<>> THEN Unscored ELSE ranked[b][1].score,
         informed |-> FALSE]]

decision(o, threshold) == IF fires(o, threshold) THEN o.fired_variant ELSE None

correct_decisions(outcomes, threshold) ==
    Cardinality({i \in DOMAIN outcomes :
                    DecidedCorrectly(outcomes[i], decision(outcomes[i], threshold))})

(* Most correct decisions among the floors that occur and never firing at   *)
(* all; ties go to the stricter floor.                                      *)
learn_soft_threshold(outcomes, NEVER_FIRES) ==
    LET candidates == (Floors(outcomes) \ {Unscored}) \cup {NEVER_FIRES}
        Correct(t) == correct_decisions(outcomes, t)
    IN CHOOSE t \in candidates :
           \A u \in candidates : \/ Correct(u) < Correct(t)
                                 \/ Correct(u) = Correct(t) /\ u <= t

(* Claim 2 is restated when the soft vote ties arm 3 at matched coverage,   *)
(* unless the matched point is the hard rule itself.  `equivalence` is the  *)
(* TOST's answer, which it gives only when both arms fired.                 *)
claim2_verdict(soft_curve, arm3, hard_rule, equivalence) ==
    LET matched == matched_comparison(soft_curve, arm3)
        collapsed == matched.arm2.threshold >= hard_rule
    IN [collapsed |-> collapsed,
        restate |-> ~collapsed /\ matched.difference # <<>> /\ equivalence]

=============================================================================
