------------------------------ MODULE MCPairs ------------------------------
(***************************************************************************)
(* The analyses of an experiment's pairs: every experiment of up to three  *)
(* pairs over two resolutions, one of them sometimes acceptable beside the *)
(* label, and three scores; then two intents, one of which also labels the *)
(* other's state, three boxes, libraries of up to two programs and every   *)
(* ranking of them.                                                        *)
(***************************************************************************)
EXTENDS Integers, FiniteSets, Sequences

LOCAL PA == INSTANCE PairAnalysis

LOCAL None == "none"

LOCAL Labels == {<<None, {}>>, <<"a", {}>>, <<"a", {"a", "b"}>>}

LOCAL Fires == {<<None, -1>>} \cup ({"a", "b"} \X (0 .. 2))

LOCAL Outcomes ==
    {[correct_variant |-> l[1], acceptable_variants |-> l[2],
      fired_variant |-> f[1], score |-> f[2], informed |-> FALSE] : l \in Labels, f \in Fires}

LOCAL Experiments == UNION {[1 .. n -> Outcomes] : n \in {1, 3}}

LOCAL NeverFires == 3

LOCAL Unscored(e) == [i \in DOMAIN e |-> [e[i] EXCEPT !.score = -1]]

(* Every floor that fires anything fires what a point of the curve fires:   *)
(* the sweep misses no achievable operating point (coverage.py:133).        *)
ASSUME SweepMissesNothing ==
    \A e \in Experiments :
        LET curve == PA!sweep(e)
        IN /\ \A t \in 0 .. NeverFires :
                  \/ PA!Fired(e, t) = {}
                  \/ \E n \in DOMAIN curve :
                        PA!Fired(e, t) = PA!Fired(e, curve[n].threshold)
           /\ \A n \in 1 .. Len(curve) - 1 : curve[n].fires < curve[n + 1].fires

(* No floor at all decides more of the tune pairs correctly than the learned *)
(* one, and none above it as many (soft_vote.py:130).                       *)
ASSUME LearnedFloorIsBest ==
    \A e \in Experiments :
        LET best == PA!learn_soft_threshold(e, NeverFires)
        IN /\ \A t \in 0 .. NeverFires :
                  PA!correct_decisions(e, t) <= PA!correct_decisions(e, best)
           /\ \A t \in best + 1 .. NeverFires :
                  PA!correct_decisions(e, t) < PA!correct_decisions(e, best)

(* Arm 3 is the answer key exactly when it fires on every positive and      *)
(* nothing else and never wrongly (coverage.py:205).                        *)
ASSUME VacuousIsTheAnswerKey ==
    \A e \in Experiments :
        PA!vacuous_reason(e) <=>
            /\ PA!Wrong(e, -1) = {}
            /\ PA!Fired(e, -1) = {i \in DOMAIN e : e[i].correct_variant # None}

(* The point compared is one of arm 2's own, and none is nearer arm 3's     *)
(* coverage: equal coverage is compared at equal coverage (coverage.py:168) *)
ASSUME MatchedIsNearest ==
    \A e \in Experiments :
        LET report == PA!primary_report(e, Unscored(e))
            curve == report.curve
            arm2 == report.matched[1].arm2
        IN curve # <<>> =>
               /\ \E n \in DOMAIN curve : arm2 = curve[n]
               /\ \A n \in DOMAIN curve :
                      PA!Abs(arm2.fires - report.arm3.fires)
                          <= PA!Abs(curve[n].fires - report.arm3.fires)
               /\ report.vacuous => arm2.wrong = 0 /\ report.power[1].at_observed_rate = <<>>

------------------------------------------------------------------------------

LOCAL Env(e) == [environment |-> e, seed |-> 0]

LOCAL Boxes == {Env("fault-free"), Env("f"), Env("g")}

LOCAL Intent(name, fault, correct) ==
    [name |-> name, fault |-> fault, correct_variant |-> correct,
     acceptable_variants |-> [s \in DOMAIN correct |->
                                 IF correct[s] = "none" THEN {} ELSE {correct[s]}],
     is_ambiguous |-> TRUE, informed_states |-> {}]

LOCAL LabelledBy(a, b) == [s \in {"fault-free", "f", "g"} |->
                          IF s = "f" THEN a ELSE IF s = "g" THEN b ELSE "none"]

LOCAL Intents == {Intent("sync", "f", LabelledBy("rebase", "none")),
                  Intent("keep", "g", LabelledBy("stash", "stash"))}

LOCAL State == [b \in Boxes |-> b.environment]

LOCAL Holding == [b \in Boxes |-> IF b = Env("f") THEN {"x"}
                                  ELSE IF b = Env("g") THEN {"x", "y"} ELSE {}]

LOCAL Asked(name) == <<[slots |-> {}, word |-> name]>>

LOCAL Requests == [n \in {"sync", "keep"} |-> [s \in {0} |-> Asked(n)]]

LOCAL ProgramsOf(id) ==
    {[id |-> id, status |-> s, pre |-> pre, variant |-> v, fault |-> "f",
      compiled_from_task |-> Asked("sync")] :
        s \in {"admitted", "demoted"}, pre \in {{}, {"x"}, {"x", "y"}},
        v \in {"rebase", "stash"}}

LOCAL Libraries == {{}} \cup {{a} : a \in ProgramsOf(1)}
                   \cup {{a, b} : a \in ProgramsOf(1), b \in ProgramsOf(2)}

LOCAL Scored(f) ==
    [n \in {"sync", "keep"} |->
        [b \in Boxes |-> [i \in {1, 2} |-> [n |-> f[<<n, i>>], d |-> 2]]]]

LOCAL Rankings == {Scored(f) : f \in [{"sync", "keep"} \X {1, 2} -> {0, 1}]}

LOCAL LP(sim) ==
    INSTANCE LibraryPairs WITH Boxes <- Boxes, Intents <- Intents, StateOf <- State,
                               Holds <- Holding, RequestOf <- Requests, Similarity <- sim

LOCAL Floors == {[n |-> n, d |-> 2] : n \in 0 .. 2}

(* With the whole ranking and no floor the hybrid fires exactly where arm 3 *)
(* fires; with one program it fires arm 2's choice or nothing.              *)
ASSUME HybridSpansTheArms ==
    \A sim \in Rankings, lib \in Libraries :
        LET whole == LP(sim)!hybrid_outcomes(lib, 0, [n |-> 0, d |-> 1])
            one == LP(sim)!hybrid_outcomes(lib, 1, [n |-> 0, d |-> 1])
            arms == LP(sim)!library_pair_outcomes(lib)
        IN \A p \in LP(sim)!pairs :
               /\ (whole[p].fired_variant = None) <=> (arms.arm3[p].fired_variant = None)
               /\ one[p].fired_variant \in {None, arms.arm2[p].fired_variant}

(* A wider k or a lower floor keeps every decision already made.            *)
ASSUME WideningKeepsDecisions ==
    \A sim \in Rankings, lib \in Libraries :
        \A k \in {1, 2}, high \in Floors, low \in Floors :
            low.n <= high.n =>
                LET narrow == LP(sim)!hybrid_outcomes(lib, k, high)
                    wide == LP(sim)!hybrid_outcomes(lib, IF k = 1 THEN 2 ELSE 0, low)
                IN \A p \in LP(sim)!pairs :
                       narrow[p].fired_variant \in {None, wide[p].fired_variant}

(* Stopping at the first acceptance decides what probing every program does *)
(* and never evaluates more (probe_cost.py:98).                             *)
ASSUME LazyDecidesTheSame ==
    \A sim \in Rankings, lib \in Libraries, k \in {0, 1} :
        \A p \in LP(sim)!pairs :
            LET row == LP(sim)!cost_row(lib, p, k)
            IN /\ row.lazy.fired_variant = row.every.fired_variant
               /\ row.lazy.predicates <= row.every.predicates
               /\ row.hybrid.fired_variant =
                      LP(sim)!hybrid_outcomes(lib, k, [n |-> 0, d |-> 1])[p].fired_variant

(* The soft vote held to all its probes is arm 3 on every pair, and the     *)
(* abstention and held-out reports count what Figure 1 counts.              *)
ASSUME ReportsAgree ==
    \A lib \in Libraries : \A sim \in {CHOOSE s \in Rankings : TRUE} :
        LET arms == LP(sim)!library_pair_outcomes(lib)
            arm3 == LP(sim)!operating_point(arms.arm3, -1)
            hard == LP(sim)!operating_point(arms.soft_vote, 60)
            missed == LP(sim)!abstentions(lib)
        IN /\ hard.fires = arm3.fires /\ hard.wrong = arm3.wrong
           /\ missed.arm3_fires = arm3.fires
           /\ missed.positives + missed.negatives = arm3.pairs
           /\ Cardinality(missed.abstentions)
                  = missed.positives - (missed.arm3_fires - missed.arm3_fires_on_negatives)
           /\ Cardinality(LP(sim)!wrong_fires(arms.arm3)) = arm3.wrong
           /\ \A e \in LP(sim)!widest_zero_mismatch(LP(sim)!hybrid_points(lib, {0, 1}), 1) :
                  e.point.wrong = 0 /\ e.point.fires <= arm3.fires

=============================================================================
