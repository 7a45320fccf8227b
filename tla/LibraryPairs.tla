---------------------------- MODULE LibraryPairs ----------------------------
(***************************************************************************)
(* A compiled library measured on labelled pairs: bench/library_pairs.py   *)
(* builds every pair's sandbox and asks each arm's own matcher, hybrid.py  *)
(* derives the arm that retrieves by text and gates by preconditions,      *)
(* probe_cost.py prices both when they stop at the first acceptance,       *)
(* abstentions.py explains what arm 3 does not fire on and heldout.py what *)
(* it fires wrongly.  No sandbox is built twice: the later readings use    *)
(* the recorded accepted list and complete ranking.                        *)
(***************************************************************************)
EXTENDS PairAnalysis

M == INSTANCE Matchers

CONSTANTS
    Intents,      \* the ambiguous intents, with their labelling rules
    Boxes,        \* what is built: [environment, seed], the environment a fault or FaultFree
    StateOf,      \* per box, its fingerprint
    Holds,        \* per box, the predicates that hold in it
    RequestOf,    \* per intent and seed, the request's tokens
    Similarity    \* per intent, box and program id, arm 2's score

FaultFree == "fault-free"

------------------------------------------------------------------------------
(* library_pairs.py.                                                        *)

(* The fault-free sandbox and the intent's own fault always make a pair,    *)
(* another fault's state only when the intent labels it (ADR-0022).         *)
is_pair(environment, intent, pair) ==
    environment \in {FaultFree, intent.fault} \/ pair.correct_variant # None

(* Every request is sent in the uninformed channel.                         *)
pairs ==
    {p \in [box : Boxes, intent : Intents] :
        is_pair(p.box.environment, p.intent,
                label(p.intent, p.box.seed, StateOf[p.box], TRUE))}

labelled(p) == label(p.intent, p.box.seed, StateOf[p.box], TRUE)

(* The state-reading arms decide once per box; the text ranking has no      *)
(* floor and no limit, so later readings can apply their own.               *)
accepted(lib, p) == M!match_preconditions(lib, Holds[p.box])

text_score(lib, p) == [q \in lib |-> Similarity[p.intent.name][p.box][q.id]]

ranked(lib, p) ==
    M!match_semantic(lib, text_score(lib, p), <<>>, 0, M!Zero, Cardinality(lib))

outcome(p, chosen, scores) ==
    [correct_variant |-> labelled(p).correct_variant,
     acceptable_variants |-> labelled(p).acceptable_variants,
     fired_variant |-> IF chosen = <<>> THEN None ELSE chosen[1].variant,
     score |-> IF chosen = <<>> THEN Unscored ELSE scores[chosen[1]],
     informed |-> FALSE]

(* A fraction's place among those that can occur: Ticks is a common multiple *)
(* of the denominators.                                                     *)
Ticks == 60

InTicks(score) == (score.n * Ticks) \div score.d

library_pair_outcomes(lib) ==
    LET none == [q \in lib |-> Unscored]
        text(p) == [q \in lib |-> InTicks(text_score(lib, p)[q])]
        vote(p) == [q \in lib |-> InTicks(M!soft_vote_score(q, Holds[p.box]))]
        request(p) == RequestOf[p.intent.name][p.box.seed]
    IN [arm2 |-> [p \in pairs |-> outcome(p, ranked(lib, p), text(p))],
        arm3 |-> [p \in pairs |-> outcome(p, accepted(lib, p), none)],
        soft_vote |-> [p \in pairs |-> outcome(p, M!rank_soft(lib, Holds[p.box]), vote(p))],
        intent_key |-> [p \in pairs |-> outcome(p, M!agreeing(lib, request(p)), none)]]

------------------------------------------------------------------------------
(* hybrid.py: walk down the ranking, at most k programs and none below the  *)
(* floor, to the first the environment accepts.  NoLimit is k = None.       *)

NoLimit == 0

Reached(ranking, score, k, floor) ==
    {i \in DOMAIN ranking :
        /\ k # NoLimit => i <= k
        /\ \A j \in 1 .. i : ~M!Below(score[ranking[j]], floor)}

hybrid_decision(ranking, score, gate, k, floor) ==
    LET open == {i \in Reached(ranking, score, k, floor) : ranking[i] \in gate}
    IN IF open = {} THEN None ELSE ranking[CHOOSE i \in open : \A j \in open : i <= j].variant

Gate(lib, p) == {accepted(lib, p)[i] : i \in DOMAIN accepted(lib, p)}

hybrid_outcomes(lib, k, floor) ==
    [p \in pairs |->
        [correct_variant |-> labelled(p).correct_variant,
         acceptable_variants |-> labelled(p).acceptable_variants,
         fired_variant |->
            hybrid_decision(ranked(lib, p), text_score(lib, p), Gate(lib, p), k, floor),
         score |-> Unscored, informed |-> FALSE]]

(* Every score that occurs, and no floor at all.                            *)
threshold_grid(lib) ==
    {text_score(lib, p)[q] : p \in pairs, q \in M!Admitted(lib)} \cup {M!Zero}

hybrid_points(lib, ks) ==
    {[k |-> k, floor |-> floor,
      point |-> operating_point(hybrid_outcomes(lib, k, floor), NoFloor)] :
        k \in ks, floor \in threshold_grid(lib)}

(* Per k, the point with the most fires among those that never mis-fired;   *)
(* the first found wins a tie, and the grid runs strictest first.           *)
widest_zero_mismatch(points, k) ==
    LET clean == {e \in points : e.k = k /\ e.point.wrong = 0 /\ e.point.fires > 0}
    IN {e \in clean : \A other \in clean :
            \/ other.point.fires < e.point.fires
            \/ other.point.fires = e.point.fires /\ ~M!Below(e.floor, other.floor)}

------------------------------------------------------------------------------
(* probe_cost.py: the same decisions, evaluating programs one at a time.    *)

Cost(seq, n) ==
    LET spent[i \in 0 .. n] == IF i = 0 THEN 0 ELSE spent[i - 1] + Cardinality(seq[i].pre)
    IN spent[n]

walk(order, gate) ==
    LET open == {i \in DOMAIN order : order[i] \in gate}
        stop == IF open = {} THEN Len(order) ELSE CHOOSE i \in open : \A j \in open : i <= j
    IN [fired_variant |-> IF open = {} THEN None ELSE order[stop].variant,
        programs |-> stop, predicates |-> Cost(order, stop)]

specific(lib) == M!Sorted(M!Admitted(lib), M!SpecificBefore)

Capped(ranking, k) ==
    IF k = NoLimit \/ Len(ranking) <= k THEN ranking ELSE SubSeq(ranking, 1, k)

(* What one pair costs when every program is probed, when arm 3 stops at    *)
(* the first that holds, and when the hybrid does.                          *)
cost_row(lib, p, k) ==
    [every |-> [fired_variant |-> IF accepted(lib, p) = <<>> THEN None
                                  ELSE accepted(lib, p)[1].variant,
                programs |-> Len(specific(lib)),
                predicates |-> Cost(specific(lib), Len(specific(lib)))],
     lazy |-> walk(specific(lib), Gate(lib, p)),
     hybrid |-> walk(Capped(ranked(lib, p), k), Gate(lib, p))]

------------------------------------------------------------------------------
(* abstentions.py: the positives arm 3 does not fire on, and why; its       *)
(* counts are those of Figure 1.                                            *)

positive(p) == labelled(p).correct_variant # None

abstained(lib) == {p \in pairs : positive(p) /\ Gate(lib, p) = {}}

candidates(lib, p) ==
    {q \in M!Admitted(lib) :
        /\ q.variant \in labelled(p).acceptable_variants \cup {labelled(p).correct_variant}
        /\ q.fault = p.intent.fault}

cause(lib, p) == IF candidates(lib, p) = {} THEN "no_program" ELSE "checks_refused"

abstentions(lib) ==
    [positives |-> Cardinality({p \in pairs : positive(p)}),
     negatives |-> Cardinality({p \in pairs : ~positive(p)}),
     arm3_fires |-> Cardinality({p \in pairs : Gate(lib, p) # {}}),
     arm3_fires_on_negatives |-> Cardinality({p \in pairs : ~positive(p) /\ Gate(lib, p) # {}}),
     abstentions |-> abstained(lib)]

(* heldout.py: the fires a pair does not accept, and how many environments  *)
(* the seeds really build.                                                  *)
wrong_fires(outcomes) ==
    {p \in DOMAIN outcomes :
        outcomes[p].fired_variant # None /\ ~decided_correctly(outcomes[p])}

distinct_instances(instance_for_seed, seeds) == Cardinality({instance_for_seed[s] : s \in seeds})

=============================================================================
