----------------------------- MODULE RealMerges -----------------------------
(***************************************************************************)
(* bench/real_merges.py and real_merge_inference.py: which merges of a     *)
(* public repository become cases, what their maintainers' commits label   *)
(* acceptable, and what the registered tests make of the decisions.  What  *)
(* git says of a merge is a record: its merge bases, the lock files each   *)
(* side changed, the paths merge-tree leaves conflicted, and its date.     *)
(***************************************************************************)
EXTENDS LibraryStatus, Integers, FiniteSets, Sequences, SequencesExt

LOCAL P == INSTANCE PairAnalysis

RESOLUTIONS == {"take_upstream", "keep_local"}

------------------------------------------------------------------------------
(* Mining.                                                                  *)

LocksIn(paths) == {p \in paths : p.lock}

(* Only a merge both of whose sides changed a lock file is looked at.       *)
Screened(m) == m.bases > 0 /\ m.changed_first \cap m.changed_second # {}

LockConflict(m) == Screened(m) /\ LocksIn(m.conflicted) # {}

Positives(merges) ==
    {m \in merges : LockConflict(m) /\ m.bases = 1 /\ ~m.submodule_or_binary}

Clean(merges) ==
    {m \in merges : Screened(m) /\ ~LockConflict(m) /\ m.bases = 1 /\ m.clean}

Excluded(merges) ==
    {[merge |-> m.merge,
      reason |-> IF m.bases > 1 THEN "criss-cross" ELSE "submodule or binary conflict"] :
        m \in {n \in merges : LockConflict(n) /\ (n.bases > 1 \/ n.submodule_or_binary)}}

(* The most recent first; two of one second, by their SHAs.                 *)
MostRecent(cases, limit) ==
    LET order == SetToSortSeq(cases,
            LAMBDA a, b : a.when > b.when \/ (a.when = b.when /\ a.merge < b.merge))
        last == IF limit < Len(order) THEN limit ELSE Len(order)
    IN SubSeq(order, 1, last)

(* As many clean merges as there are conflicts.                             *)
mine(merges) ==
    [positives |-> Positives(merges),
     negatives |-> ToSet(MostRecent(Clean(merges), Cardinality(Positives(merges)))),
     exclusions |-> Excluded(merges)]

(* No repository has more than its share: past it, half of each kind.       *)
capped(mined, cap) ==
    IF Cardinality(mined.positives) + Cardinality(mined.negatives) <= cap
    THEN mined.positives \cup mined.negatives
    ELSE ToSet(MostRecent(mined.positives, cap \div 2))
             \cup ToSet(MostRecent(mined.negatives, cap \div 2))

------------------------------------------------------------------------------
(* The label.  A file's lines are a multiset: a count for every line.       *)

Added(side, base) == [x \in DOMAIN base |-> IF side[x] > base[x] THEN side[x] - base[x] ELSE 0]

Plus(a, b) == [x \in DOMAIN a |-> a[x] + b[x]]

produced(resolution, base, local, upstream) ==
    IF resolution = "take_upstream" THEN Plus(upstream, Added(local, base))
    ELSE Plus(local, Added(upstream, base))

InLines(file) == {x \in DOMAIN file : file[x] > 0}

(* A version is one lock file at the base, the two parents and the merge.   *)
Matching(versions) ==
    {resolution \in RESOLUTIONS :
        \A v \in versions : produced(resolution, v.base, v.local, v.upstream) = v.merge}

descriptive(versions) ==
    CASE \A v \in versions : v.merge = v.local -> "took local"
      [] (\A v \in versions : v.merge = v.upstream)
            /\ (\E v \in versions : v.merge # v.local) -> "took upstream"
      [] OTHER ->
           IF "take_upstream" \in Matching(versions) THEN "matches take_upstream"
           ELSE IF "keep_local" \in Matching(versions) THEN "matches keep_local"
           ELSE IF \E v \in versions :
                     InLines(v.merge) \ (InLines(v.base) \cup InLines(v.local)
                                            \cup InLines(v.upstream)) # {}
                THEN "regenerated" ELSE "other"

(* A conflict outside the lock files leaves nothing acceptable; a clean     *)
(* merge's tree, committed as it is, accepts merging since Amendment 1.     *)
acceptable(case, versions, reproduced, amendment) ==
    IF case.kind = "negative"
    THEN IF amendment = 1 /\ reproduced THEN {"merge"} ELSE {}
    ELSE IF LocksIn(case.conflicted) = case.conflicted THEN Matching(versions) ELSE {}

------------------------------------------------------------------------------
(* The figures and the tests.  A row has both dispatchers' outcomes on one  *)
(* case; an outcome is PairAnalysis's, with the maintainer's label.         *)

outcome(accepted, fired, score) ==
    [correct_variant |-> IF accepted = {} THEN None ELSE CHOOSE v \in accepted : TRUE,
     acceptable_variants |-> accepted, fired_variant |-> fired,
     score |-> IF fired = None THEN P!Unscored ELSE score, informed |-> FALSE]

Arm3(rows) == [i \in DOMAIN rows |-> rows[i].arm3]

Other(rows) == [i \in DOMAIN rows |-> rows[i].other]

(* The other dispatcher at arm 3's coverage, when both fire anywhere.       *)
Comparison(rows) ==
    LET point == P!operating_point(Arm3(rows), P!NoFloor)
        others == P!sweep(Other(rows))
    IN IF point.fires = 0 \/ others = <<>> THEN <<>>
       ELSE <<P!matched_comparison(others, point)>>

threshold(rows) ==
    IF Comparison(rows) = <<>> THEN <<>> ELSE <<Comparison(rows)[1].arm2.threshold>>

matched_difference(rows) ==
    IF Comparison(rows) = <<>> THEN <<>> ELSE Comparison(rows)[1].difference

Inexpressible(rows) == {i \in DOMAIN rows : rows[i].inexpressible_conflict}

ThirdFires(rows) == P!Fired(Arm3(rows), P!NoFloor)

OtherFires(rows) ==
    IF threshold(rows) = <<>> THEN {} ELSE P!Fired(Other(rows), threshold(rows)[1])

refusal_difference(rows) ==
    LET cases == Inexpressible(rows)
    IN IF threshold(rows) = <<>> \/ cases = {} THEN <<>>
       ELSE <<[n |-> Cardinality(OtherFires(rows) \cap cases)
                         - Cardinality(ThirdFires(rows) \cap cases),
               d |-> Cardinality(cases)]>>

(* McNemar's pairs: where only arm 3 is right, and where only the other is. *)
right(o) == o.fired_variant # None /\ P!fire_is_right(o, o.fired_variant)

matched_test(rows) ==
    LET both == ThirdFires(rows) \cap OtherFires(rows)
    IN [b |-> {i \in both : right(rows[i].arm3) /\ ~right(rows[i].other)},
        c |-> {i \in both : right(rows[i].other) /\ ~right(rows[i].arm3)}]

refusal_test(rows) ==
    LET cases == IF threshold(rows) = <<>> THEN {} ELSE Inexpressible(rows)
    IN [b |-> cases \cap (OtherFires(rows) \ ThirdFires(rows)),
        c |-> cases \cap (ThirdFires(rows) \ OtherFires(rows))]

(* A resample has every case of a repository once per draw of it.           *)
drawn(rows, draws) ==
    [k \in {<<n, i>> \in (DOMAIN draws) \X (DOMAIN rows) : rows[i].repo = draws[n]} |->
        rows[k[2]]]

(* The intent's own rule and the maintainer's commit disagree.              *)
rule_disagrees(rule, accepted) ==
    IF rule = None THEN accepted # {} ELSE rule \notin accepted

(* Too few cases, or too few repositories with a decided one.               *)
underpowered(decided, repositories, TARGET_CASES, MIN_REPOSITORIES) ==
    decided < TARGET_CASES \/ repositories < MIN_REPOSITORIES

(* The Wilson lower bound of arm 3's mismatch above 0.10: a score test.     *)
Unreliable(point) ==
    LET above == 10 * point.wrong - point.fires
    IN above > 0 /\ 100 * above * above > 3456 * point.fires

(* The registered rules in order; an interval is <<>>, or its two ends.     *)
Supported(interval, weak) ==
    IF weak THEN "underpowered"
    ELSE IF interval = <<>> THEN "undefined"
    ELSE IF interval[1] > 0 THEN "supported" ELSE "not supported"

decide(arm3, h1, h2, weak, MIN_FIRES) ==
    LET point == P!operating_point(arm3, P!NoFloor)
    IN IF point.fires < MIN_FIRES THEN [tested |-> FALSE]
       ELSE [tested |-> TRUE, falsified |-> Unreliable(point),
             h1 |-> Supported(h1, weak), h2 |-> Supported(h2, weak)]

(* A hypothesis holds only where every replicate supports it.               *)
supported_in_all(intervals, weak) ==
    \A r \in DOMAIN intervals : Supported(intervals[r], weak) = "supported"

=============================================================================
