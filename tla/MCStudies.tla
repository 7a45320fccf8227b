----------------------------- MODULE MCStudies -----------------------------
(***************************************************************************)
(* The operators of the two studies over every small input: three package  *)
(* sets, a history of three merges, lock files of two lines, the decisions *)
(* of two dispatchers on three cases of two repositories, two builds of    *)
(* each configuration.                                                     *)
(***************************************************************************)
EXTENDS Integers, FiniteSets, Sequences

LOCAL L == INSTANCE LockFiles

LOCAL M == INSTANCE RealMerges

LOCAL S == INSTANCE Studies

------------------------------------------------------------------------------
(* Lock files: one package in four versions, two of one caret range and one *)
(* of them a pre-release, and a second package.                             *)

LOCAL Version(release, final, text, caret) ==
    [release |-> release, final |-> final, text |-> text, caret |-> caret, platform |-> "none"]

LOCAL Packages ==
    {[name |-> "a", version |-> Version(1, TRUE, 1, 1)],
     [name |-> "a", version |-> Version(2, FALSE, 2, 1)],
     [name |-> "a", version |-> Version(2, TRUE, 0, 1)],
     [name |-> "a", version |-> Version(3, TRUE, 3, 2)],
     [name |-> "b", version |-> Version(1, TRUE, 1, 1)]}

LOCAL Formats == {"Cargo.lock", "poetry.lock"}

(* Unifying keeps exactly one version per package and range, whatever order *)
(* the set is read in, and doing it again changes nothing                   *)
(* (lock_actions.py:323).                                                   *)
ASSUME UnifiedOnce ==
    \A format \in Formats, resolved \in SUBSET Packages :
        LET kept == L!unify(format, resolved)
        IN /\ L!unify(format, kept) = kept
           /\ \A p \in resolved :
                  \E q \in kept :
                      {r \in kept : r.name = p.name
                           /\ L!compatible(format, r.version) = L!compatible(format, p.version)}
                          = {q}

(* The package-wise merge takes no side, gives the other side where one did *)
(* not change, and invents nothing (lock_actions.py:279).                   *)
ASSUME MergeTakesNoSide ==
    \A base, local, upstream \in SUBSET Packages :
        LET merge == L!three_way(base, local, upstream)
        IN /\ merge = L!three_way(base, upstream, local)
           /\ upstream = base => merge = local
           /\ merge \subseteq local \cup upstream

(* An action that gives the maintainer's packages also does up to the ones  *)
(* that are new, whoever computed it (lock_actions.py:262).                 *)
ASSUME ExactIsButNew ==
    \A produced, merged \in SUBSET Packages, before \in SUBSET {"a", "b"} :
        /\ produced = merged => L!same_but_new(produced, merged, before)
        /\ L!same_but_new(produced, merged, {"a", "b"}) => produced = merged

(* A maintainer's file nobody can read is reproduced by no action.          *)
ASSUME UnreadIsNotReproduced ==
    \A action \in L!AllActions :
        LET sides == L!Sides(L!Unread, L!Read({}), L!Read({}), L!Unread)
            tools == [a \in L!AllActions |-> [ended |-> "exit 0", left |-> TRUE, file |-> L!Read({})]]
        IN ~L!summarise(<<L!actions_on("Cargo.lock", sides, tools)>>, TRUE)[action]

------------------------------------------------------------------------------
(* The first study. *)

LOCAL Lock == [name |-> "Cargo.lock", lock |-> TRUE]

LOCAL Code == [name |-> "main.rs", lock |-> FALSE]

LOCAL Merges(merge) ==
    {[merge |-> merge, when |-> merge \div 2, bases |-> bases, changed_first |-> {Lock},
      changed_second |-> second, conflicted |-> conflicted, clean |-> conflicted = {},
      submodule_or_binary |-> binary] :
        bases \in 0 .. 2, second \in {{}, {Lock}}, conflicted \in SUBSET {Lock, Code},
        binary \in BOOLEAN}

(* A merge is a conflict, a clean one or neither, and an excluded one is no *)
(* case; there are never more clean cases than conflicts, and no repository *)
(* has more than its share (real_merges.py:309, 883).                       *)
ASSUME MinedOnce ==
    \A a, b \in Merges(1), c \in {m \in Merges(3) : m.conflicted # {Code}} :
        LET found == M!mine({a, [b EXCEPT !.merge = 2], c})
            out == {e.merge : e \in found.exclusions}
        IN /\ found.positives \cap found.negatives = {}
           /\ \A m \in found.positives \cup found.negatives : m.merge \notin out
           /\ Cardinality(found.negatives) <= Cardinality(found.positives)
           /\ \A cap \in 1 .. 3 : Cardinality(M!capped(found, cap)) <= cap

LOCAL Files == [{"x", "y"} -> 0 .. 1]

(* The two resolutions are each other's with the sides exchanged, neither   *)
(* drops a line its own side has, and where the other side added nothing it *)
(* is that side's file (real_merges.py:425).                                *)
ASSUME SidesExchange ==
    \A base, local, upstream \in Files :
        LET taken == M!produced("take_upstream", base, local, upstream)
        IN /\ taken = M!produced("keep_local", base, upstream, local)
           /\ \A x \in {"x", "y"} : taken[x] >= upstream[x]
           /\ (taken = upstream) <=> \A x \in {"x", "y"} : local[x] <= base[x]

(* A maintainer who committed upstream's file as it was accepts             *)
(* take_upstream only if the local side had added nothing, and a conflict   *)
(* outside the lock files accepts nothing (real_merges.py:450).             *)
ASSUME LabelsAgree ==
    \A base, local, upstream, merge \in Files :
        LET versions == {[base |-> base, local |-> local, upstream |-> upstream, merge |-> merge]}
            positive == [kind |-> "positive", conflicted |-> {Lock}]
        IN /\ M!descriptive(versions) = "took upstream" =>
                  ("take_upstream" \in M!acceptable(positive, versions, TRUE, 1)
                       <=> \A x \in {"x", "y"} : local[x] <= base[x])
           /\ M!descriptive(versions) = "regenerated" => M!acceptable(positive, versions, TRUE, 1) = {}
           /\ M!acceptable([positive EXCEPT !.conflicted = {Lock, Code}], versions, TRUE, 1) = {}

------------------------------------------------------------------------------

LOCAL Labels == {{}, {"merge"}}

LOCAL Rows(repo) ==
    {[repo |-> repo, inexpressible_conflict |-> accepted = {},
      arm3 |-> M!outcome(accepted, third, 0), other |-> M!outcome(accepted, other, score)] :
        accepted \in Labels, third \in {"none", "merge"}, other \in {"none", "merge"},
        score \in 0 .. 1}

(* The registered difference is what the test counts: the cases on which    *)
(* only one of the two fired, and no case is counted for both sides         *)
(* (real_merge_inference.py:57, 136).                                       *)
ASSUME TestCountsTheDifference ==
    \A a, b \in Rows("r"), c \in Rows("s") :
        LET rows == <<a, b, c>>
            test == M!refusal_test(rows)
            found == M!refusal_difference(rows)
        IN /\ test.b \cap test.c = {}
           /\ M!matched_test(rows).b \cap M!matched_test(rows).c = {}
           /\ found # <<>> =>
                  found[1].n = Cardinality(test.b) - Cardinality(test.c)
           /\ found = <<>> => test.b = {} /\ test.c = {}

(* Each repository drawn once is the sample, whatever the order             *)
(* (real_merge_inference.py:79).                                            *)
ASSUME EachDrawnOnceIsTheSample ==
    \A a, b \in Rows("r"), c \in Rows("s") :
        LET rows == <<a, b, c>>
            resampled == M!drawn(rows, <<"s", "r">>)
        IN /\ Cardinality(DOMAIN resampled) = 3
           /\ M!refusal_difference(resampled) = M!refusal_difference(rows)

(* A study that is too small supports nothing, in any replicate, and the    *)
(* reliability test needs its fires (real_merge_inference.py:163).          *)
ASSUME WeakSupportsNothing ==
    \A a, b \in Rows("r"), low \in -1 .. 1, weak \in BOOLEAN, MIN_FIRES \in 0 .. 2 :
        LET found == M!decide(<<a.arm3, b.arm3>>, <<low, 1>>, <<>>, weak, MIN_FIRES)
            fires == Cardinality({i \in 1 .. 2 : <<a, b>>[i].arm3.fired_variant # "none"})
        IN /\ found.tested <=> fires >= MIN_FIRES
           /\ found.tested =>
                 /\ (found.h1 = "supported") <=> (low > 0 /\ ~weak)
                 /\ found.h2 \in {"underpowered", "undefined"}
           /\ M!supported_in_all(<<<<low, 1>>, <<1, 1>>>>, weak) <=> (low > 0 /\ ~weak)

------------------------------------------------------------------------------
(* The second study. *)

LOCAL Mined(repo, date) ==
    {[repo |-> repo, merge |-> date, when |-> IF date = 3 THEN 2 ELSE date, kind |-> kind,
      acceptable |-> acceptable, builds |-> builds] :
        kind \in {"positive", "negative"}, acceptable \in {{}, {"keep_local"}}, builds \in BOOLEAN}

LOCAL Histories(repo) ==
    {{a, b, c} : a \in Mined(repo, 1), b \in Mined(repo, 2), c \in Mined(repo, 3)}

(* The set is filled up and no further, its cases are numbered as they come *)
(* whatever did not build, and none is left for an older one of the same    *)
(* repository (refusal_set.py:100, 141).                                    *)
ASSUME RefusalSetIsTheMostRecent ==
    \A first \in Histories("r"), limit \in 1 .. 2 :
        LET second == {[c EXCEPT !.repo = "s"] : c \in {d \in first : d.when = 2}}
            found == S!mine_refusal_set(<<first, second>>, limit, 3)
            Usable(history) == {c \in history : c.kind = "positive" /\ c.acceptable = {} /\ c.builds}
            Of(repo) == {found[n].case : n \in {k \in DOMAIN found : found[k].case.repo = repo}}
        IN /\ \A n \in DOMAIN found : found[n].index = n - 1
           /\ Len(found) <= 3
           /\ Cardinality(Of("r")) <= limit
           /\ \A c \in Usable(first) \ Of("r"), kept \in Of("r") : kept.when >= c.when
           /\ Cardinality(Of("r")) < limit => Of("r") = Usable(first)

(* A program the whole set was asked about was accepted on a state or not;  *)
(* one that could not be evaluated keeps what it had accepted before        *)
(* (refusal_set.py:232).                                                    *)
ASSUME AcceptedUpToTheError ==
    \A verdicts \in [1 .. 3 -> {"yes", "no", "error"}], rebuilds \in [1 .. 3 -> BOOLEAN] :
        LET found == S!accepted_by(verdicts, rebuilds)
        IN /\ (found.ended = "all") <=>
                  \A n \in 1 .. 3 : rebuilds[n] /\ verdicts[n] # "error"
           /\ \A n \in 1 .. 3 :
                  /\ n \in found.accepted => \A k \in 1 .. n : rebuilds[k] /\ verdicts[k] # "error"
                  /\ verdicts[n] = "yes" /\ found.ended = "all" => n \in found.accepted

------------------------------------------------------------------------------

LOCAL Cases ==
    <<[index |-> 0, repo |-> "r", kind |-> "inexpressible"],
      [index |-> 1, repo |-> "s", kind |-> "clean"],
      [index |-> 2, repo |-> "s", kind |-> "inexpressible"]>>

LOCAL Fire == {f \in [fired : BOOLEAN, right : BOOLEAN] : f.right => f.fired}

LOCAL Builds == [0 .. 2 -> Fire]

LOCAL Few == {b \in Builds : b[1].fired = b[1].right}

LOCAL Equal(x, y) == x = y \/ (x # <<>> /\ y # <<>> /\ x[1].n * y[1].d = y[1].n * x[1].d)

LOCAL Draws == {<<"r", "r">>, <<"r", "s">>, <<"s", "r">>, <<"s", "s">>}

(* H3 is what separates H1 from H2 under one control: on whatever cases are *)
(* drawn (refusal_population.py:86, 101).                                   *)
ASSUME OneControlSeparates ==
    \A zero, refusal, control \in {b \in Few : ~b[2].right /\ ~b[0].right}, draw \in Draws :
        LET cases == S!drawn(Cases, draw)
            h1 == S!against_control(<<refusal>>, control, cases)
            h2 == S!against_control(<<zero>>, control, cases)
        IN Equal(S!Difference(h1, h2), S!between_configurations(<<zero>>, <<refusal>>, cases))

(* Every repository and every build drawn once is the data itself, and a    *)
(* statistic without a value is left out of the interval                    *)
(* (refusal_population.py:118).                                             *)
ASSUME EachDrawnOnceIsTheData ==
    \A one, other \in {b \in Few : ~b[2].right /\ ~b[0].right} :
        LET once == [repositories |-> <<"s", "r">>, builds |-> <<<<1>>, <<1>>>>]
            without == [once EXCEPT !.repositories = <<"r", "r">>]
            found == S!estimate(Cases, <<one>>, <<other>>, one, other, <<once, without>>).h4
        IN /\ Equal(found.statistic, S!clean_cost(<<one>>, <<other>>, Cases))
           /\ Equal(<<found.interval[1]>>, found.statistic)
           /\ Equal(<<found.interval[2]>>, found.statistic)

LOCAL Estimates ==
    {[statistic |-> <<>>, interval |-> i] :
        i \in {<<>>} \cup {<<[n |-> l, d |-> 20], [n |-> h, d |-> 20]>> :
                             l \in -3 .. 1, h \in -3 .. 1}}

(* The registered decisions are those of the intervals and of who fires: an *)
(* underpowered study decides nothing, a configuration that never fires is  *)
(* not tested, and a cost is found only wholly below the margin             *)
(* (refusal_population.py:189, 203).                                        *)
ASSUME DecidedAsRegistered ==
    \A e \in Estimates, quiet0, quietR \in BOOLEAN, weak \in BOOLEAN :
        LET Build(quiet) == [i \in 0 .. 2 |-> [fired |-> ~quiet, right |-> FALSE]]
            found == S!decide([h1 |-> e, h2 |-> e, h3 |-> e, h4 |-> e], weak,
                              <<Build(TRUE), Build(quiet0)>>, <<Build(quietR)>>, Cases)
        IN /\ (found = <<>>) <=> weak
           /\ ~weak =>
                 /\ (found[1].h1 = "not tested") <=> quietR
                 /\ (found[1].h2 = "not tested") <=> quiet0
                 /\ (found[1].h4 = "not tested") <=> quiet0 \/ quietR
                 /\ found[1].h4 = "cost" => e.interval # <<>> /\ e.interval[2].n < -2
                 /\ found[1].h3 = "supported" => found[1].h4 \in {"holds", "not shown"}

------------------------------------------------------------------------------

(* Nothing of a replay that did not run is a change, and a checkout whose   *)
(* recorded objects are gone is lost, whatever its checker would say        *)
(* (consequences.py:125).                                                   *)
ASSUME LossIsTheFinding ==
    \A r \in [refused : BOOLEAN, unbound : BOOLEAN, environment : {"fault-free", "diverged"},
              moved : BOOLEAN, intact : BOOLEAN, check : {"ok", "not", "raised"}] :
        LET outcome == S!consequence_of(r)
        IN /\ (outcome = "nothing ran") <=> (r.refused \/ r.unbound)
           /\ outcome \in {"fixed", "not fixed", "ungradable"} => r.intact
           /\ outcome \in {"changed", "unchanged"} => r.environment = "fault-free"

(* Each instance is a variant once, at its first seed, and the roles of the *)
(* seeds so far do not depend on those to come (splits.py:213).             *)
ASSUME OneVariantPerInstance ==
    \A seeds \in [1 .. 4 -> 1 .. 3], instance \in [1 .. 3 -> {"a", "b"}] :
        LET roles == S!occurrence_roles(seeds, instance)
        IN /\ Cardinality({n \in 1 .. 4 : roles[n] = "variant"})
                  = Cardinality({instance[seeds[n]] : n \in 1 .. 4})
           /\ SubSeq(roles, 1, 3) = S!occurrence_roles(SubSeq(seeds, 1, 3), instance)

(* A fire both arms make of one pair is replayed once (consequences.py:199). *)
ASSUME ReplayedOnce ==
    \A accepted, top \in {"p", "q"}, score \in 0 .. 2 :
        LET pair == [seed |-> 1, environment |-> "diverged", accepted |-> <<accepted>>,
                     ranked |-> <<[id |-> top, score |-> score]>>]
        IN /\ Cardinality(S!Replayed({pair}, <<1>>)) = IF score >= 1 /\ top # accepted THEN 2 ELSE 1
           /\ S!FiresOf({pair}, <<>>) = {<<"arm3", pair, accepted>>}

=============================================================================
