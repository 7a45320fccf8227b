------------------------------ MODULE Studies ------------------------------
(***************************************************************************)
(* The second study's pure parts: the refusal set (bench/refusal_set.py),  *)
(* the registered statistics (bench/refusal_population.py), the report of  *)
(* bench/refusal_study.py, the consequences of a fire                      *)
(* (bench/consequences.py) and the roles of occurrences (bench/splits.py). *)
(* A rate is a record of its two counts, or <<>> when it has no value; a   *)
(* dispatcher's decisions are a function of the case index.                *)
(***************************************************************************)
EXTENDS LibraryStatus, Integers, FiniteSets, Sequences, SequencesExt

Least(a, b) == IF a < b THEN a ELSE b

------------------------------------------------------------------------------
(* refusal_set.py.  A mined case has its kind, its date, what its label     *)
(* accepts and whether its state builds.                                    *)

MostRecentFirst(cases) ==
    SetToSortSeq(cases,
        LAMBDA a, b : a.when > b.when \/ (a.when = b.when /\ a.merge < b.merge))

(* One repository: up to `limit` of its inexpressible conflicts, a case     *)
(* whose state does not build being replaced by the next most recent.       *)
select(mined, limit, first_index) ==
    LET wanted == SelectSeq(MostRecentFirst({c \in mined : c.kind = "positive"}),
                            LAMBDA c : c.acceptable = {})
        built == SelectSeq(wanted, LAMBDA c : c.builds)
        kept == SubSeq(built, 1, Least(limit, Len(built)))
        reached == IF Len(kept) < limit THEN ToSet(wanted)
                   ELSE {c \in ToSet(wanted) : kept # <<>> /\ (c = Last(kept)
                            \/ c.when > Last(kept).when
                            \/ (c.when = Last(kept).when /\ c.merge < Last(kept).merge))}
    IN [cases |-> [i \in DOMAIN kept |-> [index |-> first_index + i - 1, case |-> kept[i]]],
        exclusions |-> {c \in reached : ~c.builds}]

(* The repositories in order, at most PER_REPOSITORY of each, up to SIZE.   *)
mine_refusal_set(histories, PER_REPOSITORY, SIZE) ==
    FoldLeft(LAMBDA found, mined :
                IF Len(found) >= SIZE THEN found
                ELSE found \o select(mined, Least(PER_REPOSITORY, SIZE - Len(found)),
                                     Len(found)).cases,
             <<>>, histories)

(* The states' file has one state for every case, by index, or nothing is   *)
(* loaded; what is returned is in the cases' order.                         *)
load(cases, rows) ==
    LET Observed(i) == Last(SelectSeq(rows, LAMBDA r : r.index = i)).state
    IN IF {rows[n].index : n \in DOMAIN rows} # {cases[n].index : n \in DOMAIN cases}
          \/ Cardinality({rows[n].index : n \in DOMAIN rows}) # Len(cases)
       THEN <<>>
       ELSE <<[n \in DOMAIN cases |-> Observed(cases[n].index)]>>

(* RefusalStates.accepted_by: what a program's preconditions say of every   *)
(* state, "yes", "no" or "error", up to the first they cannot be evaluated  *)
(* on; a state that no longer rebuilds as frozen stops the build.           *)
accepted_by(verdicts, rebuilds) ==
    LET Stops(n) == ~rebuilds[n] \/ verdicts[n] = "error"
        ends == {n \in DOMAIN verdicts : Stops(n)}
        last == IF ends = {} THEN Len(verdicts) + 1
                ELSE CHOOSE n \in ends : \A k \in ends : n <= k
    IN [accepted |-> {n \in 1 .. last - 1 : verdicts[n] = "yes"},
        ended |-> IF ends = {} THEN "all" ELSE IF ~rebuilds[last] THEN "stopped" ELSE "error"]

------------------------------------------------------------------------------
(* refusal_population.py.  `cases` is a sequence: a case drawn twice is in  *)
(* it twice and counts twice.                                               *)

Pool(cases, kind) == {n \in DOMAIN cases : cases[n].kind = kind}

Share(counted, pool) ==
    IF pool = {} THEN <<>> ELSE <<[n |-> Cardinality(counted), d |-> Cardinality(pool)]>>

fire_rate(decisions, cases) ==
    LET pool == Pool(cases, "inexpressible")
    IN Share({k \in pool : decisions[cases[k].index].fired}, pool)

clean_right_rate(decisions, cases) ==
    LET pool == Pool(cases, "clean")
    IN Share({k \in pool : decisions[cases[k].index].right}, pool)

Minus(a, b) == [n |-> a.n * b.d - b.n * a.d, d |-> a.d * b.d]

Over(a, b) == a.n * b.d > b.n * a.d

(* The mean of builds' rates over the same cases; none if one has none.     *)
mean(rates) ==
    IF rates = <<>> \/ (\E i \in DOMAIN rates : rates[i] = <<>>) THEN <<>>
    ELSE <<[n |-> FoldLeft(LAMBDA sum, rate : sum + rate[1].n, 0, rates),
            d |-> rates[1][1].d * Len(rates)]>>

Difference(left, right) == IF left = <<>> \/ right = <<>> THEN <<>> ELSE <<Minus(left[1], right[1])>>

FireRates(builds, cases) == [i \in DOMAIN builds |-> fire_rate(builds[i], cases)]

RightRates(builds, cases) == [i \in DOMAIN builds |-> clean_right_rate(builds[i], cases)]

(* The mean of the differences is the difference from the mean.             *)
against_control(builds, control, cases) ==
    Difference(fire_rate(control, cases), mean(FireRates(builds, cases)))

between_configurations(zero, refusal, cases) ==
    Difference(mean(FireRates(zero, cases)), mean(FireRates(refusal, cases)))

clean_cost(zero, refusal, cases) ==
    Difference(mean(RightRates(refusal, cases)), mean(RightRates(zero, cases)))

(* A resample's cases: all of a repository's, once for every draw of it.    *)
drawn(cases, repositories) ==
    FlattenSeq([k \in DOMAIN repositories |->
        SelectSeq(cases, LAMBDA c : c.repo = repositories[k])])

Redrawn(builds, draws) == [k \in DOMAIN draws |-> builds[draws[k]]]

(* Where the 2.5th and the 97.5th percentiles are among n sorted values.    *)
LowPlace(n) == 1 + (25 * (n - 1)) \div 1000

HighPlace(n) == 1 + (975 * (n - 1) + 999) \div 1000

(* A statistic on the data, and its values on the resamples: those that have *)
(* none are left out, and with too few left there is no interval.           *)
two_level_bootstrap(statistic, resampled) ==
    LET values == SelectSeq(resampled, LAMBDA v : v # <<>>)
        sorted == SortSeq([k \in DOMAIN values |-> values[k][1]], LAMBDA a, b : Over(b, a))
    IN [statistic |-> statistic,
        interval |-> IF values = <<>> \/ Len(values) < Len(resampled) \div 2 THEN <<>>
                     ELSE <<sorted[LowPlace(Len(sorted))], sorted[HighPlace(Len(sorted))]>>]

(* The four hypotheses, each over its own groups of builds.  A resample is   *)
(* [repositories, builds], a draw of builds for each group.                 *)
estimate(cases, zero, refusal, control_zero, control_refusal, resamples) ==
    LET Cases(k) == drawn(cases, resamples[k].repositories)
        Group(g, builds, k) == Redrawn(builds, resamples[k].builds[g])
        One(builds, control) ==
            two_level_bootstrap(against_control(builds, control, cases),
                [k \in DOMAIN resamples |-> against_control(Group(1, builds, k), control, Cases(k))])
    IN [h1 |-> One(refusal, control_refusal), h2 |-> One(zero, control_zero),
        h3 |-> two_level_bootstrap(between_configurations(zero, refusal, cases),
            [k \in DOMAIN resamples |->
                between_configurations(Group(1, zero, k), Group(2, refusal, k), Cases(k))]),
        h4 |-> two_level_bootstrap(clean_cost(zero, refusal, cases),
            [k \in DOMAIN resamples |->
                clean_cost(Group(1, zero, k), Group(2, refusal, k), Cases(k))])]

Above(estimated, bound) ==
    estimated.interval # <<>> /\ Over(estimated.interval[1], bound)

Zero == [n |-> 0, d |-> 1]

H4_MARGIN == [n |-> -1, d |-> 10]

h4_outcome(estimated) ==
    IF Above(estimated, H4_MARGIN) THEN "holds"
    ELSE IF estimated.interval # <<>> /\ Over(H4_MARGIN, estimated.interval[2]) THEN "cost"
    ELSE "not shown"

silent(builds, cases) ==
    \A i \in DOMAIN builds, n \in DOMAIN cases : ~builds[i][cases[n].index].fired

Tested(condition, estimated) ==
    IF ~condition THEN "not tested" ELSE IF Above(estimated, Zero) THEN "supported"
    ELSE "not supported"

(* The registered rules: the first stops the rest, the second removes a     *)
(* configuration's tests.                                                   *)
decide(hypotheses, underpowered, zero, refusal, cases) ==
    LET fires0 == ~silent(zero, cases)
        firesR == ~silent(refusal, cases)
    IN IF underpowered THEN <<>>
       ELSE <<[h1 |-> Tested(firesR, hypotheses.h1), h2 |-> Tested(fires0, hypotheses.h2),
               h3 |-> Tested(fires0 /\ firesR, hypotheses.h3),
               h4 |-> IF fires0 /\ firesR THEN h4_outcome(hypotheses.h4) ELSE "not tested"]>>

------------------------------------------------------------------------------
(* refusal_study.py: what a build must be, and what a case counts as.       *)

(* build.json is there, of an ordered build, gated by what it should be.    *)
read_build(manifest, configuration, digest) ==
    /\ manifest.present
    /\ manifest.order # None
    /\ manifest.refusal_set = IF configuration = "R" THEN digest ELSE None

kind_of(case) ==
    IF case.kind = "negative" THEN "clean"
    ELSE IF case.acceptable # {} THEN "other" ELSE "inexpressible"

counts(cases) ==
    LET Of(kind) == Cardinality({n \in DOMAIN cases : kind_of(cases[n]) = kind})
    IN [inexpressible |-> Of("inexpressible"), clean |-> Of("clean"), other |-> Of("other"),
        repositories |-> Cardinality({cases[n].repo : n \in DOMAIN cases})]

targets_met(found, target) ==
    /\ found.inexpressible >= target.inexpressible
    /\ found.clean >= target.clean
    /\ found.repositories >= target.repositories

(* A dispatcher's rows, and what it fired on each, made into decisions: of  *)
(* two rows, or two labels, of one index the later is kept.                 *)
LastOf(rows, i) == Max({n \in DOMAIN rows : rows[n].index = i})

_fires(rows, cases, fired) ==
    [i \in {rows[n].index : n \in DOMAIN rows} |->
        LET variant == fired[LastOf(rows, i)]
        IN [fired |-> variant # None,
            right |-> variant # None /\ variant \in cases[LastOf(cases, i)].acceptable]]

(* Too few cases, or too few builds of a configuration.                     *)
underpowered(found, target, builds0, buildsR, MIN_VALID_BUILDS) ==
    \/ ~targets_met(found, target)
    \/ builds0 < MIN_VALID_BUILDS
    \/ buildsR < MIN_VALID_BUILDS

------------------------------------------------------------------------------
(* consequences.py: what replaying a fire leaves behind.                    *)

(* A replay on a fresh build: whether anything ran, whether a fault-free    *)
(* checkout moved, and else the two clauses of the grade in their order.    *)
consequence_of(replay) ==
    CASE replay.refused \/ replay.unbound -> "nothing ran"
      [] OTHER ->
           IF replay.environment = "fault-free"
           THEN IF replay.moved THEN "changed" ELSE "unchanged"
           ELSE IF ~replay.intact THEN "lost"
           ELSE IF replay.check = "raised" THEN "ungradable"
           ELSE IF replay.check = "ok" THEN "fixed" ELSE "not fixed"

(* What each arm fires on a pair: arm 3 its first accepted program, arm 2   *)
(* its top-ranked at the matched threshold.                                 *)
FiresOf(pairs, threshold) ==
    {<<"arm3", p, Head(p.accepted)>> : p \in {q \in pairs : q.accepted # <<>>}}
    \cup {<<"arm2", p, Head(p.ranked).id>> :
             p \in {q \in pairs : threshold # <<>> /\ q.ranked # <<>>
                                    /\ Head(q.ranked).score >= threshold[1]}}

(* The same program on the same state is replayed once for both arms.       *)
Replayed(pairs, threshold) ==
    {[seed |-> f[2].seed, environment |-> f[2].environment, program |-> f[3]] :
        f \in FiresOf(pairs, threshold)}

------------------------------------------------------------------------------
(* splits.py: an instance met before is a replay; a seed whose fault names  *)
(* no instance is refused.                                                  *)
occurrence_roles(seeds, instance_for_seed) ==
    IF \E n \in DOMAIN seeds : instance_for_seed[seeds[n]] = None THEN <<>>
    ELSE [n \in DOMAIN seeds |->
            IF \E k \in 1 .. n - 1 : instance_for_seed[seeds[k]] = instance_for_seed[seeds[n]]
            THEN "replay" ELSE "variant"]

=============================================================================
