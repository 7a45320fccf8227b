----------------------------- MODULE Admission -----------------------------
(***************************************************************************)
(* agents/compile.py: admit, the gate a compiled program passes before any *)
(* library may fire it.  It has no state: the verdict is a function of the *)
(* program, the fault it was compiled for and the seed it was compiled at. *)
(*                                                                         *)
(* A box is what build_sandbox makes: the clean clone, a fault injected at *)
(* a seed, or one of study 2's real conflicts.  Faults are numbered in the *)
(* order of their names, the order the gate walks them in.  A program is   *)
(* what the gate can observe of it: the boxes its preconditions hold in,   *)
(* those where they cannot be evaluated (a placeholder outside the         *)
(* vocabulary, a probe that is refused), and those its replay fixes.       *)
(***************************************************************************)
EXTENDS LibraryStatus, Integers, FiniteSets

CONSTANTS
    Faults,         \* FAULTS, numbered by name
    Seeds,          \* the seeds scanned: 0 .. _SEED_SEARCH_LIMIT - 1
    Variants,       \* resolution ids
    Declared,       \* per fault, the variants its ambiguous intent declares
    StateOf,        \* per fault and seed, state_for_seed, or variant_for_seed without one
    Claimed,        \* per fault and seed, variant_for_seed: None, or the resolution
    Label,          \* per own fault and box, the variant its intent's rules decide, or None
    Acceptable,     \* per own fault and box, the variants its intent accepts
    RealConflicts   \* the refusal set, empty without configuration R

Clean == [fault |-> 0, seed |-> 0]

Real(c) == [fault |-> -1, seed |-> c]

Injected == [fault : Faults, seed : Seeds]

Refusals == {Real(c) : c \in RealConflicts}

Boxes == {Clean} \cup Injected \cup Refusals

ASSUME AdmissionAssumption ==
    /\ Faults \subseteq Nat \ {0} /\ IsFiniteSet(Faults)
    /\ Seeds \subseteq Nat /\ IsFiniteSet(Seeds)
    /\ RealConflicts \subseteq Nat
    /\ None \notin Variants
    /\ Declared \in [Faults -> SUBSET Variants]
    /\ Claimed \in [Faults -> [Seeds -> Variants \cup {None}]]
    /\ Label \in [Faults -> [Injected -> Variants \cup {None}]]
    /\ Acceptable \in [Faults -> [Injected -> SUBSET Variants]]

Program ==
    [variant   : Variants \cup {None},
     empty     : BOOLEAN,           \* it has no precondition
     unguarded : BOOLEAN,           \* its body uses a parameter no precondition names
     holds     : SUBSET Boxes,
     broken    : SUBSET Boxes,
     fixes     : SUBSET Boxes]

(* What a program can be: without preconditions it holds everywhere, and    *)
(* what cannot be evaluated does not hold.                                  *)
WellFormed(p) ==
    /\ p.empty => p.holds = Boxes
    /\ p.holds \cap p.broken = {}

-----------------------------------------------------------------------------
(* The states the gate builds.                                              *)

(* _state_seeds: the first seed of each state a fault can be in.            *)
StateSeeds(f) ==
    {s \in Seeds : \A t \in Seeds : t < s => StateOf[f][t] # StateOf[f][s]}

(* sampled_states: the universe the breadth cap measures over.              *)
SampledStates == {Clean} \cup {b \in Injected : b.seed \in StateSeeds(b.fault)}

(* _sibling_seeds: the own fault's states labelled with another resolution. *)
Wanted(p, f) == IF p.variant = None THEN {} ELSE Declared[f] \ {p.variant}

(* As a bug would have it: one seed per label.                              *)
OneSeedPerLabel(p, f) ==
    {b \in Injected : /\ b.fault = f /\ Claimed[f][b.seed] \in Wanted(p, f)
                      /\ \A t \in Seeds : t < b.seed => Claimed[f][t] # Claimed[f][b.seed]}

Siblings(p, f) ==
    {b \in Injected : /\ b.fault = f /\ b.seed \in StateSeeds(f)
                      /\ Claimed[f][b.seed] \in Wanted(p, f)}

(* It raises when a declared resolution is no state's.                      *)
SiblingsMissing(p, f) ==
    \E v \in Wanted(p, f) : \A b \in Siblings(p, f) : Claimed[f][b.seed] # v

Unrelated(f) == {b \in Injected : b.fault # f /\ b.seed \in StateSeeds(b.fault)}

(* The order a pass meets its states in.                                    *)
Before(a, b) == a.fault < b.fault \/ (a.fault = b.fault /\ a.seed < b.seed)

-----------------------------------------------------------------------------
(* One class of negative states, as the preconditions meet them.            *)

(* program.accepts, for the state's label and acceptable set.               *)
Right(p, f, b) ==
    /\ p.variant # None
    /\ Label[f][b] # None
    /\ IF Acceptable[f][b] = {} THEN Label[f][b] = p.variant ELSE p.variant \in Acceptable[f][b]

(* A pass stops at the first state it cannot evaluate.                      *)
Error(p, class) == \E b \in class : b \in p.broken

Met(p, class) == {b \in class : \A a \in class : (a = b \/ Before(a, b)) => a \notin p.broken}

FiresWrongly(p, f, class) == {b \in Met(p, class) : b \in p.holds /\ ~Right(p, f, b)}

FiresRightly(p, f, class) == {b \in Met(p, class) : b \in p.holds /\ Right(p, f, b)}

(* _own_fires: the own fault's states that are nobody else's.               *)
OwnStates(p, f) ==
    {b \in Injected : b.fault = f /\ b.seed \in StateSeeds(f)} \ Siblings(p, f)

OwnFires(p, f) == {b \in Met(p, OwnStates(p, f)) : b \in p.holds}

(* The breadth cap, of one half.                                            *)
Fires(p, f) ==
    OwnFires(p, f) \cup FiresRightly(p, f, Unrelated(f)) \cup FiresRightly(p, f, Siblings(p, f))

TooBroad(p, f) == 2 * Cardinality(Fires(p, f)) > Cardinality(SampledStates)

-----------------------------------------------------------------------------
(* admit, in the order of its checks.                                       *)

(* _refused_before_any_sandbox.                                             *)
TextRefused(p, f) ==
    \/ Declared[f] # {} /\ p.variant \notin Declared[f]
    \/ ~p.empty /\ p.unguarded

(* _positive_refusal, at the one seed every caller passes.                  *)
PositiveRefused(p, f, seed) ==
    LET box == [fault |-> f, seed |-> seed]
    IN  box \notin p.holds \/ box \notin p.fixes

(* Both passes stand before a verdict on either, so that every wrong fire   *)
(* is named at once.                                                        *)
WrongFires(p, f) == FiresWrongly(p, f, Unrelated(f)) \cup FiresWrongly(p, f, Siblings(p, f))

Verdict(p, f, seed, twoSided) ==
    IF TextRefused(p, f) THEN "text"
    ELSE IF PositiveRefused(p, f, seed) THEN "positive"
    ELSE IF ~twoSided THEN "admitted"
    ELSE IF Clean \in p.broken THEN "unevaluable"
    ELSE IF Clean \in p.holds THEN "clean"
    ELSE IF Error(p, Unrelated(f)) THEN "unevaluable"
    ELSE IF SiblingsMissing(p, f) THEN "raises"
    ELSE IF Error(p, Siblings(p, f)) THEN "unevaluable"
    ELSE IF WrongFires(p, f) # {} THEN "wrong"
    ELSE IF Error(p, OwnStates(p, f)) THEN "unevaluable"
    ELSE IF TooBroad(p, f) THEN "broad"
    ELSE IF Error(p, Refusals) THEN "unevaluable"
    ELSE IF Refusals \cap p.holds # {} THEN "expressible"
    ELSE "admitted"

Admits(p, f, seed) == Verdict(p, f, seed, TRUE) = "admitted"

(* _note: what fired_on holds when admit returns, whichever refusal it is.  *)
(* As a bug would have it: only the class that is met first is noted.       *)
NotedFirstClass(p, f, seed) ==
    CASE Verdict(p, f, seed, TRUE) = "clean" -> {Clean}
      [] Verdict(p, f, seed, TRUE) = "wrong" ->
             IF FiresWrongly(p, f, Unrelated(f)) # {} THEN FiresWrongly(p, f, Unrelated(f))
                                                      ELSE FiresWrongly(p, f, Siblings(p, f))
      [] OTHER -> {}

FiredOn(p, f, seed) ==
    IF TextRefused(p, f) \/ PositiveRefused(p, f, seed) \/ Clean \in p.broken THEN {}
    ELSE IF Clean \in p.holds THEN {Clean}
    ELSE IF Error(p, Unrelated(f)) THEN FiresWrongly(p, f, Unrelated(f))
    ELSE WrongFires(p, f)

(* What the revision of a refused program is shown: observe_negative_state  *)
(* of each, and the real conflicts it fired on.                             *)
Shown(p, f, seed) ==
    FiredOn(p, f, seed)
        \cup IF Verdict(p, f, seed, TRUE) = "expressible" THEN Refusals \cap p.holds ELSE {}

-----------------------------------------------------------------------------

(* Where a fire is sound: the state's own intent accepts the program's      *)
(* resolution, or the state is the program's own fault's and no sibling's.  *)
SoundAt(p, f, b) == b \in OwnStates(p, f) \/ (b \in Injected /\ Right(p, f, b))

(* An admitted program fires, over everything the gate samples, only where  *)
(* its resolution is right, nowhere that nothing needs doing, and on no     *)
(* real conflict that cannot be resolved.                                   *)
FiresSoundly(p, f) ==
    \A b \in (SampledStates \cup Refusals) \cap p.holds : SoundAt(p, f, b)

(* The positive-only gate is the same gate without the negative side: it    *)
(* refuses nothing the two-sided one admits.                                *)
GatesAgree(p, f, seed) == Admits(p, f, seed) => Verdict(p, f, seed, FALSE) = "admitted"

=============================================================================
