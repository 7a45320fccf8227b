------------------------------- MODULE Study -------------------------------
(***************************************************************************)
(* refusal_study.evaluate: the evaluation repositories are decided in      *)
(* order, each one's cases on states built one at a time, until there are  *)
(* enough of them; a repository's part is written when it is decided and   *)
(* read back by a run that is started again.                               *)
(***************************************************************************)
EXTENDS Studies

CONSTANTS
    EVALUATION,     \* the repositories, in the registration's order
    Mined,          \* per repository, its cases up to the cap, with their labels
    Target,         \* TARGET_INEXPRESSIBLE, TARGET_CLEAN, MIN_REPOSITORIES
    Variants,       \* what a dispatcher may fire
    MaxKills        \* bound on interruptions

VARIABLES
    written,        \* repos/<repository>.json: "no", "torn" or "part"
    contents,       \* what the whole ones hold
    up,
    parts,          \* of the run: one per repository passed
    doing,          \* <<>>, or the part being decided
    result,         \* <<>>, or the cases and rows the report was made of
    kills

vars == <<written, contents, up, parts, doing, result, kills>>

Repositories == {EVALUATION[n] : n \in DOMAIN EVALUATION}

NoPart == [cases |-> <<>>, rows |-> <<>>]

Cases(of) == FlattenSeq([n \in DOMAIN of |-> of[n].cases])

Rows(of) == FlattenSeq([n \in DOMAIN of |-> of[n].rows])

(* The next repository, if the targets are not met and there is one.        *)
More == Len(parts) < Len(EVALUATION) /\ ~targets_met(counts(Cases(parts)), Target)

Repository == EVALUATION[Len(parts) + 1]

-----------------------------------------------------------------------------

Start ==
    /\ ~up
    /\ result = <<>>
    /\ up' = TRUE
    /\ parts' = <<>>
    /\ doing' = <<>>
    /\ UNCHANGED <<written, contents, result, kills>>

ReadPart ==
    /\ up /\ doing = <<>> /\ More
    /\ written[Repository] = "part"
    /\ parts' = Append(parts, contents[Repository])
    /\ UNCHANGED <<written, contents, up, doing, result, kills>>

(* A part cut off does not parse: this run ends, and so does every other.   *)
ReadTorn ==
    /\ up /\ doing = <<>> /\ More
    /\ written[Repository] = "torn"
    /\ up' = FALSE
    /\ UNCHANGED <<written, contents, parts, doing, result, kills>>

(* _decide_repository: its cases are numbered from the number there are,    *)
(* before any of their states is built.                                     *)
MinePart ==
    /\ up /\ doing = <<>> /\ More
    /\ written[Repository] = "no"
    /\ doing' = <<[kept |-> [i \in DOMAIN Mined[Repository] |->
                               [index |-> Len(Cases(parts)) + i - 1,
                                case |-> Mined[Repository][i]]],
                   part |-> NoPart]>>
    /\ UNCHANGED <<written, contents, up, parts, result, kills>>

Numbered(kept) ==
    [index |-> kept.index, repo |-> kept.case.repo, kind |-> kept.case.kind,
     acceptable |-> kept.case.acceptable]

(* The state builds, and a dispatcher fires on it or does not ...           *)
Decide(fired) ==
    /\ up /\ doing # <<>>
    /\ doing[1].kept # <<>>
    /\ LET kept == Head(doing[1].kept)
       IN doing' = <<[kept |-> Tail(doing[1].kept),
                      part |-> [cases |-> Append(doing[1].part.cases, Numbered(kept)),
                                rows |-> Append(doing[1].part.rows,
                                                [index |-> kept.index, fired |-> fired])]]>>
    /\ UNCHANGED <<written, contents, up, parts, result, kills>>

(* ... or git cannot build it: the case is an exclusion.                    *)
Exclude ==
    /\ up /\ doing # <<>>
    /\ doing[1].kept # <<>>
    /\ doing' = <<[doing[1] EXCEPT !.kept = Tail(@)]>>
    /\ UNCHANGED <<written, contents, up, parts, result, kills>>

WritePart ==
    /\ up /\ doing # <<>>
    /\ doing[1].kept = <<>>
    /\ written' = [written EXCEPT ![Repository] = "part"]
    /\ contents' = [contents EXCEPT ![Repository] = doing[1].part]
    /\ parts' = Append(parts, doing[1].part)
    /\ doing' = <<>>
    /\ UNCHANGED <<up, result, kills>>

(* The manifest, the labels, the decisions and the report; all of them are  *)
(* functions of the parts and a later run writes them again.                *)
Report ==
    /\ up /\ doing = <<>> /\ ~More
    /\ result' = <<[cases |-> Cases(parts), rows |-> Rows(parts)]>>
    /\ up' = FALSE
    /\ UNCHANGED <<written, contents, parts, doing, kills>>

Die ==
    /\ up
    /\ kills < MaxKills
    /\ kills' = kills + 1
    /\ up' = FALSE
    /\ parts' = <<>>
    /\ doing' = <<>>
    /\ UNCHANGED <<contents, result>>

Kill == Die /\ UNCHANGED written

KillInWrite ==
    /\ doing # <<>> /\ doing[1].kept = <<>>
    /\ written' = [written EXCEPT ![Repository] = "torn"]
    /\ Die

-----------------------------------------------------------------------------

Init ==
    /\ written = [r \in Repositories |-> "no"]
    /\ contents = [r \in Repositories |-> NoPart]
    /\ up = FALSE
    /\ parts = <<>>
    /\ doing = <<>>
    /\ result = <<>>
    /\ kills = 0

Next ==
    \/ Start \/ ReadPart \/ ReadTorn \/ MinePart
    \/ \E fired \in Variants \cup {None} : Decide(fired)
    \/ Exclude \/ WritePart \/ Report \/ Kill \/ KillInWrite

Spec == Init /\ [][Next]_vars

-----------------------------------------------------------------------------

(* What the report makes of a case is what was decided on that case's own   *)
(* state, against that case's own label.                                    *)
DecidedOnItsOwnState ==
    \A n \in IF result = <<>> THEN {} ELSE DOMAIN result[1].cases :
        LET case == result[1].cases[n]
            rows == result[1].rows
            fired == rows[n].fired
            decisions == _fires(rows, result[1].cases, [k \in DOMAIN rows |-> rows[k].fired])
        IN decisions[case.index]
               = [fired |-> fired # None, right |-> fired # None /\ fired \in case.acceptable]

=============================================================================
