--------------------------- MODULE EpisodeRunner ---------------------------
(***************************************************************************)
(* bench/run.py: one arm's episodes of a benchmark run, in occurrence      *)
(* order, and what they do to the library they dispatch against.           *)
(*                                                                         *)
(* An episode builds a sandbox, dispatches, replays, falls back to the     *)
(* agent, is graded, compiles its solution, counts a mismatch and is       *)
(* appended to the ledger.  Online the library starts empty and every      *)
(* episode may change it; frozen it was built beforehand and no episode    *)
(* may.  The arms differ in who decides: react always solves, gold always  *)
(* replays the oracle, a dispatching arm fires an admitted program or none *)
(* -- which one is the matcher's choice and left open here.                *)
(*                                                                         *)
(* A program is named by the occurrence that compiled it, as _program_id   *)
(* makes it unique to its episode.  The ledger is kept as what the library *)
(* must agree with: the rows that count a misfire against each program.    *)
(***************************************************************************)
EXTENDS LibraryStatus, Naturals, FiniteSets

CONSTANTS
    Occurrences,    \* episodes the plan holds
    Variants        \* the resolutions the intent declares

ASSUME RunnerAssumption ==
    /\ Occurrences \in Nat \ {0}
    /\ Variants # {}
    /\ None \notin Variants

Programs == 1 .. Occurrences

NoProgram == 0

COMPILE_ATTEMPTS == 2

(* The ground truth of a state: its label and what its checker accepts.  A  *)
(* state that needs nothing has no label and accepts nothing.               *)
Situations ==
    {s \in [correct : Variants \cup {None}, acceptable : SUBSET Variants] :
        IF s.correct = None THEN s.acceptable = {} ELSE s.correct \in s.acceptable}

(* How a replay ends: a guard refusal, a parameter that cannot be bound, a  *)
(* timeout, failed postconditions, or a non-zero exit with all of them held. *)
ReplayResults == {"ok", "refused", "unbound", "timed out", "missed", "exited"}

VARIABLES
    frozen,         \* the library is a frozen one
    arm,            \* "react", "gold" or "dispatch"
    (* the library *)
    status,         \* each stored program's status, None where none is stored
    variant,        \* the resolution each stored program declares
    mismatches,     \* mismatch events in each program's history
    compiled,       \* which compile of its episode each stored program is
    refusedFirst,   \* the compile its revision event keeps, 0 where it has none
    (* the ledger *)
    done,           \* rows appended
    misfires,       \* per program, the rows that misfired it and did not time out
    (* the episode under way *)
    pc,
    situation,      \* the state's ground truth, which no arm sees
    fired,          \* the stored program that fired, NoProgram when none did
    replayed,       \* how its replay ended, None before
    calls,          \* accounting.llm_calls
    attempt,        \* the compile attempt under way or last made, 0 before
    draft,          \* the program compiled last: its compile and its variant
    verdict,        \* admit's verdict on it
    firstRefused,   \* the first compile admission refused, 0 when none
    result,         \* the _ArmResult, as far as the row and the library need it
    (* a history variable *)
    missed          \* programs whose fire the runner found to be a genuine miss

library == <<status, variant, mismatches, compiled, refusedFirst>>
ledger == <<done, misfires>>
compile == <<attempt, draft, verdict, firstRefused>>
plan == <<frozen, arm>>
vars == <<plan, library, ledger, pc, situation, fired, replayed, calls, compile, result, missed>>

-----------------------------------------------------------------------------

Outcomes == {"none", "success", "fallback", "fail", "refusal", "invalid"}

NoResult ==
    [outcome |-> "none", fired_variant |-> None, program_id |-> NoProgram, admitted |-> None,
     timed_out |-> FALSE, compilable |-> FALSE, compile_failure |-> FALSE]

NoDraft == [compiled |-> 0, variant |-> None]

Episode == done + 1

Admitted == {p \in Programs : status[p] = "admitted"}

(* program.accepts: nothing is right on a state without a label.            *)
Accepts(v) == situation.correct # None /\ v \in situation.acceptable

(* _is_genuine_miss: a parameter that cannot be bound, or a body that ran   *)
(* to its end and left its postconditions unsatisfied.                      *)
IsGenuineMiss(how) == how \in {"unbound", "missed"}

(* _record_compile_failure: admitted is filled in only where nothing fired. *)
CompileFailure(r) ==
    [r EXCEPT !.compile_failure = TRUE, !.admitted = IF @ = None THEN "no" ELSE @]

-----------------------------------------------------------------------------
(* An episode up to its arm.                                                *)

Begin(s) ==
    /\ pc = "next"
    /\ done < Occurrences
    /\ situation' = s
    /\ pc' = CASE arm = "react" -> "solve" [] arm = "gold" -> "replay" [] OTHER -> "dispatch"
    /\ UNCHANGED <<plan, library, ledger, fired, replayed, calls, compile, result, missed>>

(* build_sandbox or the fingerprint raises: the row is invalid.             *)
BuildRaises ==
    /\ pc = "next"
    /\ done < Occurrences
    /\ result' = [NoResult EXCEPT !.outcome = "invalid"]
    /\ pc' = "append"
    /\ UNCHANGED <<plan, library, ledger, situation, fired, replayed, calls, compile, missed>>

(* The matcher's choice among the admitted programs, or none of them.  As a *)
(* bug would have it: a matcher that forgets to ask for the status.         *)
DispatchAnyStored(p) ==
    /\ pc = "dispatch"
    /\ p \in {q \in Programs : status[q] # None} \cup {NoProgram}
    /\ fired' = p
    /\ pc' = IF p = NoProgram THEN "solve" ELSE "replay"
    /\ UNCHANGED <<plan, library, ledger, situation, replayed, calls, compile, result, missed>>

Dispatch(p) ==
    /\ pc = "dispatch"
    /\ p \in Admitted \cup {NoProgram}
    /\ fired' = p
    /\ pc' = IF p = NoProgram THEN "solve" ELSE "replay"
    /\ UNCHANGED <<plan, library, ledger, situation, replayed, calls, compile, result, missed>>

(* A fired program is replayed.  Success ends the arm without a model call; *)
(* a genuine miss demotes the program, online; every failure falls back.    *)
Fired(how) ==
    [NoResult EXCEPT !.program_id = fired, !.admitted = "yes",
                     !.fired_variant = IF how = "refused" THEN None ELSE variant[fired],
                     !.timed_out = (how = "timed out"),
                     !.outcome = IF how = "ok" THEN "success" ELSE "none"]

Replay(how) ==
    /\ pc = "replay" /\ fired # NoProgram
    /\ replayed' = how
    /\ result' = Fired(how)
    /\ status' = IF IsGenuineMiss(how) /\ ~frozen THEN [status EXCEPT ![fired] = "demoted"]
                                                  ELSE status
    /\ missed' = IF IsGenuineMiss(how) THEN missed \cup {fired} ELSE missed
    /\ pc' = IF how = "ok" THEN "grade" ELSE "solve"
    /\ UNCHANGED <<plan, variant, mismatches, compiled, refusedFirst, ledger, situation, fired,
                   calls, compile>>

(* _run_gold: the oracle's program for the label, and no fallback.          *)
ReplayGold(how) ==
    /\ pc = "replay" /\ fired = NoProgram
    /\ situation.correct # None
    /\ replayed' = how
    /\ result' = [NoResult EXCEPT !.outcome = IF how = "ok" THEN "success" ELSE "fail",
                                  !.fired_variant = IF how = "refused" THEN None
                                                                       ELSE situation.correct,
                                  !.timed_out = (how = "timed out")]
    /\ pc' = "grade"
    /\ UNCHANGED <<plan, library, ledger, situation, fired, calls, compile, missed>>

NoGold ==
    /\ pc = "replay" /\ fired = NoProgram
    /\ situation.correct = None
    /\ result' = [NoResult EXCEPT !.outcome = "fail"]
    /\ pc' = "grade"
    /\ UNCHANGED <<plan, library, ledger, situation, fired, replayed, calls, compile, missed>>

(* The agent takes over.  A provider that rejects the key stops the run.    *)
AfterSolve(solved) ==
    IF replayed = "refused" THEN "refusal"
    ELSE IF ~solved THEN "fail"
    ELSE IF arm = "react" THEN "success" ELSE "fallback"

Solve(solved) ==
    /\ pc = "solve"
    /\ calls' = calls + 1
    /\ result' = [result EXCEPT !.outcome = AfterSolve(solved),
                                !.compilable = (solved /\ arm = "dispatch")]
    /\ pc' = "grade"
    /\ UNCHANGED <<plan, library, ledger, situation, fired, replayed, compile, missed>>

AuthRejected ==
    /\ pc \in {"solve", "compile"}
    /\ calls' = calls + 1
    /\ pc' = "stopped"
    /\ UNCHANGED <<plan, library, ledger, situation, fired, replayed, compile, result, missed>>

-----------------------------------------------------------------------------
(* After the arm.                                                           *)

(* The checker cannot grade the state: the row is invalid, keeps what was   *)
(* spent, and nothing is learned.                                           *)
GradeRaises ==
    /\ pc = "grade"
    /\ result' = [NoResult EXCEPT !.outcome = "invalid"]
    /\ pc' = "append"
    /\ UNCHANGED <<plan, library, ledger, situation, fired, replayed, calls, compile, missed>>

(* Graded: a frozen run goes straight to its row; online a solved task is   *)
(* compiled, whatever else happened.                                        *)
Grade ==
    /\ pc = "grade"
    /\ pc' = IF frozen THEN "append" ELSE IF result.compilable THEN "compile" ELSE "mismatch"
    /\ attempt' = IF ~frozen /\ result.compilable THEN 1 ELSE 0
    /\ UNCHANGED <<plan, library, ledger, situation, fired, replayed, calls, draft, verdict,
                   firstRefused, result, missed>>

(* As a bug would have it: one attempt too many.                            *)
AttemptLeftOver == attempt <= COMPILE_ATTEMPTS

AttemptLeft == attempt < COMPILE_ATTEMPTS

(* A compile that raises or does not parse.  Only a first reply that did    *)
(* not parse is tried again; a revision that failed leaves the program it   *)
(* should have revised to be stored.                                        *)
CompileFails(unparsed) ==
    /\ pc = "compile"
    /\ calls' = calls + 1
    /\ \/ /\ draft # NoDraft
          /\ pc' = "store"
          /\ UNCHANGED <<attempt, result>>
       \/ /\ draft = NoDraft /\ unparsed /\ AttemptLeft
          /\ attempt' = attempt + 1
          /\ UNCHANGED <<pc, result>>
       \/ /\ draft = NoDraft /\ ~(unparsed /\ AttemptLeft)
          /\ result' = CompileFailure(result)
          /\ pc' = "mismatch"
          /\ UNCHANGED attempt
    /\ UNCHANGED <<plan, library, ledger, situation, fired, replayed, draft, verdict,
                   firstRefused, missed>>

(* A compile that gives a program, gated: one that is refused is revised    *)
(* while an attempt is left.                                                *)
CompileParses(v, admitted) ==
    /\ pc = "compile"
    /\ calls' = calls + 1
    /\ draft' = [compiled |-> attempt, variant |-> v]
    /\ verdict' = admitted
    /\ firstRefused' = IF ~admitted /\ firstRefused = 0 THEN attempt ELSE firstRefused
    /\ IF admitted \/ ~AttemptLeft
       THEN pc' = "store" /\ UNCHANGED attempt
       ELSE attempt' = attempt + 1 /\ UNCHANGED pc
    /\ UNCHANGED <<plan, library, ledger, situation, fired, replayed, result, missed>>

(* Library.add, record_revision and set_status for the last program, and    *)
(* what the row says of it.  As bugs would have it: any refusal is recorded *)
(* as a revision, the stored program's own too; the status is set on the    *)
(* program the row names.                                                   *)
RefusedOnce == firstRefused # 0

Revised == firstRefused \notin {0, draft.compiled}

Told == IF verdict THEN result ELSE CompileFailure(result)

Named == IF Told.program_id = NoProgram THEN Episode ELSE Told.program_id

Stored(statuses, kept) ==
    /\ pc = "store"
    /\ status' = statuses
    /\ variant' = [variant EXCEPT ![Episode] = draft.variant]
    /\ compiled' = [compiled EXCEPT ![Episode] = draft.compiled]
    /\ refusedFirst' = [refusedFirst EXCEPT ![Episode] = kept]
    /\ result' = [Told EXCEPT !.program_id = Named,
                              !.admitted = IF @ = None THEN "yes" ELSE @]
    /\ pc' = "mismatch"
    /\ UNCHANGED <<plan, mismatches, ledger, situation, fired, replayed, calls, compile, missed>>

StatusOf(admitted) == IF admitted THEN "admitted" ELSE "candidate"

StoreAndAdmitNamed ==
    Stored([status EXCEPT ![Episode] = "candidate", ![Named] = StatusOf(verdict)],
           IF Revised THEN firstRefused ELSE 0)

Store ==
    Stored([status EXCEPT ![Episode] = StatusOf(verdict)], IF Revised THEN firstRefused ELSE 0)

(* _record_mismatch: a wrong resolution that ran is counted, and the second *)
(* one withdraws the program.  As bugs would have it: whether anything      *)
(* fired is not looked at; a timeout counts as well.                        *)
CountWhateverIsNamed ==
    /\ ~Accepts(result.fired_variant)
    /\ result.program_id # NoProgram
    /\ ~result.timed_out

CountTimeouts ==
    /\ result.fired_variant # None
    /\ ~Accepts(result.fired_variant)
    /\ result.program_id # NoProgram

Mismatched ==
    /\ result.fired_variant # None
    /\ ~Accepts(result.fired_variant)
    /\ result.program_id # NoProgram
    /\ ~result.timed_out

RecordMismatch ==
    /\ pc = "mismatch"
    /\ pc' = "append"
    /\ LET p == result.program_id IN
       IF Mismatched
       THEN /\ mismatches' = [mismatches EXCEPT ![p] = @ + 1]
            /\ status' = IF /\ mismatches[p] + 1 >= MISMATCHES_BEFORE_QUARANTINE
                            /\ "quarantined" \in Transitions[status[p]]
                         THEN [status EXCEPT ![p] = "quarantined"] ELSE status
       ELSE UNCHANGED <<mismatches, status>>
    /\ UNCHANGED <<plan, variant, compiled, refusedFirst, ledger, situation, fired, replayed,
                   calls, compile, result, missed>>

(* The row: its misfired is derived from what it holds.                     *)
RowMisfired == result.fired_variant # None /\ ~Accepts(result.fired_variant)

AppendRow ==
    /\ pc = "append"
    /\ done' = done + 1
    /\ misfires' = [p \in Programs |->
                       misfires[p] + IF /\ result.program_id = p
                                        /\ RowMisfired
                                        /\ ~result.timed_out THEN 1 ELSE 0]
    /\ pc' = "next"
    /\ situation' = [correct |-> None, acceptable |-> {}]
    /\ fired' = NoProgram /\ replayed' = None /\ calls' = 0
    /\ attempt' = 0 /\ draft' = NoDraft /\ verdict' = FALSE
    /\ firstRefused' = 0
    /\ result' = NoResult
    /\ UNCHANGED <<plan, library, missed>>

-----------------------------------------------------------------------------

(* Online an arm starts from an empty library; _require_frozen_library asks  *)
(* a frozen one for an admitted program.                                    *)
Init ==
    /\ frozen \in BOOLEAN
    /\ arm \in {"react", "gold", "dispatch"}
    /\ IF frozen
       THEN /\ status \in [Programs -> {"candidate", "admitted", None}]
            /\ "admitted" \in {status[p] : p \in Programs}
            /\ variant \in [Programs -> Variants]
       ELSE /\ status = [p \in Programs |-> None]
            /\ variant = [p \in Programs |-> None]
    /\ mismatches = [p \in Programs |-> 0]
    /\ compiled = [p \in Programs |-> IF status[p] = None THEN 0 ELSE 1]
    /\ refusedFirst = [p \in Programs |-> 0]
    /\ done = 0
    /\ misfires = [p \in Programs |-> 0]
    /\ pc = "next"
    /\ situation = [correct |-> None, acceptable |-> {}]
    /\ fired = NoProgram /\ replayed = None /\ calls = 0
    /\ attempt = 0 /\ draft = NoDraft /\ verdict = FALSE
    /\ firstRefused = 0
    /\ result = NoResult
    /\ missed = {}

Arm ==
    \/ BuildRaises
    \/ \E p \in Programs \cup {NoProgram} : Dispatch(p)
    \/ \E how \in ReplayResults : Replay(how) \/ ReplayGold(how)
    \/ NoGold
    \/ \E solved \in BOOLEAN : Solve(solved)
    \/ AuthRejected

Learn ==
    \/ \E unparsed \in BOOLEAN : CompileFails(unparsed)
    \/ \E v \in Variants, admitted \in BOOLEAN : CompileParses(v, admitted)
    \/ Store

Next ==
    \/ \E s \in Situations : Begin(s)
    \/ Arm
    \/ GradeRaises
    \/ Grade
    \/ Learn
    \/ RecordMismatch
    \/ AppendRow

Spec == Init /\ [][Next]_vars

-----------------------------------------------------------------------------
(* Properties.                                                              *)

TypeOK ==
    /\ frozen \in BOOLEAN
    /\ arm \in {"react", "gold", "dispatch"}
    /\ status \in [Programs -> Status \cup {None}]
    /\ variant \in [Programs -> Variants \cup {None}]
    /\ mismatches \in [Programs -> 0 .. 2]
    /\ compiled \in [Programs -> 0 .. 2]
    /\ refusedFirst \in [Programs -> 0 .. 1]
    /\ done \in 0 .. Occurrences
    /\ misfires \in [Programs -> Nat]
    /\ pc \in {"next", "dispatch", "replay", "solve", "grade", "compile", "store", "mismatch",
               "append", "stopped"}
    /\ situation \in Situations
    /\ fired \in Programs \cup {NoProgram}
    /\ replayed \in ReplayResults \cup {None}
    /\ calls \in 0 .. 3
    /\ attempt \in 0 .. 2
    /\ draft \in [compiled : 0 .. 2, variant : Variants \cup {None}]
    /\ verdict \in BOOLEAN
    /\ firstRefused \in 0 .. 2
    /\ result \in [outcome : Outcomes, fired_variant : Variants \cup {None},
                   program_id : Programs \cup {NoProgram}, admitted : {"yes", "no", None},
                   timed_out : BOOLEAN, compilable : BOOLEAN, compile_failure : BOOLEAN]
    /\ missed \subseteq Programs

(* Online, the mismatches the library holds against a program are exactly   *)
(* the ledger's rows that misfired it, timeouts apart: neither counts what  *)
(* the other does not, whatever failed in between.  A frozen library holds  *)
(* none.                                                                    *)
CountedMisfires ==
    pc = "next" => \A p \in Programs : mismatches[p] = IF frozen THEN 0 ELSE misfires[p]

(* Online, a program that missed once, or misfired on two rows, never fires *)
(* again: _run_arm demotes before the fallback, record_mismatch withdraws.  *)
NoSecondChance ==
    ~frozen /\ pc = "replay" /\ fired # NoProgram => fired \notin missed /\ misfires[fired] < 2

(* When a solution was compiled, the row and the library tell one story     *)
(* whatever the attempts gave.  The row gives a reason exactly when the     *)
(* library does not hold that program as admitted; what is stored is the    *)
(* last program that parsed, under the resolution it declares, and nothing  *)
(* is stored where none did; a revision is recorded exactly when that       *)
(* program replaced a first compile that admission refused -- not when the  *)
(* revision gave nothing, nor when the first reply only failed to parse.    *)
VerdictOnRow ==
    pc = "append" /\ attempt > 0 =>
        /\ result.compile_failure <=> status[Episode] # "admitted"
        /\ status[Episode] = None <=> draft = NoDraft
        /\ draft # NoDraft => /\ compiled[Episode] = draft.compiled
                              /\ variant[Episode] = draft.variant
        /\ refusedFirst[Episode] # 0 <=> firstRefused = 1 /\ compiled[Episode] = 2

(* _is_genuine_miss, _record_mismatch: a guard refusal or a timeout is no   *)
(* evidence against a program.  It stays dispatchable after the episode,    *)
(* however many there were before.                                          *)
MishapsSpareTheProgram ==
    pc = "append" /\ replayed \in {"refused", "timed out"} /\ fired # NoProgram =>
        status[fired] = "admitted"

(* _record_mismatch says nothing is counted when the body did not run to    *)
(* completion: after such an episode the library has counted no more than   *)
(* the rows before it.                                                      *)
OnlyFinishedBodiesCount ==
    pc = "append" /\ ~frozen /\ fired # NoProgram /\ replayed \in {"refused", "unbound", "timed out"}
        => mismatches[fired] = misfires[fired]

(* Through a run a program becomes dispatchable at most once, and once      *)
(* demoted or withdrawn it is never dispatchable again.                     *)
Phase(st) ==
    CASE st = None        -> "absent"
      [] st = "candidate" -> "waiting"
      [] st = "admitted"  -> "dispatchable"
      [] OTHER            -> "withdrawn"

poolPhase == [p \in Programs |-> Phase(status[p])]

Pool == INSTANCE DispatchPool WITH phase <- poolPhase

StepsInThePool == [][Pool!Next]_poolPhase

=============================================================================
