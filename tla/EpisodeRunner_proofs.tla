----------------------- MODULE EpisodeRunner_proofs -----------------------
(***************************************************************************)
(* Theorems about EpisodeRunner, for any number of occurrences and any     *)
(* resolutions: what the library holds against a program is what the       *)
(* ledger holds, a program that was found wrong never fires again, a       *)
(* mishap costs it nothing, and every step of a run is one of the pool's.  *)
(***************************************************************************)
EXTENDS EpisodeRunner, TLAPS

Mishaps == {"refused", "timed out"}

(* What the row will be made of.                                            *)
Results ==
    [outcome : Outcomes, fired_variant : Variants \cup {None},
     program_id : Programs \cup {NoProgram}, admitted : {"yes", "no", None},
     timed_out : BOOLEAN, compilable : BOOLEAN, compile_failure : BOOLEAN]

AfterReplay == {"solve", "grade", "compile", "store", "mismatch"}

(* What the program counter says of the episode under way.                  *)
Stage ==
    /\ pc # "next" => done < Occurrences
    /\ pc \in {"next", "dispatch"} => fired = NoProgram
    /\ pc \in {"next", "dispatch", "replay"} => replayed = None /\ result = NoResult
    /\ pc = "solve" /\ fired = NoProgram => result = NoResult
    /\ pc \in {"next", "dispatch", "replay", "solve"} => calls = 0
    /\ pc = "grade" => calls <= 1
    /\ pc = "compile" => calls <= attempt

(* Only a solved task of an online dispatching arm is compiled, and a        *)
(* compile that is refused first is not the one that is stored last.         *)
Compiling ==
    /\ pc \in {"compile", "store"} => attempt # 0
    /\ pc \in {"compile", "store", "mismatch"} => ~frozen
    /\ attempt # 0 => /\ pc \in {"compile", "store", "mismatch", "append", "stopped"}
                      /\ result.compilable
    /\ attempt = 0 => firstRefused = 0
    /\ pc = "compile" => firstRefused < attempt
    /\ firstRefused = 2 => draft.compiled = 2

(* What the row will say, against what fired and what the library holds.    *)
Row ==
    /\ result.fired_variant # None => result.program_id = fired
    /\ result.compilable /\ fired = NoProgram => result.fired_variant = None
    /\ pc \notin {"mismatch", "append"} => ~result.compile_failure
    /\ pc \in {"mismatch", "append"} /\ attempt # 0 =>
           (result.compile_failure <=> status[Episode] # "admitted")

(* A mishap leaves no evidence: the program stays, and the row counts none. *)
Spared ==
    replayed \in Mishaps /\ fired # NoProgram =>
        /\ status[fired] = "admitted"
        /\ result.fired_variant # None => result.timed_out

(* Where the programs stand that the episode touches.                       *)
Shelf ==
    /\ ~frozen => \A p \in Programs :
           \/ p <= done
           \/ status[p] = None
           \/ p = Episode /\ pc \in {"mismatch", "append"} /\ attempt # 0
    /\ ~frozen => fired <= done
    /\ pc = "replay" /\ fired # NoProgram => status[fired] = "admitted"
    /\ pc \in AfterReplay /\ fired # NoProgram => status[fired] \in {"admitted", "demoted"}
    /\ ~frozen => \A p \in missed : status[p] \in {"demoted", "quarantined"}

(* The row about to be appended counts one misfire the ledger has not yet.  *)
Owed(p) ==
    IF pc = "append" /\ result.program_id = p /\ RowMisfired /\ ~result.timed_out THEN 1 ELSE 0

Counts ==
    \A p \in Programs :
        /\ mismatches[p] >= 2 => status[p] = "quarantined"
        /\ mismatches[p] = IF frozen THEN 0 ELSE misfires[p] + Owed(p)

IInv == TypeOK /\ Stage /\ Compiling /\ Row /\ Spared /\ Shelf /\ Counts

LEMMA InitIInv == Init => IInv
<1>. SUFFICES ASSUME Init  PROVE IInv
  OBVIOUS
<1>1. TypeOK
  <2>1. /\ status \in [Programs -> Status \cup {None}]
        /\ variant \in [Programs -> Variants \cup {None}]
    BY DEF Init, Status
  <2>2. compiled \in [Programs -> 0 .. 2]
    BY DEF Init
  <2>3. mismatches \in [Programs -> 0 .. 2] /\ refusedFirst \in [Programs -> 0 .. 1]
    BY DEF Init
  <2>4. misfires \in [Programs -> Nat] /\ done \in 0 .. Occurrences
    BY RunnerAssumption DEF Init
  <2>5. situation \in Situations
    BY RunnerAssumption DEF Init, Situations
  <2>6. result \in Results
    BY DEF Init, NoResult, Outcomes, Results
  <2>7. draft \in [compiled : 0 .. 2, variant : Variants \cup {None}]
    BY DEF Init, NoDraft
  <2>9. calls \in 0 .. 3 /\ attempt \in 0 .. 2 /\ firstRefused \in 0 .. 2
    BY DEF Init
  <2>8. /\ frozen \in BOOLEAN /\ arm \in {"react", "gold", "dispatch"}
        /\ pc = "next" /\ fired = NoProgram /\ replayed = None /\ calls = 0
        /\ attempt = 0 /\ verdict = FALSE /\ firstRefused = 0 /\ missed = {}
    BY DEF Init
  <2>. QED  BY <2>1, <2>2, <2>3, <2>4, <2>5, <2>6, <2>7, <2>8, <2>9 DEF TypeOK, Results
<1>2. Stage /\ Compiling /\ Row /\ Spared
  BY DEF Init, Stage, Compiling, Row, Spared, NoResult, Mishaps, None
<1>3. Shelf /\ Counts
  BY RunnerAssumption DEF Init, Shelf, Counts, Owed, AfterReplay, NoProgram, None
<1>. QED  BY <1>1, <1>2, <1>3 DEF IInv

(* Every action keeps every part of the invariant.                          *)
LEMMA BeginIInv == ASSUME NEW s \in Situations PROVE IInv /\ Begin(s) => IInv'
<1>. SUFFICES ASSUME IInv, Begin(s)  PROVE IInv'
  OBVIOUS
<1>. USE DEF IInv, Begin, plan, library, ledger, compile
<1>1. TypeOK'
  BY DEF TypeOK
<1>2. Stage' /\ Compiling'
  BY RunnerAssumption DEF Stage, Compiling, TypeOK
<1>3. Row' /\ Spared'
  BY DEF Row, Spared, Episode
<1>4. Shelf'
  BY DEF Shelf, Stage, AfterReplay, Episode
<1>5. Counts'
  BY DEF Counts, Owed
<1>. QED  BY <1>1, <1>2, <1>3, <1>4, <1>5

LEMMA BuildRaisesIInv == IInv /\ BuildRaises => IInv'
<1>. SUFFICES ASSUME IInv, BuildRaises  PROVE IInv'
  OBVIOUS
<1>. USE DEF IInv, BuildRaises, plan, library, ledger, compile
<1>1. TypeOK'
  BY DEF TypeOK, NoResult, Outcomes
<1>2. Stage' /\ Compiling'
  BY DEF Stage, Compiling, NoResult
<1>3. Row' /\ Spared'
  BY DEF Row, Spared, Episode, Stage, Compiling, NoResult
<1>4. Shelf'
  BY DEF Shelf, Stage, AfterReplay, Episode
<1>5. Counts'
  BY DEF Counts, Owed, RowMisfired, Accepts, NoResult
<1>. QED  BY <1>1, <1>2, <1>3, <1>4, <1>5

LEMMA DispatchIInv == ASSUME NEW p \in Programs \cup {NoProgram} PROVE IInv /\ Dispatch(p) => IInv'
<1>. SUFFICES ASSUME IInv, Dispatch(p)  PROVE IInv'
  OBVIOUS
<1>. USE DEF IInv, Dispatch, plan, library, ledger, compile
<1>1. TypeOK'
  BY DEF TypeOK
<1>2. Stage' /\ Compiling'
  BY DEF Stage, Compiling
<1>3. Row' /\ Spared'
  BY DEF Row, Spared, Stage, Compiling, NoResult, Mishaps, None
<1>4. Shelf'
  <2>1. ~frozen => p <= done
    BY RunnerAssumption DEF Shelf, Admitted, Stage, TypeOK, None, Programs, NoProgram
  <2>2. p # NoProgram => status[p] = "admitted"
    BY DEF Admitted
  <2>. QED  BY <2>1, <2>2 DEF Shelf, AfterReplay, Episode
<1>5. Counts'
  BY DEF Counts, Owed
<1>. QED  BY <1>1, <1>2, <1>3, <1>4, <1>5

LEMMA ReplayIInv == ASSUME NEW how \in ReplayResults PROVE IInv /\ Replay(how) => IInv'
<1>. SUFFICES ASSUME IInv, Replay(how)  PROVE IInv'
  OBVIOUS
<1>. USE DEF IInv, Replay, plan, library, ledger, compile
<1>0. fired \in Programs /\ status[fired] = "admitted" /\ attempt = 0
  BY DEF TypeOK, Shelf, Compiling
<1>r. /\ result'.program_id = fired /\ ~result'.compile_failure /\ ~result'.compilable
      /\ how = "refused" => result'.fired_variant = None
      /\ how = "timed out" => result'.timed_out
  BY DEF Fired, NoResult
<1>s. \A q \in Programs :
          /\ q # fired => status'[q] = status[q]
          /\ status'[q] = status[q] \/ (q = fired /\ status'[q] = "demoted")
          /\ how \in Mishaps => status'[q] = status[q]
          /\ ~frozen /\ IsGenuineMiss(how) /\ q = fired => status'[q] = "demoted"
  BY DEF TypeOK, IsGenuineMiss, Mishaps
<1>1. TypeOK'
  <2>1. status' \in [Programs -> Status \cup {None}]
    BY DEF TypeOK, Status
  <2>2. result' \in Results
    BY <1>0 DEF Fired, NoResult, TypeOK, Outcomes, Results
  <2>3. missed' \subseteq Programs
    BY <1>0 DEF TypeOK
  <2>. QED  BY <2>1, <2>2, <2>3 DEF TypeOK, Results
<1>2. Stage' /\ Compiling'
  BY <1>0, RunnerAssumption DEF Stage, Compiling, TypeOK
<1>3. Row'
  BY <1>0, <1>r DEF Row
<1>6. Spared'
  BY <1>0, <1>r, <1>s DEF Spared, Mishaps
<1>4. Shelf'
  <2>1. (~frozen => \A q \in Programs :
             q <= done \/ status[q] = None \/ (q = Episode /\ pc \in {"mismatch", "append"} /\ attempt # 0))'
    <3>1. \A q \in Programs : ~frozen => q <= done \/ status[q] = None
      BY DEF Shelf
    <3>2. ~frozen => fired <= done
      BY DEF Shelf
    <3>. QED  BY <1>s, <3>1, <3>2
  <2>2. (~frozen => \A q \in missed : status[q] \in {"demoted", "quarantined"})'
    BY <1>0, <1>s DEF Shelf, TypeOK
  <2>3. status'[fired] \in {"admitted", "demoted"}
    BY <1>0, <1>s
  <2>. QED  BY <2>1, <2>2, <2>3, <1>0 DEF Shelf, AfterReplay
<1>5. Counts'
  <2>1. \A q \in Programs : Owed(q)' = 0 /\ Owed(q) = 0
    BY DEF Owed
  <2>. QED  BY <2>1, <1>0, <1>s DEF Counts, TypeOK
<1>. QED  BY <1>1, <1>2, <1>3, <1>4, <1>5, <1>6

LEMMA ReplayGoldIInv == ASSUME NEW how \in ReplayResults PROVE IInv /\ ReplayGold(how) => IInv'
<1>. SUFFICES ASSUME IInv, ReplayGold(how)  PROVE IInv'
  OBVIOUS
<1>. USE DEF IInv, ReplayGold, plan, library, ledger, compile
<1>1. TypeOK'
  <2>1. situation.correct \in Variants
    BY DEF TypeOK, Situations
  <2>2. result' \in Results
    BY <2>1 DEF NoResult, Results, Outcomes
  <2>. QED  BY <2>2 DEF TypeOK, Results
<1>2. Stage' /\ Compiling'
  BY RunnerAssumption DEF Stage, Compiling, TypeOK
<1>3. Row' /\ Spared'
  BY DEF Row, Spared, NoResult, Stage, Compiling
<1>4. Shelf'
  BY DEF Shelf, AfterReplay, Episode
<1>5. Counts'
  BY DEF Counts, Owed
<1>. QED  BY <1>1, <1>2, <1>3, <1>4, <1>5

LEMMA NoGoldIInv == IInv /\ NoGold => IInv'
<1>. SUFFICES ASSUME IInv, NoGold  PROVE IInv'
  OBVIOUS
<1>. USE DEF IInv, NoGold, plan, library, ledger, compile
<1>1. TypeOK'
  BY DEF TypeOK, NoResult, Outcomes
<1>2. Stage' /\ Compiling'
  BY RunnerAssumption DEF Stage, Compiling, TypeOK
<1>3. Row' /\ Spared'
  BY DEF Row, Spared, NoResult, Stage, Compiling
<1>4. Shelf'
  BY DEF Shelf, AfterReplay, Episode
<1>5. Counts'
  BY DEF Counts, Owed
<1>. QED  BY <1>1, <1>2, <1>3, <1>4, <1>5

LEMMA SolveIInv == ASSUME NEW solved \in BOOLEAN PROVE IInv /\ Solve(solved) => IInv'
<1>. SUFFICES ASSUME IInv, Solve(solved)  PROVE IInv'
  OBVIOUS
<1>. USE DEF IInv, Solve, plan, library, ledger, compile
<1>r. /\ result'.program_id = result.program_id /\ result'.fired_variant = result.fired_variant
      /\ result'.timed_out = result.timed_out /\ result'.compile_failure = result.compile_failure
  BY DEF TypeOK
<1>1. TypeOK'
  <2>1. AfterSolve(solved) \in Outcomes
    BY DEF AfterSolve, Outcomes
  <2>2. calls' \in 0 .. 3
    BY DEF Stage
  <2>3. result' \in Results
    BY <2>1 DEF TypeOK, Results
  <2>. QED  BY <2>2, <2>3 DEF TypeOK, Results
<1>2. Stage' /\ Compiling'
  BY DEF Stage, Compiling, TypeOK
<1>3. Row' /\ Spared'
  BY <1>r DEF Row, Spared, Stage, NoResult
<1>4. Shelf'
  BY DEF Shelf, AfterReplay, Episode
<1>5. Counts'
  BY DEF Counts, Owed
<1>. QED  BY <1>1, <1>2, <1>3, <1>4, <1>5

LEMMA AuthRejectedIInv == IInv /\ AuthRejected => IInv'
<1>. SUFFICES ASSUME IInv, AuthRejected  PROVE IInv'
  OBVIOUS
<1>. USE DEF IInv, AuthRejected, plan, library, ledger, compile
<1>1. TypeOK'
  <2>1. calls' \in 0 .. 3
    BY DEF Stage, TypeOK
  <2>. QED  BY <2>1 DEF TypeOK
<1>2. Stage' /\ Compiling'
  BY DEF Stage, Compiling, TypeOK
<1>3. Row' /\ Spared'
  BY DEF Row, Spared
<1>4. Shelf'
  BY DEF Shelf, AfterReplay, Episode
<1>5. Counts'
  BY DEF Counts, Owed
<1>. QED  BY <1>1, <1>2, <1>3, <1>4, <1>5

LEMMA GradeRaisesIInv == IInv /\ GradeRaises => IInv'
<1>. SUFFICES ASSUME IInv, GradeRaises  PROVE IInv'
  OBVIOUS
<1>. USE DEF IInv, GradeRaises, plan, library, ledger, compile
<1>1. TypeOK'
  BY DEF TypeOK, NoResult, Outcomes
<1>2. Stage' /\ Compiling'
  BY DEF Stage, Compiling, NoResult
<1>3. Row' /\ Spared'
  BY DEF Row, Spared, Episode, Stage, Compiling, NoResult
<1>4. Shelf'
  BY DEF Shelf, Stage, AfterReplay, Episode
<1>5. Counts'
  BY DEF Counts, Owed, RowMisfired, Accepts, NoResult
<1>. QED  BY <1>1, <1>2, <1>3, <1>4, <1>5

LEMMA GradeIInv == IInv /\ Grade => IInv'
<1>. SUFFICES ASSUME IInv, Grade  PROVE IInv'
  OBVIOUS
<1>. USE DEF IInv, Grade, plan, library, ledger, compile
<1>1. TypeOK'
  BY DEF TypeOK
<1>0. attempt = 0 /\ firstRefused = 0 /\ done < Occurrences /\ calls <= 1
  BY DEF Stage, Compiling
<1>c. \/ frozen /\ pc' = "append" /\ attempt' = 0
      \/ ~frozen /\ result.compilable /\ pc' = "compile" /\ attempt' = 1
      \/ ~frozen /\ ~result.compilable /\ pc' = "mismatch" /\ attempt' = 0
  OBVIOUS
<1>2. Stage' /\ Compiling'
  BY <1>0, <1>c DEF Stage, Compiling
<1>3. Row' /\ Spared'
  BY <1>0, <1>c DEF Row, Spared
<1>4. Shelf'
  BY <1>0, <1>c DEF Shelf, AfterReplay, Episode
<1>5. Counts'
  BY <1>c DEF Counts, Owed
<1>. QED  BY <1>1, <1>2, <1>3, <1>4, <1>5

LEMMA CompileFailsIInv == ASSUME NEW unparsed \in BOOLEAN PROVE IInv /\ CompileFails(unparsed) => IInv'
<1>. SUFFICES ASSUME IInv, CompileFails(unparsed)  PROVE IInv'
  OBVIOUS
<1>. USE DEF IInv, CompileFails, plan, library, ledger, AttemptLeft, COMPILE_ATTEMPTS
<1>r. /\ result'.program_id = result.program_id /\ result'.fired_variant = result.fired_variant
      /\ result'.timed_out = result.timed_out /\ result'.compilable = result.compilable
      /\ pc' = "mismatch" => result'.compile_failure
      /\ pc' # "mismatch" => ~result'.compile_failure
  BY DEF TypeOK, CompileFailure, Row
<1>1. TypeOK'
  <2>1. calls' \in 0 .. 3 /\ attempt' \in 0 .. 2
    BY DEF Stage, TypeOK
  <2>2. CompileFailure(result) \in Results
    BY DEF TypeOK, CompileFailure, Results
  <2>. QED  BY <2>1, <2>2 DEF TypeOK, Results
<1>2. Stage' /\ Compiling'
  BY <1>r DEF Stage, Compiling, TypeOK
<1>3. Row' /\ Spared'
  <2>1. status[Episode] = None
    BY RunnerAssumption DEF Shelf, Compiling, Stage, TypeOK, Episode, Programs
  <2>. QED  BY <1>r, <2>1 DEF Row, Spared, Episode, None
<1>4. Shelf'
  BY DEF Shelf, AfterReplay, Episode
<1>5. Counts'
  BY DEF Counts, Owed
<1>. QED  BY <1>1, <1>2, <1>3, <1>4, <1>5

LEMMA CompileParsesIInv ==
    ASSUME NEW v \in Variants, NEW admitted \in BOOLEAN
    PROVE  IInv /\ CompileParses(v, admitted) => IInv'
<1>. SUFFICES ASSUME IInv, CompileParses(v, admitted)  PROVE IInv'
  OBVIOUS
<1>. USE DEF IInv, CompileParses, plan, library, ledger, AttemptLeft, COMPILE_ATTEMPTS
<1>1. TypeOK'
  <2>1. calls' \in 0 .. 3 /\ attempt' \in 0 .. 2 /\ firstRefused' \in 0 .. 2
    BY DEF Stage, TypeOK
  <2>2. draft' \in [compiled : 0 .. 2, variant : Variants \cup {None}]
    BY DEF TypeOK
  <2>3. pc' \in {"store", "compile"}
    BY DEF TypeOK
  <2>. QED  BY <2>1, <2>2, <2>3 DEF TypeOK
<1>2. Stage' /\ Compiling'
  BY DEF Stage, Compiling, TypeOK
<1>3. Row' /\ Spared'
  BY DEF Row, Spared
<1>4. Shelf'
  BY DEF Shelf, AfterReplay, Episode
<1>5. Counts'
  BY DEF Counts, Owed
<1>. QED  BY <1>1, <1>2, <1>3, <1>4, <1>5

LEMMA StoreIInv == IInv /\ Store => IInv'
<1>. SUFFICES ASSUME IInv, Store  PROVE IInv'
  OBVIOUS
<1>. USE DEF IInv, Store, Stored, plan, ledger, compile
<1>0. /\ pc = "store" /\ attempt # 0 /\ ~frozen /\ Episode \in Programs /\ status[Episode] = None
      /\ result.compilable /\ ~result.compile_failure
  BY RunnerAssumption DEF Shelf, Compiling, Stage, Row, TypeOK, Episode, Programs
<1>f. fired # NoProgram => fired # Episode
  BY <1>0 DEF Shelf, TypeOK, Episode, Programs, NoProgram
<1>t. /\ Told.program_id = result.program_id /\ Told.fired_variant = result.fired_variant
      /\ Told.timed_out = result.timed_out /\ Told.compilable /\ Told.compile_failure = ~verdict
      /\ Told.admitted \in {"yes", "no", None} /\ Told.outcome = result.outcome
      /\ Told \in Results
  BY <1>0 DEF Told, CompileFailure, TypeOK, Results
<1>r. /\ result'.fired_variant = result.fired_variant /\ result'.timed_out = result.timed_out
      /\ result'.compilable /\ result'.compile_failure = ~verdict
      /\ result'.program_id = Named
      /\ result.fired_variant # None => Named = fired
  <2>1. result.fired_variant # None => result.program_id = fired /\ fired # NoProgram
    BY <1>0 DEF Row
  <2>. QED  BY <1>t, <2>1 DEF Named
<1>s. \A q \in Programs :
          status'[q] = IF q = Episode THEN StatusOf(verdict) ELSE status[q]
  BY <1>0 DEF TypeOK
<1>1. TypeOK'
  <2>1. status' \in [Programs -> Status \cup {None}]
    BY DEF TypeOK, StatusOf, Status
  <2>2. variant' \in [Programs -> Variants \cup {None}] /\ compiled' \in [Programs -> 0 .. 2]
    BY DEF TypeOK
  <2>3. (IF Revised THEN firstRefused ELSE 0) \in 0 .. 1
    BY DEF Revised, Compiling, TypeOK
  <2>4. refusedFirst' \in [Programs -> 0 .. 1]
    BY <2>3 DEF TypeOK
  <2>5. Named \in Programs \cup {NoProgram}
    BY <1>0, <1>t DEF Named, TypeOK, Results
  <2>6. result' \in Results
    BY <1>t, <2>5 DEF Results
  <2>. QED  BY <2>1, <2>2, <2>4, <2>6 DEF TypeOK, Results
<1>2. Stage' /\ Compiling'
  BY <1>0, <1>r DEF Stage, Compiling
<1>3. Row'
  <2>1. result'.compile_failure <=> status'[Episode] # "admitted"
    BY <1>0, <1>r, <1>s DEF StatusOf, TypeOK
  <2>. QED  BY <2>1, <1>0, <1>r DEF Row, Episode
<1>4. Spared'
  BY <1>f, <1>r, <1>s DEF Spared, TypeOK
<1>5. Shelf'
  <2>1. (~frozen => \A q \in Programs :
             q <= done \/ status[q] = None \/ (q = Episode /\ pc \in {"mismatch", "append"} /\ attempt # 0))'
    BY <1>0, <1>s DEF Shelf, Episode
  <2>2. Episode \notin missed
    BY <1>0 DEF Shelf, None
  <2>3. (~frozen => \A q \in missed : status[q] \in {"demoted", "quarantined"})'
    BY <2>2, <1>s DEF Shelf, TypeOK
  <2>. QED  BY <2>1, <2>3, <1>0, <1>f, <1>s DEF Shelf, AfterReplay, TypeOK
<1>6. Counts'
  <2>1. \A q \in Programs : Owed(q)' = 0 /\ Owed(q) = 0
    BY DEF Owed
  <2>2. mismatches[Episode] < 2
    BY <1>0 DEF Counts, TypeOK, None
  <2>. QED  BY <2>1, <2>2, <1>0, <1>s DEF Counts, TypeOK
<1>. QED  BY <1>1, <1>2, <1>3, <1>4, <1>5, <1>6

LEMMA RecordMismatchIInv == IInv /\ RecordMismatch => IInv'
<1>. SUFFICES ASSUME IInv, RecordMismatch  PROVE IInv'
  OBVIOUS
<1>. DEFINE p == result.program_id
<1>. USE DEF IInv, plan, library, ledger, compile
<1>0. /\ pc = "mismatch" /\ pc' = "append" /\ ~frozen
      /\ UNCHANGED <<plan, variant, compiled, refusedFirst, ledger, situation, fired, replayed,
                     calls, compile, result, missed>>
  BY DEF RecordMismatch, Compiling
<1>a. ASSUME Mismatched
      PROVE  /\ p = fired /\ p \in Programs /\ status[p] \in {"admitted", "demoted"}
             /\ mismatches[p] < 2 /\ p <= done /\ replayed \notin Mishaps
             /\ mismatches' = [mismatches EXCEPT ![p] = @ + 1]
             /\ status' = IF mismatches[p] + 1 >= 2 THEN [status EXCEPT ![p] = "quarantined"]
                                                    ELSE status
  <2>1. p = fired /\ p # NoProgram
    BY <1>a DEF Mismatched, Row
  <2>2. p \in Programs
    BY <2>1 DEF TypeOK
  <2>3. status[p] \in {"admitted", "demoted"} /\ p <= done
    BY <2>1, <1>0 DEF Shelf, AfterReplay
  <2>4. mismatches[p] < 2
    BY <2>2, <2>3 DEF Counts, TypeOK
  <2>5. replayed \notin Mishaps
    BY <1>a, <2>1 DEF Spared, Mismatched
  <2>6. "quarantined" \in Transitions[status[p]]
    BY <2>3 DEF Transitions
  <2>. QED  BY <1>a, <2>1, <2>2, <2>3, <2>4, <2>5, <2>6
            DEF RecordMismatch, MISMATCHES_BEFORE_QUARANTINE
<1>b. ~Mismatched => UNCHANGED <<mismatches, status>>
  BY DEF RecordMismatch
<1>. HIDE DEF p
<1>s. \A q \in Programs :
          /\ status'[q] = status[q] \/ (Mismatched /\ q = fired /\ status'[q] = "quarantined")
          /\ mismatches'[q] = IF Mismatched /\ q = p THEN mismatches[q] + 1 ELSE mismatches[q]
          /\ Mismatched /\ q = p /\ mismatches[q] + 1 >= 2 => status'[q] = "quarantined"
  <2>1. CASE Mismatched
    BY <1>a, <2>1 DEF TypeOK
  <2>2. CASE ~Mismatched
    BY <1>b, <2>2
  <2>. QED  BY <2>1, <2>2
<1>1. TypeOK'
  <2>1. status' \in [Programs -> Status \cup {None}]
    BY <1>a, <1>b DEF TypeOK, Status
  <2>2. mismatches' \in [Programs -> 0 .. 2]
    <3>1. CASE Mismatched
      <4>1. mismatches[p] + 1 \in 0 .. 2
        BY <1>a, <3>1 DEF TypeOK
      <4>. QED  BY <4>1, <1>a, <3>1 DEF TypeOK
    <3>2. CASE ~Mismatched
      BY <1>b, <3>2 DEF TypeOK
    <3>. QED  BY <3>1, <3>2
  <2>. QED  BY <1>0, <2>1, <2>2 DEF TypeOK
<1>2. Stage' /\ Compiling'
  BY <1>0 DEF Stage, Compiling
<1>3. Row'
  <2>1. Episode \in Programs
    BY <1>0, RunnerAssumption DEF Episode, Stage, TypeOK, Programs
  <2>2. Mismatched => fired # Episode
    BY <1>a DEF Episode, TypeOK, Programs
  <2>3. status'[Episode] = status[Episode]
    BY <1>s, <2>1, <2>2
  <2>. QED  BY <1>0, <2>3 DEF Row, Episode
<1>4. Spared'
  <2>1. replayed \in Mishaps => ~Mismatched
    BY <1>a
  <2>. QED  BY <1>0, <1>b, <2>1 DEF Spared
<1>5. Shelf'
  <2>1. (~frozen => \A q \in Programs :
             q <= done \/ status[q] = None \/ (q = Episode /\ pc \in {"mismatch", "append"} /\ attempt # 0))'
    <3>1. \A q \in Programs : q <= done \/ status[q] = None \/ (q = Episode /\ attempt # 0)
      BY <1>0 DEF Shelf
    <3>2. Mismatched => fired <= done
      BY <1>a
    <3>. QED  BY <1>0, <1>s, <3>1, <3>2 DEF Episode
  <2>2. (~frozen => \A q \in missed : status[q] \in {"demoted", "quarantined"})'
    BY <1>0, <1>s DEF Shelf, TypeOK
  <2>. QED  BY <1>0, <2>1, <2>2 DEF Shelf, AfterReplay
<1>6. Counts'
  <2>1. \A q \in Programs : Owed(q)' = IF Mismatched /\ q = p THEN 1 ELSE 0
    BY <1>0 DEF Owed, Mismatched, RowMisfired, Accepts, p, NoProgram, Programs
  <2>2. \A q \in Programs : Owed(q) = 0
    BY <1>0 DEF Owed
  <2>3. \A q \in Programs : mismatches[q] = misfires[q] /\ misfires[q] \in Nat
    BY <1>0, <2>2 DEF Counts, TypeOK
  <2>4. \A q \in Programs : mismatches'[q] = misfires'[q] + Owed(q)'
    BY <1>0, <1>s, <2>1, <2>3
  <2>5. \A q \in Programs : mismatches[q] >= 2 => status[q] = "quarantined"
    BY DEF Counts
  <2>6. \A q \in Programs : mismatches'[q] >= 2 => status'[q] = "quarantined"
    BY <1>s, <2>5
  <2>. QED  BY <1>0, <2>4, <2>6 DEF Counts
<1>. QED  BY <1>1, <1>2, <1>3, <1>4, <1>5, <1>6

LEMMA AppendRowIInv == IInv /\ AppendRow => IInv'
<1>. SUFFICES ASSUME IInv, AppendRow  PROVE IInv'
  OBVIOUS
<1>. USE DEF IInv, plan, library
<1>0. /\ pc = "append" /\ pc' = "next" /\ done' = done + 1 /\ done < Occurrences
      /\ fired' = NoProgram /\ replayed' = None /\ calls' = 0 /\ attempt' = 0
      /\ draft' = NoDraft /\ verdict' = FALSE /\ firstRefused' = 0 /\ result' = NoResult
      /\ situation' = [correct |-> None, acceptable |-> {}]
      /\ UNCHANGED <<plan, library, missed>>
  BY DEF AppendRow, Stage
<1>m. \A q \in Programs : misfires'[q] = misfires[q] + Owed(q)
  BY DEF AppendRow, Owed
<1>1. TypeOK'
  <2>1. misfires' \in [Programs -> Nat]
    <3>1. \A q \in Programs : misfires'[q] \in Nat
      BY <1>m DEF TypeOK, Owed
    <3>. QED  BY <3>1 DEF AppendRow
  <2>2. done' \in 0 .. Occurrences
    BY <1>0, RunnerAssumption DEF TypeOK
  <2>3. situation' \in Situations
    BY <1>0, RunnerAssumption DEF Situations
  <2>4. result' \in Results
    BY <1>0 DEF NoResult, Results, Outcomes
  <2>5. draft' \in [compiled : 0 .. 2, variant : Variants \cup {None}]
    BY <1>0 DEF NoDraft
  <2>6. calls' \in 0 .. 3 /\ attempt' \in 0 .. 2 /\ firstRefused' \in 0 .. 2
    BY <1>0
  <2>7. fired' \in Programs \cup {NoProgram} /\ replayed' \in ReplayResults \cup {None}
        /\ verdict' \in BOOLEAN /\ pc' \in {"next"}
    BY <1>0
  <2>. QED  BY <1>0, <2>1, <2>2, <2>3, <2>4, <2>5, <2>6, <2>7 DEF TypeOK, Results
<1>2. Stage' /\ Compiling'
  BY <1>0 DEF Stage, Compiling
<1>3. Row' /\ Spared'
  BY <1>0 DEF Row, Spared, NoResult, Mishaps, None
<1>4. Shelf'
  <2>1. ~frozen => \A q \in Programs : q <= done + 1 \/ status[q] = None
    BY RunnerAssumption DEF Shelf, Episode, TypeOK, Programs
  <2>2. NoProgram <= done + 1
    BY DEF TypeOK, NoProgram
  <2>. QED  BY <1>0, <2>1, <2>2 DEF Shelf, AfterReplay
<1>5. Counts'
  <2>1. \A q \in Programs : Owed(q)' = 0
    BY <1>0 DEF Owed
  <2>2. \A q \in Programs : misfires'[q] \in Nat
    BY <1>m DEF TypeOK, Owed
  <2>. QED  BY <1>0, <1>m, <2>1, <2>2 DEF Counts
<1>. QED  BY <1>1, <1>2, <1>3, <1>4, <1>5

LEMMA StutterIInv == IInv /\ UNCHANGED vars => IInv'
<1>. SUFFICES ASSUME IInv, UNCHANGED vars  PROVE IInv'
  OBVIOUS
<1>. USE DEF IInv, vars, plan, library, ledger, compile
<1>1. TypeOK'
  BY DEF TypeOK
<1>2. Stage' /\ Compiling' /\ Row' /\ Spared' /\ Shelf' /\ Counts'
  BY DEF Stage, Compiling, Row, Spared, Shelf, Counts, Owed, RowMisfired, Accepts, Episode
<1>. QED  BY <1>1, <1>2

LEMMA NextIInv == IInv /\ [Next]_vars => IInv'
<1>. SUFFICES ASSUME IInv, [Next]_vars  PROVE IInv'
  OBVIOUS
<1>1. CASE Arm
  BY <1>1, BuildRaisesIInv, DispatchIInv, ReplayIInv, ReplayGoldIInv, NoGoldIInv, SolveIInv,
     AuthRejectedIInv DEF Arm
<1>2. CASE Learn
  BY <1>2, CompileFailsIInv, CompileParsesIInv, StoreIInv DEF Learn
<1>. QED  BY <1>1, <1>2, BeginIInv, GradeRaisesIInv, GradeIInv, RecordMismatchIInv,
             AppendRowIInv, StutterIInv DEF Next

LEMMA Invariant == Spec => []IInv
  BY InitIInv, NextIInv, PTL DEF Spec

(* Every reachable state of a run is well-typed: no episode makes more model *)
(* calls than a solve and two compiles, no program is counted more than the  *)
(* two mismatches that withdraw it (library.py record_mismatch).             *)
THEOREM TypeCorrect == Spec => []TypeOK
  BY Invariant, PTL DEF IInv

(* Between episodes the library counts against a program exactly the rows    *)
(* that misfired it and did not time out (run.py _record_mismatch).          *)
THEOREM CountedMisfiresHolds == Spec => []CountedMisfires
<1>1. IInv => CountedMisfires
  BY DEF IInv, TypeOK, Counts, Owed, CountedMisfires
<1>. QED  BY <1>1, Invariant, PTL

(* A program that missed once, or misfired on two rows, never fires again    *)
(* (run.py _run_arm, _record_mismatch).                                      *)
THEOREM NoSecondChanceHolds == Spec => []NoSecondChance
<1>1. IInv => NoSecondChance
  <2>. SUFFICES ASSUME IInv, ~frozen, pc = "replay", fired # NoProgram
                PROVE  fired \notin missed /\ misfires[fired] < 2
    BY DEF NoSecondChance
  <2>1. fired \in Programs /\ status[fired] = "admitted"
    BY DEF IInv, TypeOK, Shelf
  <2>2. fired \notin missed
    BY <2>1 DEF IInv, Shelf
  <2>3. mismatches[fired] < 2 /\ mismatches[fired] = misfires[fired] /\ misfires[fired] \in Nat
    BY <2>1 DEF IInv, TypeOK, Counts, Owed
  <2>. QED  BY <2>2, <2>3
<1>. QED  BY <1>1, Invariant, PTL

(* Where the stored program comes from: what an unstored one leaves blank,  *)
(* and what the episode's row is appended on.                               *)
Filed ==
    /\ compiled[Episode] = draft.compiled
    /\ variant[Episode] = draft.variant

Provenance ==
    /\ draft # NoDraft => draft.compiled # 0
    /\ pc = "store" => draft # NoDraft
    /\ \A p \in Programs : status[p] = None => compiled[p] = 0 /\ refusedFirst[p] = 0
    /\ pc \in {"mismatch", "append"} /\ attempt # 0 =>
           /\ status[Episode] = None <=> draft = NoDraft
           /\ draft # NoDraft => Filed
           /\ refusedFirst[Episode] # 0 <=> firstRefused = 1 /\ compiled[Episode] = 2

(* Storing a program: the one step that writes what it came from.           *)
LEMMA StoreProvenance == IInv /\ Provenance /\ Store => Provenance'
<1>. SUFFICES ASSUME IInv, Provenance, Store  PROVE Provenance'
  OBVIOUS
<1>1. /\ pc = "store" /\ Episode \in Programs /\ Episode' = Episode
      /\ draft \in [compiled : 0 .. 2, variant : Variants \cup {None}]
      /\ firstRefused \in 0 .. 2 /\ (firstRefused = 2 => draft.compiled = 2)
  BY RunnerAssumption DEF Store, Stored, ledger, IInv, TypeOK, Stage, Compiling, Episode, Programs
<1>2. /\ status' = [status EXCEPT ![Episode] = StatusOf(verdict)]
      /\ variant' = [variant EXCEPT ![Episode] = draft.variant]
      /\ compiled' = [compiled EXCEPT ![Episode] = draft.compiled]
      /\ refusedFirst' = [refusedFirst EXCEPT ![Episode] = IF Revised THEN firstRefused ELSE 0]
      /\ pc' = "mismatch" /\ draft' = draft /\ firstRefused' = firstRefused
  BY DEF Store, Stored, compile
<1>3. \A p \in Programs \ {Episode} : /\ status'[p] = status[p] /\ compiled'[p] = compiled[p]
                                      /\ refusedFirst'[p] = refusedFirst[p]
  BY <1>2 DEF IInv, TypeOK
<1>4. /\ status'[Episode] = StatusOf(verdict) /\ variant'[Episode] = draft.variant
      /\ compiled'[Episode] = draft.compiled
      /\ refusedFirst'[Episode] = IF Revised THEN firstRefused ELSE 0
  BY <1>1, <1>2 DEF IInv, TypeOK
<1>5. status'[Episode] # None /\ draft # NoDraft /\ draft.compiled # 0
  BY <1>1, <1>4 DEF Provenance, StatusOf, None
<1>6. refusedFirst'[Episode] # 0 <=> firstRefused = 1 /\ draft.compiled = 2
  BY <1>1, <1>4, <1>5 DEF Revised
<1>. QED  BY <1>1, <1>2, <1>3, <1>4, <1>5, <1>6 DEF Provenance, Filed

(* Every other step leaves it, or starts the next episode's.                *)
LEMMA ProvenanceStep == IInv /\ Provenance /\ [Next]_vars => Provenance'
<1>. SUFFICES ASSUME IInv, Provenance, [Next]_vars  PROVE Provenance'
  OBVIOUS
<1>n. NoDraft.compiled = 0
  BY DEF NoDraft
<1>1. ASSUME NEW how \in ReplayResults, Replay(how)  PROVE Provenance'
  <2>1. fired \in Programs /\ status[fired] = "admitted" /\ attempt = 0
    BY <1>1 DEF Replay, IInv, TypeOK, Shelf, Compiling
  <2>2. \A p \in Programs : status'[p] = None => status[p] = None
    BY <1>1, <2>1 DEF Replay, IInv, TypeOK, None
  <2>3. /\ pc' \in {"grade", "solve"}
        /\ UNCHANGED <<draft, compiled, refusedFirst>>
    BY <1>1 DEF Replay, compile
  <2>. QED  BY <2>2, <2>3 DEF Provenance
<1>2. ASSUME NEW unparsed \in BOOLEAN, CompileFails(unparsed)  PROVE Provenance'
  <2>1. /\ pc = "compile" /\ Episode' = Episode
        /\ UNCHANGED <<draft, status, variant, compiled, refusedFirst, firstRefused>>
        /\ pc' = "store" => draft # NoDraft
        /\ pc' # "append" /\ (pc' = "mismatch" => draft = NoDraft)
    BY <1>2 DEF CompileFails, library, ledger, Episode
  <2>2. Episode \in Programs /\ status[Episode] = None
    BY <2>1, RunnerAssumption DEF IInv, Shelf, Compiling, Stage, TypeOK, Episode, Programs
  <2>3. compiled[Episode] = 0 /\ refusedFirst[Episode] = 0
    BY <2>2 DEF Provenance
  <2>. QED  BY <2>1, <2>2, <2>3 DEF Provenance
<1>3. ASSUME NEW v \in Variants, NEW admitted \in BOOLEAN, CompileParses(v, admitted)
      PROVE  Provenance'
  <2>1. /\ attempt # 0 /\ draft' = [compiled |-> attempt, variant |-> v]
        /\ pc' \in {"store", "compile"}
        /\ UNCHANGED <<status, compiled, refusedFirst>>
    BY <1>3 DEF CompileParses, library, IInv, Compiling
  <2>2. draft'.compiled # 0
    BY <2>1
  <2>. QED  BY <1>n, <2>1, <2>2 DEF Provenance
<1>4. CASE RecordMismatch
  <2>1. /\ pc = "mismatch" /\ pc' = "append" /\ Episode' = Episode
        /\ UNCHANGED <<draft, variant, compiled, refusedFirst, firstRefused, attempt>>
    BY <1>4 DEF RecordMismatch, ledger, compile, Episode
  <2>2. \A p \in Programs : status'[p] = None <=> status[p] = None
    <3>1. CASE UNCHANGED status
      BY <3>1
    <3>2. CASE /\ Mismatched
               /\ status' = [status EXCEPT ![result.program_id] = "quarantined"]
      <4>1. result.program_id = fired /\ fired # NoProgram
        BY <3>2 DEF Mismatched, IInv, Row
      <4>2. status[fired] \in {"admitted", "demoted"}
        BY <2>1, <4>1 DEF IInv, Shelf, AfterReplay
      <4>. QED  BY <3>2, <4>1, <4>2 DEF IInv, TypeOK, None
    <3>. QED  BY <1>4, <3>1, <3>2 DEF RecordMismatch
  <2>3. Episode \in Programs
    BY <2>1, RunnerAssumption DEF IInv, Stage, TypeOK, Episode, Programs
  <2>. QED  BY <2>1, <2>2, <2>3 DEF Provenance, Filed
<1>5. CASE AppendRow
  BY <1>5 DEF AppendRow, library, Provenance
<1>6. CASE Grade
  <2>1. /\ UNCHANGED <<draft, status, compiled, refusedFirst>>
        /\ pc' \in {"append", "compile", "mismatch"}
        /\ pc' # "compile" => attempt' = 0
    BY <1>6 DEF Grade, library
  <2>. QED  BY <2>1 DEF Provenance
<1>7. CASE UNCHANGED vars
  BY <1>7 DEF vars, library, ledger, compile, Provenance, Filed, Episode
<1>8. ASSUME \/ \E s \in Situations : Begin(s)
             \/ BuildRaises \/ NoGold \/ AuthRejected \/ GradeRaises
             \/ \E p \in Programs \cup {NoProgram} : Dispatch(p)
             \/ \E how \in ReplayResults : ReplayGold(how)
             \/ \E solved \in BOOLEAN : Solve(solved)
      PROVE  Provenance'
  <2>1. /\ pc' # "store" /\ pc' # "mismatch" /\ (pc' = "append" => attempt' = 0)
        /\ UNCHANGED <<draft, status, compiled, refusedFirst>>
    BY <1>8 DEF Begin, BuildRaises, NoGold, AuthRejected, GradeRaises, Dispatch, ReplayGold,
                Solve, library, compile, IInv, Compiling
  <2>. QED  BY <2>1 DEF Provenance
<1>. QED  BY <1>1, <1>2, <1>3, <1>4, <1>5, <1>6, <1>7, <1>8, StoreProvenance
          DEF Next, Arm, Learn

LEMMA ProvenanceHolds == Spec => []Provenance
<1>1. Init => Provenance
  BY DEF Init, Provenance
<1>. QED  BY <1>1, ProvenanceStep, Invariant, PTL DEF Spec

(* Row and library tell one story of the compiles: the reason on the row is  *)
(* there exactly when the program is not admitted, the stored program is the *)
(* last that parsed, and a revision is recorded exactly when it replaced a   *)
(* refused first compile (run.py _learn_from_solution).                      *)
THEOREM VerdictOnRowHolds == Spec => []VerdictOnRow
<1>1. IInv /\ Provenance => VerdictOnRow
  BY DEF IInv, TypeOK, Row, Provenance, Filed, VerdictOnRow
<1>. QED  BY <1>1, Invariant, ProvenanceHolds, PTL

(* A guard refusal or a timeout leaves the program dispatchable              *)
(* (run.py _is_genuine_miss, _record_mismatch).                              *)
THEOREM MishapsSpareTheProgramHolds == Spec => []MishapsSpareTheProgram
<1>1. IInv => MishapsSpareTheProgram
  BY DEF IInv, Spared, Mishaps, MishapsSpareTheProgram
<1>. QED  BY <1>1, Invariant, PTL

(* _record_mismatch, "nothing is counted when the body did not run to        *)
(* completion": so it is where a guard refused the body or it timed out.     *)
(* OnlyFinishedBodiesCount says it of a body that cannot be bound as well,   *)
(* and there it fails.                                                       *)
MishapsCountNothing ==
    pc = "append" /\ ~frozen /\ fired # NoProgram /\ replayed \in Mishaps
        => mismatches[fired] = misfires[fired]

THEOREM MishapsCountNothingHolds == Spec => []MishapsCountNothing
<1>1. IInv => MishapsCountNothing
  <2>. SUFFICES ASSUME IInv, pc = "append", ~frozen, fired # NoProgram, replayed \in Mishaps
                PROVE  mismatches[fired] = misfires[fired]
    BY DEF MishapsCountNothing
  <2>1. fired \in Programs /\ misfires[fired] \in Nat
    BY DEF IInv, TypeOK, NoProgram
  <2>2. result.fired_variant # None => result.timed_out
    BY DEF IInv, Spared
  <2>3. Owed(fired) = 0
    BY <2>2 DEF Owed, RowMisfired
  <2>. QED  BY <2>1, <2>3 DEF IInv, Counts
<1>. QED  BY <1>1, Invariant, PTL

-----------------------------------------------------------------------------
(* A run is a history of the dispatch pool.                                 *)

(* One program's status moves on, the others stay.                          *)
LEMMA MoveIsPoolStep ==
    ASSUME IInv, NEW p \in Programs, NEW st \in Status,
           status' = [status EXCEPT ![p] = st],
           \/ status[p] = None
           \/ status[p] \in {"candidate", "admitted"} /\ st \in {"demoted", "quarantined"}
           \/ status[p] = "demoted" /\ st = "quarantined"
    PROVE  [Pool!Next]_poolPhase
<1>. DEFINE ph == poolPhase
<1>0. status[p] \in Status \cup {None} /\ status'[p] = st
  BY DEF IInv, TypeOK
<1>1. \A q \in Programs \ {p} : ph'[q] = ph[q]
  BY DEF poolPhase, Phase, IInv, TypeOK
<1>2. ph' = [ph EXCEPT ![p] = ph'[p]]
  <2>1. ph' = [q \in Programs |-> Phase(status'[q])] /\ ph = [q \in Programs |-> Phase(status[q])]
    BY DEF poolPhase, Phase
  <2>. HIDE DEF ph
  <2>2. ph' = [q \in Programs |-> ph'[q]] /\ DOMAIN ph = Programs
    BY <2>1
  <2>. QED  BY <1>1, <2>2
<1>3. \/ ph[p] = "absent" /\ ph'[p] \in {"waiting", "dispatchable", "withdrawn"}
      \/ ph[p] \in {"waiting", "dispatchable"} /\ ph'[p] = "withdrawn"
      \/ ph[p] = ph'[p]
  BY <1>0 DEF Phase, Status, None, poolPhase
<1>. HIDE DEF ph
<1>4. CASE ph[p] = "absent" /\ ph'[p] \in {"waiting", "dispatchable", "withdrawn"}
  BY <1>2, <1>4 DEF Pool!Next, Pool!Appear, Pool!Phases, ph
<1>5. CASE ph[p] \in {"waiting", "dispatchable"} /\ ph'[p] = "withdrawn"
  BY <1>2, <1>5 DEF Pool!Next, Pool!Withdraw, ph
<1>6. CASE ph[p] = ph'[p]
  BY <1>1, <1>6 DEF ph, poolPhase
<1>. QED  BY <1>3, <1>4, <1>5, <1>6

(* Through a run a program becomes dispatchable at most once, and once       *)
(* demoted or withdrawn never again: every step is one of DispatchPool's.    *)
THEOREM StepsInThePoolHolds == Spec => StepsInThePool
<1>1. IInv /\ [Next]_vars => [Pool!Next]_poolPhase
  <2>. SUFFICES ASSUME IInv, [Next]_vars  PROVE [Pool!Next]_poolPhase
    OBVIOUS
  <2>1. ASSUME NEW how \in ReplayResults, Replay(how)  PROVE [Pool!Next]_poolPhase
    <3>1. fired \in Programs /\ status[fired] = "admitted"
      BY <2>1 DEF Replay, IInv, TypeOK, Shelf
    <3>2. CASE status' = [status EXCEPT ![fired] = "demoted"]
      <4>1. "demoted" \in Status
        BY DEF Status
      <4>. QED  BY <3>1, <3>2, <4>1, MoveIsPoolStep
    <3>3. CASE status' = status
      BY <3>3 DEF poolPhase, Phase
    <3>. QED  BY <2>1, <3>2, <3>3 DEF Replay
  <2>2. CASE Store
    <3>1. Episode \in Programs /\ status[Episode] = None
      BY <2>2, RunnerAssumption
      DEF Store, Stored, IInv, TypeOK, Stage, Compiling, Shelf, Episode, Programs
    <3>2. status' = [status EXCEPT ![Episode] = StatusOf(verdict)] /\ StatusOf(verdict) \in Status
      BY <2>2 DEF Store, Stored, StatusOf, Status
    <3>. QED  BY <3>1, <3>2, MoveIsPoolStep
  <2>3. CASE RecordMismatch
    <3>. DEFINE p == result.program_id
    <3>1. CASE status' = status
      BY <3>1 DEF poolPhase, Phase
    <3>2. CASE Mismatched /\ status' = [status EXCEPT ![p] = "quarantined"]
      <4>1. p = fired /\ p # NoProgram
        BY <3>2 DEF Mismatched, Row, IInv
      <4>2. p \in Programs /\ status[p] \in {"admitted", "demoted"}
        BY <4>1, <2>3 DEF RecordMismatch, IInv, TypeOK, Shelf, AfterReplay
      <4>3. "quarantined" \in Status
        BY DEF Status
      <4>. HIDE DEF p
      <4>. QED  BY <3>2, <4>2, <4>3, MoveIsPoolStep
    <3>. QED  BY <2>3, <3>1, <3>2 DEF RecordMismatch
  <2>4. CASE UNCHANGED status
    BY <2>4 DEF poolPhase, Phase
  <2>. QED  BY <2>1, <2>2, <2>3, <2>4
            DEF Next, Begin, Arm, BuildRaises, Dispatch, ReplayGold, NoGold, Solve, AuthRejected,
                GradeRaises, Grade, Learn, CompileFails, CompileParses, AppendRow, vars, library
<1>. QED  BY <1>1, Invariant, PTL DEF Spec, StepsInThePool

=============================================================================
