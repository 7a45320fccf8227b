--------------------------- MODULE Learning_proofs ---------------------------
(***************************************************************************)
(* Theorems about Learning, for any sessions beside each other, any        *)
(* budgets, any programs over the gold preconditions, any of the families' *)
(* faults and any seeds: what the agent loop sends its provider and        *)
(* spends, what a passed solve leaves of the user's work, what the gate    *)
(* admits and shows a revision, what an admitted program leaves where it   *)
(* fires, and what learners do to their library.                           *)
(***************************************************************************)
EXTENDS Learning, Resolutions_proofs, SequenceTheorems, FiniteSetTheorems, WellFoundedInduction,
        TLAPS

-----------------------------------------------------------------------------
(* The inductive invariant of a solve, over what a session's loop holds.    *)

Roles == {"system", "user", "assistant", "tool", "error"}

Entries ==
    [role : Roles, calls : Nat,
     marks : SUBSET {"nudge", "last_word", "done", "not_run", "provider", "spent"}]

Loops ==
    [pc : {"off", "turn", "ask", "calls", "returned", "raised", "done"},
     step : 0 .. MaxSteps, executed : 0 .. MaxToolCalls, nudged : BOOLEAN,
     spent : {"none", "steps", "calls"}, batch : Seq({"tool", "finish"}),
     transcript : Seq(Entries), tries : Nat, calls : Nat,
     outcome : {"none", "success", "fail"}]

(* How many completions may have been counted, by the turn and its tries.   *)
Counts(l) ==
    /\ l.pc \in {"off", "turn"} =>
           l.spent = "none" /\ l.tries = 0 /\ l.calls <= 3 * l.step
    /\ l.pc = "ask" =>
           /\ l.tries < 3
           /\ l.spent = "none" => l.step < MaxSteps /\ l.calls <= 3 * l.step + l.tries
           /\ l.calls <= 3 * MaxSteps + l.tries
    /\ l.pc = "calls" =>
           l.spent = "none" /\ l.tries = 0 /\ l.step < MaxSteps /\ l.calls <= 3 * (l.step + 1)
    /\ l.calls <= 3 * (MaxSteps + 1)

(* One reminder, one word that a budget is out, and no command after it.    *)
Reminded(t, nudged, spent) ==
    /\ \A i, j \in MarkedAt(t, "nudge") : i = j
    /\ ~nudged => MarkedAt(t, "nudge") = {}
    /\ \A i, j \in MarkedAt(t, "last_word") : i = j
    /\ spent = "none" => MarkedAt(t, "last_word") = {}
    /\ \A i \in MarkedAt(t, "last_word") : \A j \in DOMAIN t : j > i => t[j].role # "tool"

(* Only the opening is the system's, and nothing is marked as an error.     *)
Clear(t) ==
    /\ Len(t) >= 1 /\ t[1].role = "system"
    /\ \A i \in 2 .. Len(t) : t[i].role \notin {"system", "error"}

(* What follows a turn that carries calls are their answers, all but the    *)
(* last `open` of which are there.                                          *)
Answered(t, open) ==
    \A i \in 1 .. Len(t) :
        /\ i + t[i].calls <= Len(t) + open
        /\ \A k \in 1 .. t[i].calls : i + k <= Len(t) => t[i + k].role = "tool"

LoopInv(l) ==
    /\ Counts(l)
    /\ Reminded(l.transcript, l.nudged, l.spent)
    /\ ExecutedToolCalls(l.transcript) <= l.executed
    /\ l.pc \in {"off", "turn", "ask", "calls"} => Clear(l.transcript)
    /\ l.pc \in {"off", "turn", "ask"} => Answered(l.transcript, 0)
    /\ l.pc = "calls" => Answered(l.transcript, Len(l.batch))

LoopsInv == loop \in [Sessions -> Loops] /\ \A s \in Sessions : LoopInv(loop[s])

-----------------------------------------------------------------------------
(* The inductive invariant of what comes of a solve.                        *)

Runs ==
    [phase : Ended \cup {"idle", "solve", "compile", "here", "gate", "add", "mkdir", "write",
                         "status"},
     task : Injected \cup {NoTask}, graded : BOOLEAN, text : Texts \cup {NoText},
     attempt : 0 .. COMPILE_ATTEMPTS, told : SUBSET Boxes, name : 1 .. Names]

(* Of a session: what its task and its program are once it has them, which  *)
(* phases are a learner's, what a revision was shown, what the gate said.   *)
RunInv(s, r) ==
    /\ r.phase \in {"idle", "absent", "solve"} => r.text = NoText
    /\ r.phase \in {"solve", "compile", "here", "gate"} => r.task \in Injected
    /\ r.phase \in {"here", "gate"} => r.text \in Texts /\ r.text.fault = r.task.fault
    /\ r.phase \in {"here", "add", "mkdir", "write", "status"} => s \in Learners
    /\ r.phase = "compile" /\ r.text # NoText =>
           /\ s \in Accounted
           /\ r.text \in Texts /\ r.text.fault \in Faults
           /\ r.told = ShownToRevision[r.text][r.task.seed]
    /\ r.phase \in {"add", "mkdir", "write", "status", "admitted"} =>
           /\ r.text \in Texts /\ r.text.fault \in Faults
           /\ \E seed \in Seeds : GateVerdict[r.text][seed] = "admitted"

RunsInv == run \in [Sessions -> Runs] /\ \A s \in Sessions : RunInv(s, run[s])

(* A learner that has made its directory is alone with its name.            *)
Holds(s) == run[s].phase \in {"write", "status", "admitted"}

StoreInv ==
    /\ dirs \subseteq 1 .. Names
    /\ stored \in [1 .. Names -> [text : Texts \cup {NoText}, status : {None, "candidate", "admitted"}]]
    /\ \A s \in Learners : Holds(s) => run[s].name \in dirs
    /\ \A s, other \in Learners :
           Holds(s) /\ Holds(other) /\ run[s].name = run[other].name => s = other
    /\ \A s \in Learners :
           /\ Phase(s, "status") =>
                  stored[run[s].name] = [text |-> run[s].text, status |-> "candidate"]
           /\ Phase(s, "admitted") =>
                  stored[run[s].name] = [text |-> run[s].text, status |-> "admitted"]

-----------------------------------------------------------------------------
(* The gate.                                                                *)

LEMMA BoxesAre ==
    /\ Clean \notin Injected /\ \A b \in Refusals : b \notin Injected /\ b # Clean
    /\ \A b \in Injected : b.fault \in Faults /\ b.seed \in Seeds
<1>1. 0 \notin Faults /\ -1 \notin Faults
  BY AdmissionAssumption
<1>. QED  BY <1>1 DEF Clean, Injected, Refusals, Real

(* A pass that met no error has met its whole class.                        *)
LEMMA MetAll == ASSUME NEW p, NEW class, ~Error(p, class) PROVE Met(p, class) = class
  BY DEF Met, Error

(* The states the gate samples are the clean one, the other families', the  *)
(* siblings and the family's own.                                           *)
LEMMA ClassesAre ==
    ASSUME NEW p, NEW f \in Faults
    PROVE  /\ SampledStates = {Clean} \cup Unrelated(f) \cup Siblings(p, f) \cup OwnStates(p, f)
           /\ \A b \in Unrelated(f) \cup Siblings(p, f) : b \in Injected /\ b \notin OwnStates(p, f)
  BY DEF SampledStates, Unrelated, Siblings, OwnStates

(* What the gate's verdict stands for, in either direction a caller uses.   *)
LEMMA VerdictAdmitted ==
    ASSUME NEW p, NEW f, NEW seed, Verdict(p, f, seed, TRUE) = "admitted"
    PROVE  /\ Clean \notin p.holds /\ Refusals \cap p.holds = {}
           /\ ~Error(p, Unrelated(f)) /\ ~Error(p, Siblings(p, f))
           /\ WrongFires(p, f) = {}
  BY DEF Verdict

LEMMA VerdictWrong ==
    ASSUME NEW p, NEW f, NEW seed, Verdict(p, f, seed, TRUE) = "wrong"
    PROVE  /\ Clean \notin p.holds
           /\ ~Error(p, Unrelated(f)) /\ ~Error(p, Siblings(p, f))
           /\ Shown(p, f, seed) = WrongFires(p, f)
  BY DEF Verdict, Shown, FiredOn

(* compile.py's admit: a program it admits, at whichever seed, fires over   *)
(* everything the gate samples only where its resolution is right.          *)
LEMMA AdmittedFiresSoundly ==
    ASSUME NEW p, NEW f \in Faults, NEW seed, Verdict(p, f, seed, TRUE) = "admitted"
    PROVE  FiresSoundly(p, f)
<1>. SUFFICES ASSUME NEW b \in SampledStates \cup Refusals, b \in p.holds  PROVE SoundAt(p, f, b)
  BY DEF FiresSoundly
<1>1. /\ b # Clean /\ b \notin Refusals
      /\ Met(p, Unrelated(f)) = Unrelated(f) /\ Met(p, Siblings(p, f)) = Siblings(p, f)
  BY VerdictAdmitted, MetAll
<1>2. b \in Unrelated(f) \cup Siblings(p, f) \/ b \in OwnStates(p, f)
  BY <1>1, ClassesAre
<1>3. CASE b \in Unrelated(f) \cup Siblings(p, f)
  <2>1. Right(p, f, b)
    BY <1>1, <1>3, VerdictAdmitted DEF WrongFires, FiresWrongly
  <2>. QED  BY <1>3, <2>1, ClassesAre DEF SoundAt
<1>. QED  BY <1>2, <1>3 DEF SoundAt

(* A program refused for firing wrongly is refused with every sampled state *)
(* it fires wrongly in.                                                     *)
LEMMA WrongIsAllWrong ==
    ASSUME NEW p, NEW f \in Faults, NEW seed, Verdict(p, f, seed, TRUE) = "wrong"
    PROVE  Shown(p, f, seed) = {b \in SampledStates \cap p.holds : ~SoundAt(p, f, b)}
<1>1. /\ Clean \notin p.holds /\ Shown(p, f, seed) = WrongFires(p, f)
      /\ Met(p, Unrelated(f)) = Unrelated(f) /\ Met(p, Siblings(p, f)) = Siblings(p, f)
  BY VerdictWrong, MetAll
<1>2. WrongFires(p, f) =
          {b \in Unrelated(f) \cup Siblings(p, f) : b \in p.holds /\ ~Right(p, f, b)}
  BY <1>1 DEF WrongFires, FiresWrongly
<1>3. \A b \in Unrelated(f) \cup Siblings(p, f) : Right(p, f, b) <=> SoundAt(p, f, b)
  BY ClassesAre DEF SoundAt
<1>4. \A b \in OwnStates(p, f) : SoundAt(p, f, b)
  BY DEF SoundAt
<1>. QED  BY <1>1, <1>2, <1>3, <1>4, ClassesAre

(* What a revision is shown are states the gate builds.                     *)
LEMMA ShownAreBoxes ==
    ASSUME NEW p, NEW f, NEW seed  PROVE Shown(p, f, seed) \subseteq Boxes
<1>1. Unrelated(f) \subseteq Boxes /\ Siblings(p, f) \subseteq Boxes
  BY DEF Unrelated, Siblings, Boxes
<1>2. FiredOn(p, f, seed) \subseteq Boxes
  BY <1>1 DEF FiredOn, WrongFires, FiresWrongly, Met, Boxes
<1>. QED  BY <1>2 DEF Shown, Boxes

(* A non-empty set of naturals has a least element.                         *)
LEMMA Least == ASSUME NEW T, T \subseteq Nat, T # {} PROVE \E x \in T : \A y \in T : x <= y
<1>. DEFINE Less == OpToRel(<, Nat)
<1>1. IsWellFoundedOn(Less, Nat)
  BY NatLessThanWellFounded
<1>2. \A x, y \in Nat : y < x => <<y, x>> \in Less
  BY DEF OpToRel
<1>. HIDE DEF Less
<1>3. PICK x \in T : \A y \in T : ~(<<y, x>> \in Less)
  BY <1>1, WFMin
<1>4. x \in Nat /\ \A y \in T : y \in Nat
  OBVIOUS
<1>5. \A y \in T : ~(y < x)
  BY <1>2, <1>3, <1>4, Zenon
<1>6. \A y \in T : x <= y
  BY <1>4, <1>5
<1>. QED  BY <1>6

(* admission_seed finds the first seed of a program's resolution.           *)
LEMMA AdmissionSeedIs == ASSUME NEW t, SeedsOf(t) # {} PROVE AdmissionSeed(t) \in Seeds
<1>1. SeedsOf(t) \subseteq Nat /\ SeedsOf(t) \subseteq Seeds
  BY AdmissionAssumption DEF SeedsOf
<1>2. \E seed \in SeedsOf(t) : \A other \in SeedsOf(t) : seed <= other
  BY <1>1, Least
<1>3. AdmissionSeed(t) \in SeedsOf(t)
  BY <1>2 DEF AdmissionSeed
<1>. QED  BY <1>1, <1>3

-----------------------------------------------------------------------------
(* What comes of a solve, step by step.                                     *)

LEMMA NamesAre == Names \in Nat /\ 1 \in 1 .. Names
<1>1. IsFiniteSet(Sessions \ Accounted)
  BY LearningAssumption, FS_Difference
<1>2. Cardinality(Sessions \ Accounted) \in Nat
  BY <1>1, FS_CardinalityType
<1>. QED  BY <1>2, LearningAssumption

LEMMA InitRuns == Init => RunsInv /\ StoreInv
<1>. SUFFICES ASSUME Init  PROVE RunsInv /\ StoreInv
  OBVIOUS
<1>1. PICK active \in Groups :
          run = [s \in Sessions |-> IF s \in active THEN Idle ELSE [Idle EXCEPT !.phase = "absent"]]
  BY DEF Init
<1>2. Idle \in Runs /\ [Idle EXCEPT !.phase = "absent"] \in Runs
  <2>1. 1 \in 1 .. Names /\ 0 \in 0 .. COMPILE_ATTEMPTS
    BY NamesAre DEF COMPILE_ATTEMPTS
  <2>2. Idle \in Runs
    BY <2>1 DEF Idle, Runs
  <2>. QED  BY <2>2 DEF Runs, Ended
<1>3. ASSUME NEW s \in Sessions
      PROVE  run[s] \in Runs /\ run[s].phase \in {"idle", "absent"} /\ run[s].text = NoText
  BY <1>1, <1>2 DEF Idle
<1>4. RunsInv
  BY <1>1, <1>3 DEF RunsInv, RunInv
<1>5. dirs = {} /\ stored = [n \in 1 .. Names |-> NotStored]
  BY DEF Init
<1>6. NotStored \in [text : Texts \cup {NoText}, status : {None, "candidate", "admitted"}]
  BY DEF NotStored
<1>7. StoreInv
  BY <1>3, <1>5, <1>6 DEF StoreInv, Holds, Phase, Learners
<1>. QED  BY <1>4, <1>7

(* A step of one session, that leaves its record in order.                  *)
OwnRun(s) ==
    /\ run' = [run EXCEPT ![s] = run'[s]]
    /\ run'[s] \in Runs
    /\ RunInv(s, run'[s])

LEMMA RunsStep == ASSUME RunsInv, NEW s \in Sessions, OwnRun(s)  PROVE RunsInv'
  BY DEF RunsInv, OwnRun

(* The library stands while no learner gets to hold a name.                 *)
LEMMA StoreStays ==
    ASSUME RunsInv, StoreInv, NEW s \in Sessions, OwnRun(s), UNCHANGED <<dirs, stored>>,
           s \in Learners => run'[s].phase \notin {"write", "status", "admitted"}
    PROVE  StoreInv'
<1>1. \A other \in Learners \ {s} : run'[other] = run[other]
  BY DEF OwnRun, RunsInv, Learners
<1>2. \A other \in Learners : Holds(other)' => other # s /\ Holds(other)
  BY <1>1 DEF Holds
<1>3. \A other \in Learners : (Phase(other, "status") \/ Phase(other, "admitted"))' => other # s
  BY DEF Phase
<1>. QED  BY <1>1, <1>2, <1>3 DEF StoreInv, Phase

(* The steps up to a compile, and those of a solve that failed.             *)
LEMMA SolvingSteps ==
    ASSUME RunsInv, NEW s \in Sessions,
           \/ \E b \in Injected : Open(s, b)
           \/ ToolCall(s) \/ SolveRaised(s) \/ GradeSolve(s)
           \/ \E confirmed \in BOOLEAN : Confirm(s, confirmed)
           \/ \E phase \in {"compile", "failed", "stopped"} : SolveInOneStep(s, phase)
    PROVE  /\ OwnRun(s) /\ UNCHANGED <<dirs, stored>>
           /\ run'[s].phase \notin {"write", "status", "admitted"}
<1>. DEFINE r == run[s]
<1>0. run \in [Sessions -> Runs] /\ r \in Runs /\ RunInv(s, r)
  BY DEF RunsInv
<1>. 1 \in 0 .. COMPILE_ATTEMPTS
  BY DEF COMPILE_ATTEMPTS
<1>1. ASSUME NEW b \in Injected, Open(s, b)
      PROVE  /\ OwnRun(s) /\ UNCHANGED <<dirs, stored>> /\ run'[s].phase = "solve"
  BY <1>0, <1>1 DEF Open, Phase, OwnRun, Runs, RunInv
<1>2. CASE ToolCall(s)
  BY <1>0, <1>2 DEF ToolCall, Phase, OwnRun, Runs, RunInv
<1>3. CASE SolveRaised(s)
  BY <1>0, <1>3 DEF SolveRaised, Goes, Phase, OwnRun, Runs, RunInv, Ended
<1>4. CASE GradeSolve(s)
  <2>1. Graded(r.task.fault, r.task.seed, clone[s]) \in BOOLEAN
    BY DEF Graded
  <2>2. PICK graded \in BOOLEAN, phase \in {"compile", "failed"} :
            run' = [run EXCEPT ![s].phase = phase, ![s].graded = graded, ![s].attempt = 1]
    BY <1>4, <2>1 DEF GradeSolve
  <2>3. r.phase = "solve" /\ UNCHANGED <<dirs, stored>>
    BY <1>4 DEF GradeSolve, Phase
  <2>. QED  BY <1>0, <2>2, <2>3 DEF OwnRun, Runs, RunInv, Ended
<1>5. ASSUME NEW confirmed \in BOOLEAN, Confirm(s, confirmed)
      PROVE  /\ OwnRun(s) /\ UNCHANGED <<dirs, stored>> /\ run'[s].phase \in {"compile", "failed"}
  <2>1. PICK phase \in {"compile", "failed"} :
            run' = [run EXCEPT ![s].phase = phase, ![s].attempt = 1]
    BY <1>5 DEF Confirm
  <2>2. r.phase = "solve" /\ UNCHANGED <<dirs, stored>>
    BY <1>5 DEF Confirm, Phase
  <2>. QED  BY <1>0, <2>1, <2>2 DEF OwnRun, Runs, RunInv, Ended
<1>6. ASSUME NEW phase \in {"compile", "failed", "stopped"}, SolveInOneStep(s, phase)
      PROVE  /\ OwnRun(s) /\ UNCHANGED <<dirs, stored>> /\ run'[s].phase = phase
  BY <1>0, <1>6 DEF SolveInOneStep, Phase, OwnRun, Runs, RunInv, Ended
<1>. QED  BY <1>1, <1>2, <1>3, <1>4, <1>5, <1>6

(* A compile's reply, or its failure.                                       *)
LEMMA CompilingSteps ==
    ASSUME RunsInv, NEW s \in Sessions,
           \/ \E t \in Texts : Compile(s, t)
           \/ Unparsed(s)
           \/ \E rejected \in BOOLEAN : CompileRaises(s, rejected)
    PROVE  /\ OwnRun(s) /\ UNCHANGED <<dirs, stored>>
           /\ run'[s].phase \notin {"write", "status", "admitted"}
<1>. DEFINE r == run[s]
<1>0. /\ run \in [Sessions -> Runs] /\ r \in Runs /\ RunInv(s, r)
      /\ r.phase = "compile" /\ r.task \in Injected
      /\ UNCHANGED <<dirs, stored>>
  BY DEF RunsInv, RunInv, Compile, Unparsed, CompileRaises, Phase, UnchangedButRun
<1>1. ASSUME NEW t \in Texts, Compile(s, t)
      PROVE  OwnRun(s) /\ run'[s].phase \in {"gate", "here"}
  BY <1>0, <1>1 DEF Compile, OwnRun, Runs, RunInv, Learners
<1>2. CASE Unparsed(s)
  <2>1. CASE r.attempt < Attempts(s)
    <3>1. run' = [run EXCEPT ![s].attempt = @ + 1] /\ r.attempt + 1 \in 0 .. COMPILE_ATTEMPTS
      BY <1>0, <1>2, <2>1 DEF Unparsed, Attempts, COMPILE_ATTEMPTS, Runs
    <3>. QED  BY <1>0, <3>1 DEF OwnRun, Runs, RunInv
  <2>2. CASE ~(r.attempt < Attempts(s))
    BY <1>0, <1>2, <2>2 DEF Unparsed, OwnRun, Runs, RunInv, Ended
  <2>. QED  BY <2>1, <2>2
<1>3. ASSUME NEW rejected \in BOOLEAN, CompileRaises(s, rejected)
      PROVE  OwnRun(s) /\ run'[s].phase \in {"stopped", "failed", "refused"}
  BY <1>0, <1>3 DEF CompileRaises, Goes, OwnRun, Runs, RunInv, Ended
<1>. QED  BY <1>0, <1>1, <1>2, <1>3

(* The trial where a program was learned, and the gate.                     *)
LEMMA GateSteps ==
    ASSUME RunsInv, NEW s \in Sessions, Here(s) \/ GateLearned(s) \/ GateCompiled(s)
    PROVE  /\ OwnRun(s) /\ UNCHANGED <<dirs, stored>>
           /\ s \in Learners => run'[s].phase \notin {"write", "status", "admitted"}
<1>. DEFINE r == run[s]
            t == r.text
<1>0. /\ run \in [Sessions -> Runs] /\ r \in Runs /\ RunInv(s, r)
      /\ r.phase \in {"here", "gate"} /\ UNCHANGED <<dirs, stored>>
      /\ r.task \in Injected /\ t \in Texts /\ t.fault = r.task.fault
      /\ r.task.seed \in Seeds /\ t.fault \in Faults
  BY BoxesAre DEF RunsInv, RunInv, Here, GateLearned, GateCompiled, Phase, UnchangedButRun
<1>1. CASE Here(s)
  <2>1. r.phase = "here" /\ s \in Learners
    BY <1>0, <1>1 DEF Here, Phase, RunInv
  <2>2. PICK next \in {"gate", "stopped"} : run' = [run EXCEPT ![s].phase = next]
    BY <1>1 DEF Here, Goes
  <2>. QED  BY <1>0, <2>1, <2>2 DEF OwnRun, Runs, RunInv, Ended
<1>2. CASE GateLearned(s)
  <2>1. r.phase = "gate" /\ s \in Learners
    BY <1>2 DEF GateLearned, Phase
  <2>2. CASE SeedsOf(t) # {} /\ GateVerdict[t][AdmissionSeed(t)] = "admitted"
    <3>1. run' = [run EXCEPT ![s].phase = "add"] /\ \E seed \in Seeds : GateVerdict[t][seed] = "admitted"
      BY <1>2, <2>2, AdmissionSeedIs DEF GateLearned, Goes
    <3>. QED  BY <1>0, <2>1, <3>1 DEF OwnRun, Runs, RunInv
  <2>3. CASE ~(SeedsOf(t) # {} /\ GateVerdict[t][AdmissionSeed(t)] = "admitted")
    <3>1. run' = [run EXCEPT ![s].phase = "stopped"]
      BY <1>2, <2>3 DEF GateLearned, Goes
    <3>. QED  BY <1>0, <3>1 DEF OwnRun, Runs, RunInv, Ended
  <2>. QED  BY <2>2, <2>3
<1>3. CASE GateCompiled(s)
  <2>1. r.phase = "gate" /\ s \in Accounted /\ s \notin Learners
    BY <1>3 DEF GateCompiled, Phase, Learners
  <2>2. CASE GateVerdict[t][r.task.seed] = "admitted"
    <3>1. run' = [run EXCEPT ![s].phase = "admitted"]
      BY <1>3, <2>2 DEF GateCompiled
    <3>. QED  BY <1>0, <2>1, <2>2, <3>1 DEF OwnRun, Runs, RunInv, Ended
  <2>3. CASE GateVerdict[t][r.task.seed] # "admitted" /\ r.attempt < COMPILE_ATTEMPTS
    <3>1. run' = [run EXCEPT ![s].phase = "compile", ![s].attempt = @ + 1,
                             ![s].told = ShownToRevision[t][r.task.seed]]
      BY <1>3, <2>3 DEF GateCompiled
    <3>2. ShownToRevision[t][r.task.seed] \subseteq Boxes
      BY <1>0, ShownAreBoxes DEF ShownToRevision
    <3>3. r.attempt + 1 \in 0 .. COMPILE_ATTEMPTS
      BY <1>0, <2>3 DEF Runs, COMPILE_ATTEMPTS
    <3>. QED  BY <1>0, <2>1, <3>1, <3>2, <3>3 DEF OwnRun, Runs, RunInv
  <2>4. CASE GateVerdict[t][r.task.seed] # "admitted" /\ ~(r.attempt < COMPILE_ATTEMPTS)
    <3>1. run' = [run EXCEPT ![s].phase = "refused"]
      BY <1>3, <2>4 DEF GateCompiled
    <3>. QED  BY <1>0, <2>1, <3>1 DEF OwnRun, Runs, RunInv, Ended
  <2>. QED  BY <2>2, <2>3, <2>4
<1>. QED  BY <1>1, <1>2, <1>3

-----------------------------------------------------------------------------
(* The writes that store a program.                                         *)

LEMMA AddCheckStep ==
    ASSUME RunsInv, NEW s \in Sessions, AddCheck(s)
    PROVE  /\ OwnRun(s) /\ UNCHANGED <<dirs, stored>>
           /\ run'[s].phase \notin {"write", "status", "admitted"}
<1>. DEFINE r == run[s]
<1>0. /\ run \in [Sessions -> Runs] /\ r \in Runs /\ RunInv(s, r)
      /\ r.phase = "add" /\ UNCHANGED <<dirs, stored>>
  BY DEF RunsInv, AddCheck, Phase, UnchangedButRun
<1>1. CASE run' = [run EXCEPT ![s].phase = "mkdir"]
  BY <1>0, <1>1 DEF OwnRun, Runs, RunInv
<1>2. CASE r.name < Names /\ run' = [run EXCEPT ![s].name = @ + 1]
  <2>1. r.name + 1 \in 1 .. Names
    BY <1>0, <1>2, NamesAre DEF Runs
  <2>. QED  BY <1>0, <1>2, <2>1 DEF OwnRun, Runs, RunInv
<1>. QED  BY <1>1, <1>2 DEF AddCheck, Goes

LEMMA MakeDirectoryStep ==
    ASSUME RunsInv, StoreInv, NEW s \in Sessions, MakeDirectory(s)
    PROVE  OwnRun(s) /\ StoreInv'
<1>. DEFINE r == run[s]
<1>0. /\ run \in [Sessions -> Runs] /\ r \in Runs /\ RunInv(s, r)
      /\ r.phase = "mkdir" /\ s \in Learners /\ r.name \in 1 .. Names
  BY DEF RunsInv, MakeDirectory, Phase, RunInv, Runs
<1>1. CASE r.name \in dirs
  <2>1. run' = [run EXCEPT ![s].phase = "stopped"] /\ UNCHANGED <<dirs, stored>>
    BY <1>1 DEF MakeDirectory, Goes
  <2>2. OwnRun(s) /\ run'[s].phase = "stopped"
    BY <1>0, <2>1 DEF OwnRun, Runs, RunInv, Ended
  <2>. QED  BY <2>1, <2>2, StoreStays
<1>2. CASE r.name \notin dirs
  <2>1. /\ run' = [run EXCEPT ![s].phase = "write"]
        /\ dirs' = dirs \cup {r.name} /\ stored' = stored
    BY <1>2 DEF MakeDirectory, Goes
  <2>2. OwnRun(s) /\ run'[s].phase = "write" /\ run'[s].name = r.name
    BY <1>0, <2>1 DEF OwnRun, Runs, RunInv
  <2>3. \A other \in Learners \ {s} : run'[other] = run[other]
    BY <1>0, <2>1 DEF Learners
  <2>4. \A other \in Learners \ {s} : Holds(other)' => run'[other].name \in dirs
    BY <2>3 DEF StoreInv, Holds
  <2>5. \A other \in Learners : (Phase(other, "status") \/ Phase(other, "admitted"))' => other # s
    BY <2>2 DEF Phase
  <2>6. (\A one, other \in Learners :
            Holds(one) /\ Holds(other) /\ run[one].name = run[other].name => one = other)'
    BY <1>2, <2>2, <2>3, <2>4 DEF StoreInv, Holds
  <2>7. (\A other \in Learners : Holds(other) => run[other].name \in dirs)'
    BY <2>1, <2>2, <2>4
  <2>8. (\A other \in Learners :
            /\ Phase(other, "status") =>
                   stored[run[other].name] = [text |-> run[other].text, status |-> "candidate"]
            /\ Phase(other, "admitted") =>
                   stored[run[other].name] = [text |-> run[other].text, status |-> "admitted"])'
    BY <2>1, <2>3, <2>5 DEF StoreInv, Phase
  <2>. QED  BY <1>0, <2>1, <2>2, <2>6, <2>7, <2>8 DEF StoreInv
<1>. QED  BY <1>1, <1>2

(* A holder of a name writes what is stored under it, and nobody else does. *)
LEMMA WriteSteps ==
    ASSUME RunsInv, StoreInv, NEW s \in Sessions, WriteProgram(s) \/ SetAdmitted(s)
    PROVE  OwnRun(s) /\ StoreInv'
<1>. DEFINE r == run[s]
            Written == [text : Texts \cup {NoText}, status : {None, "candidate", "admitted"}]
<1>0. /\ run \in [Sessions -> Runs] /\ r \in Runs /\ RunInv(s, r) /\ dirs' = dirs
      /\ r.phase \in {"write", "status"} /\ s \in Learners /\ r.name \in 1 .. Names
      /\ r.text \in Texts /\ stored \in [1 .. Names -> Written]
  BY DEF RunsInv, WriteProgram, SetAdmitted, Phase, RunInv, Runs, StoreInv
<1>1. PICK status \in {"candidate", "admitted"} :
          /\ run' = [run EXCEPT ![s].phase = IF status = "candidate" THEN "status" ELSE "admitted"]
          /\ stored' = [stored EXCEPT ![r.name] = [text |-> r.text, status |-> status]]
  <2>1. CASE WriteProgram(s)
    BY <2>1 DEF WriteProgram, Goes
  <2>2. CASE SetAdmitted(s)
    <3>1. stored[r.name] = [text |-> r.text, status |-> "candidate"]
      BY <1>0, <2>2 DEF SetAdmitted, StoreInv, Phase
    <3>2. /\ stored' = [stored EXCEPT ![r.name].status = "admitted"]
          /\ run' = [run EXCEPT ![s].phase = "admitted"]
      BY <2>2 DEF SetAdmitted, Goes
    <3>3. stored' = [stored EXCEPT ![r.name] = [text |-> r.text, status |-> "admitted"]]
      <4>1. [stored[r.name] EXCEPT !.status = "admitted"] = [text |-> r.text, status |-> "admitted"]
        BY <3>1
      <4>2. stored' = [stored EXCEPT ![r.name] = [stored[r.name] EXCEPT !.status = "admitted"]]
        BY <3>2
      <4>. QED  BY <4>1, <4>2
    <3>. QED  BY <3>2, <3>3
  <2>. QED  BY <2>1, <2>2
<1>2. /\ OwnRun(s) /\ run'[s].phase = (IF status = "candidate" THEN "status" ELSE "admitted")
      /\ run'[s].name = r.name /\ run'[s].text = r.text
  BY <1>0, <1>1 DEF OwnRun, Runs, RunInv, Ended
<1>3. \A other \in Learners \ {s} : run'[other] = run[other]
  BY <1>0, <1>1 DEF Learners
<1>4. /\ stored'[r.name] = [text |-> r.text, status |-> status]
      /\ \A n \in (1 .. Names) \ {r.name} : stored'[n] = stored[n]
      /\ stored' \in [1 .. Names -> Written]
  BY <1>0, <1>1
<1>5. Holds(s) /\ \A other \in Learners : Holds(other)' => Holds(other)
  BY <1>0, <1>3 DEF Holds
<1>6. \A other \in Learners : run'[other].name = run[other].name
  BY <1>2, <1>3
<1>7. \A other \in Learners \ {s} :
          Holds(other) => run[other].name \in (1 .. Names) \ {r.name}
  BY <1>0, <1>5 DEF StoreInv
<1>8. \A other \in Learners \ {s} :
          Holds(other) => stored'[run'[other].name] = stored[run[other].name]
  BY <1>4, <1>6, <1>7
<1>9. (\A other \in Learners :
            /\ Phase(other, "status") =>
                   stored[run[other].name] = [text |-> run[other].text, status |-> "candidate"]
            /\ Phase(other, "admitted") =>
                   stored[run[other].name] = [text |-> run[other].text, status |-> "admitted"])'
  <2>1. ASSUME NEW other \in Learners \ {s}
        PROVE  /\ Phase(other, "status")' =>
                      stored'[run'[other].name] = [text |-> run'[other].text, status |-> "candidate"]
               /\ Phase(other, "admitted")' =>
                      stored'[run'[other].name] = [text |-> run'[other].text, status |-> "admitted"]
    BY <1>3, <1>8 DEF StoreInv, Phase, Holds
  <2>. QED  BY <1>1, <1>2, <1>4, <2>1 DEF Phase
<1>. QED  BY <1>0, <1>2, <1>4, <1>5, <1>6, <1>9 DEF StoreInv

LEMMA CrashStep ==
    ASSUME RunsInv, NEW s \in Sessions, Crash(s)
    PROVE  OwnRun(s) /\ UNCHANGED <<dirs, stored>> /\ run'[s].phase = "dead"
  BY DEF RunsInv, OwnRun, Crash, Goes, UnchangedButRun, Runs, RunInv, Ended

(* Every step keeps both.                                                   *)
LEMMA RunsNext == RunsInv /\ StoreInv /\ [Next]_vars => RunsInv' /\ StoreInv'
<1>. SUFFICES ASSUME RunsInv, StoreInv, [Next]_vars  PROVE RunsInv' /\ StoreInv'
  OBVIOUS
<1>1. ASSUME NEW s \in Sessions, SessionStep(s) \/ Crash(s)  PROVE RunsInv' /\ StoreInv'
  <2>1. CASE Turn(s)
    BY <2>1 DEF Turn, learning, RunsInv, StoreInv, Holds, Phase
  <2>2. CASE MakeDirectory(s) \/ WriteProgram(s) \/ SetAdmitted(s)
    BY <2>2, MakeDirectoryStep, WriteSteps, RunsStep
  <2>3. CASE /\ OwnRun(s) /\ UNCHANGED <<dirs, stored>>
             /\ s \in Learners => run'[s].phase \notin {"write", "status", "admitted"}
    BY <2>3, RunsStep, StoreStays
  <2>4. CASE \/ \E b \in Injected : Open(s, b)
             \/ ToolCall(s) \/ SolveRaised(s) \/ GradeSolve(s)
             \/ \E confirmed \in BOOLEAN : Confirm(s, confirmed)
             \/ \E phase \in {"compile", "failed", "stopped"} : SolveInOneStep(s, phase)
    BY <2>3, <2>4, SolvingSteps
  <2>5. CASE \/ \E t \in Texts : Compile(s, t)
             \/ Unparsed(s)
             \/ \E rejected \in BOOLEAN : CompileRaises(s, rejected)
    BY <2>3, <2>5, CompilingSteps
  <2>6. CASE Here(s) \/ GateLearned(s) \/ GateCompiled(s)
    BY <2>3, <2>6, GateSteps
  <2>7. CASE AddCheck(s)
    BY <2>3, <2>7, AddCheckStep
  <2>8. CASE Crash(s)
    BY <2>3, <2>8, CrashStep
  <2>. QED  BY <1>1, <2>1, <2>2, <2>4, <2>5, <2>6, <2>7, <2>8 DEF SessionStep
<1>2. CASE UNCHANGED vars
  BY <1>2 DEF vars, learning, RunsInv, StoreInv, Holds, Phase
<1>. QED  BY <1>1, <1>2 DEF Next

LEMMA RunsInvariance == Spec => [](RunsInv /\ StoreInv)
  BY InitRuns, RunsNext, PTL DEF Spec

-----------------------------------------------------------------------------
(* Transcripts.                                                             *)

LEMMA AppendIs ==
    ASSUME NEW t \in Seq(Entries), NEW e \in Entries
    PROVE  /\ Append(t, e) \in Seq(Entries) /\ Len(Append(t, e)) = Len(t) + 1 /\ Len(t) \in Nat
           /\ \A i \in 1 .. Len(t) : Append(t, e)[i] = t[i]
           /\ Append(t, e)[Len(t) + 1] = e
           /\ DOMAIN t = 1 .. Len(t) /\ DOMAIN Append(t, e) = 1 .. Len(t) + 1
           /\ \A i \in 1 .. Len(t) + 1 : i \in 1 .. Len(t) \/ i = Len(t) + 1
<1>1. Append(t, e) \in Seq(Entries) /\ Len(Append(t, e)) = Len(t) + 1 /\ Len(t) \in Nat
  OBVIOUS
<1>2. /\ \A i \in 1 .. Len(t) : Append(t, e)[i] = t[i]
      /\ Append(t, e)[Len(t) + 1] = e
  OBVIOUS
<1>3. DOMAIN t = 1 .. Len(t) /\ DOMAIN Append(t, e) = 1 .. Len(t) + 1
  BY <1>1
<1>. QED  BY <1>1, <1>2, <1>3

LEMMA EntryIs ==
    ASSUME NEW role \in Roles, NEW calls \in Nat,
           NEW marks \in SUBSET {"nudge", "last_word", "done", "not_run", "provider", "spent"}
    PROVE  /\ Entry(role, calls, marks) \in Entries
           /\ Entry(role, calls, marks).role = role
           /\ Entry(role, calls, marks).calls = calls
           /\ Entry(role, calls, marks).marks = marks
  BY DEF Entry, Entries

(* `reasons` and the like: one or two entries put behind a transcript.      *)
LEMMA ConcatIs ==
    ASSUME NEW t \in Seq(Entries), NEW e \in Entries, NEW f \in Entries
    PROVE  /\ t \o <<e>> = Append(t, e)
           /\ t \o <<e, f>> = Append(Append(t, e), f)
           /\ t \o (<<e>> \o <<f>>) = Append(Append(t, e), f)
           /\ t \o (<<e>> \o <<>>) = Append(t, e)
<1>1. <<e>> \in Seq(Entries) /\ <<f>> \in Seq(Entries) /\ <<e, f>> \in Seq(Entries)
  OBVIOUS
<1>2. <<e>> \o <<f>> = <<e, f>> /\ <<e>> \o <<>> = <<e>>
  <2>1. <<e>> \o <<>> = <<e>>
    BY <1>1, ConcatEmptySeq
  <2>2. <<e>> \o <<f>> = <<e, f>>
    <3>1. <<e>> \o <<f>> \in Seq(Entries) /\ Len(<<e>> \o <<f>>) = 2 /\ Len(<<e, f>>) = 2
      BY <1>1
    <3>2. (<<e>> \o <<f>>)[1] = e /\ (<<e>> \o <<f>>)[2] = f
      BY <1>1
    <3>3. \A i \in 1 .. 2 : (<<e>> \o <<f>>)[i] = <<e, f>>[i]
      <4>1. \A i \in 1 .. 2 : i = 1 \/ i = 2
        OBVIOUS
      <4>. QED  BY <3>2, <4>1
    <3>. QED  BY <1>1, <3>1, <3>3, SeqEqual
  <2>. QED  BY <2>1, <2>2
<1>3. t \o <<e>> = Append(t, e)
  OBVIOUS
<1>4. t \o <<e, f>> = Append(Append(t, e), f)
  <2>1. /\ t \o <<e, f>> \in Seq(Entries) /\ Append(Append(t, e), f) \in Seq(Entries)
        /\ Len(t \o <<e, f>>) = Len(t) + 2 /\ Len(Append(Append(t, e), f)) = Len(t) + 2
    BY <1>1
  <2>2. \A i \in 1 .. Len(t) + 2 : (t \o <<e, f>>)[i] = Append(Append(t, e), f)[i]
    OBVIOUS
  <2>. QED  BY <2>1, <2>2, SeqEqual
<1>. QED  BY <1>2, <1>3, <1>4

LEMMA MarkedAppend ==
    ASSUME NEW t \in Seq(Entries), NEW e \in Entries, NEW mark
    PROVE  MarkedAt(Append(t, e), mark) =
               IF e.role = "user" /\ mark \in e.marks
               THEN MarkedAt(t, mark) \cup {Len(t) + 1} ELSE MarkedAt(t, mark)
<1>1. /\ DOMAIN Append(t, e) = DOMAIN t \cup {Len(t) + 1}
      /\ \A i \in DOMAIN t : Append(t, e)[i] = t[i]
      /\ Append(t, e)[Len(t) + 1] = e
  BY AppendIs
<1>. QED  BY <1>1 DEF MarkedAt

(* Neither a reminder nor, once the budgets are out, a command.             *)
LEMMA RemindedQuiet ==
    ASSUME NEW t \in Seq(Entries), NEW e \in Entries, NEW nudged, NEW spent,
           Reminded(t, nudged, spent), e.role # "user", e.role = "tool" => spent = "none"
    PROVE  Reminded(Append(t, e), nudged, spent)
<1>1. \A mark : MarkedAt(Append(t, e), mark) = MarkedAt(t, mark)
  BY MarkedAppend
<1>2. \A i \in MarkedAt(t, "last_word") : \A j \in DOMAIN Append(t, e) :
          j > i => Append(t, e)[j].role # "tool"
  BY AppendIs DEF Reminded
<1>. QED  BY <1>1, <1>2 DEF Reminded

LEMMA RemindedNudge ==
    ASSUME NEW t \in Seq(Entries), NEW e \in Entries, Reminded(t, FALSE, "none"),
           e.role = "user", e.marks = {"nudge"}
    PROVE  Reminded(Append(t, e), TRUE, "none")
<1>1. /\ MarkedAt(Append(t, e), "nudge") = {Len(t) + 1}
      /\ MarkedAt(Append(t, e), "last_word") = {}
  BY MarkedAppend DEF Reminded
<1>. QED  BY <1>1 DEF Reminded

LEMMA RemindedLastWord ==
    ASSUME NEW t \in Seq(Entries), NEW e \in Entries, NEW nudged \in BOOLEAN, NEW spent,
           Reminded(t, nudged, "none"), e.role = "user", e.marks = {"last_word"}, spent # "none"
    PROVE  Reminded(Append(t, e), nudged, spent)
<1>1. /\ MarkedAt(Append(t, e), "nudge") = MarkedAt(t, "nudge")
      /\ MarkedAt(Append(t, e), "last_word") = {Len(t) + 1}
  BY MarkedAppend DEF Reminded
<1>2. \A j \in DOMAIN Append(t, e) : ~(j > Len(t) + 1)
  BY AppendIs
<1>. QED  BY <1>1, <1>2 DEF Reminded

LEMMA ExecutedAppend ==
    ASSUME NEW t \in Seq(Entries), NEW e \in Entries
    PROVE  /\ ExecutedToolCalls(t) \in Nat
           /\ ExecutedToolCalls(Append(t, e)) =
                  ExecutedToolCalls(t)
                      + IF e.role = "tool" /\ "not_run" \notin e.marks THEN 1 ELSE 0
<1>. DEFINE Ran(u) == {i \in DOMAIN u : u[i].role = "tool" /\ "not_run" \notin u[i].marks}
<1>1. /\ DOMAIN Append(t, e) = DOMAIN t \cup {Len(t) + 1} /\ Len(t) + 1 \notin DOMAIN t
      /\ \A i \in DOMAIN t : Append(t, e)[i] = t[i]
      /\ Append(t, e)[Len(t) + 1] = e
  BY AppendIs
<1>2. IsFiniteSet(Ran(t))
  <2>1. IsFiniteSet(1 .. Len(t)) /\ DOMAIN t = 1 .. Len(t)
    BY FS_Interval, AppendIs
  <2>. QED  BY <2>1, FS_Subset
<1>3. Cardinality(Ran(t)) \in Nat
  BY <1>2, FS_CardinalityType
<1>4. Ran(Append(t, e)) =
          IF e.role = "tool" /\ "not_run" \notin e.marks THEN Ran(t) \cup {Len(t) + 1} ELSE Ran(t)
  BY <1>1
<1>5. Cardinality(Ran(t) \cup {Len(t) + 1}) = Cardinality(Ran(t)) + 1
  BY <1>1, <1>2, FS_AddElement
<1>6. ExecutedToolCalls(t) = Cardinality(Ran(t))
      /\ ExecutedToolCalls(Append(t, e)) = Cardinality(Ran(Append(t, e)))
  BY DEF ExecutedToolCalls
<1>7. CASE e.role = "tool" /\ "not_run" \notin e.marks
  <2>1. Ran(Append(t, e)) = Ran(t) \cup {Len(t) + 1}
    BY <1>4, <1>7
  <2>. HIDE DEF Ran
  <2>. QED  BY <1>3, <1>5, <1>6, <1>7, <2>1
<1>8. CASE ~(e.role = "tool" /\ "not_run" \notin e.marks)
  <2>1. Ran(Append(t, e)) = Ran(t)
    BY <1>4, <1>8
  <2>. HIDE DEF Ran
  <2>. QED  BY <1>3, <1>6, <1>8, <2>1
<1>. QED  BY <1>7, <1>8

LEMMA ClearAppend ==
    ASSUME NEW t \in Seq(Entries), NEW e \in Entries, Clear(t), e.role \notin {"system", "error"}
    PROVE  Clear(Append(t, e))
  BY AppendIs DEF Clear

LEMMA CallsAre ==
    /\ \A e \in Entries : e.calls \in Nat
    /\ \A t \in Seq(Entries) : \A i \in 1 .. Len(t) : t[i] \in Entries /\ t[i].calls \in Nat
<1>1. \A e \in Entries : e.calls \in Nat
  BY DEF Entries
<1>2. \A t \in Seq(Entries) : \A i \in 1 .. Len(t) : t[i] \in Entries
  OBVIOUS
<1>. QED  BY <1>1, <1>2

(* A turn opens as many calls as it carries; an answer closes one.          *)
LEMMA AnsweredTurn ==
    ASSUME NEW t \in Seq(Entries), NEW e \in Entries, Answered(t, 0)
    PROVE  Answered(Append(t, e), e.calls)
<1>. DEFINE u == Append(t, e)
<1>0. e.calls \in Nat /\ \A i \in 1 .. Len(t) : t[i].calls \in Nat
  BY CallsAre
<1>. SUFFICES ASSUME NEW i \in 1 .. Len(u)
              PROVE  /\ i + u[i].calls <= Len(u) + e.calls
                     /\ \A k \in 1 .. u[i].calls : i + k <= Len(u) => u[i + k].role = "tool"
  BY DEF Answered
<1>1. CASE i = Len(t) + 1
  BY <1>0, <1>1, AppendIs
<1>2. CASE i \in 1 .. Len(t)
  <2>1. u[i] = t[i] /\ i + t[i].calls <= Len(t) /\ Len(u) = Len(t) + 1
    BY <1>2, AppendIs DEF Answered
  <2>2. \A k \in 1 .. t[i].calls : i + k \in 1 .. Len(t) /\ u[i + k] = t[i + k]
    BY <1>0, <1>2, <2>1, AppendIs
  <2>. QED  BY <1>0, <1>2, <2>1, <2>2 DEF Answered
<1>. QED  BY <1>1, <1>2, AppendIs

LEMMA AnsweredCall ==
    ASSUME NEW t \in Seq(Entries), NEW e \in Entries, NEW open \in Nat, Answered(t, open + 1),
           e.role = "tool", e.calls = 0
    PROVE  Answered(Append(t, e), open)
<1>. DEFINE u == Append(t, e)
<1>0. \A i \in 1 .. Len(t) : t[i].calls \in Nat
  BY CallsAre
<1>. SUFFICES ASSUME NEW i \in 1 .. Len(u)
              PROVE  /\ i + u[i].calls <= Len(u) + open
                     /\ \A k \in 1 .. u[i].calls : i + k <= Len(u) => u[i + k].role = "tool"
  BY DEF Answered
<1>1. CASE i = Len(t) + 1
  BY <1>1, AppendIs
<1>2. CASE i \in 1 .. Len(t)
  <2>1. u[i] = t[i] /\ i + t[i].calls <= Len(t) + (open + 1) /\ Len(u) = Len(t) + 1
    BY <1>2, AppendIs DEF Answered
  <2>2. ASSUME NEW k \in 1 .. t[i].calls, i + k <= Len(u)  PROVE u[i + k].role = "tool"
    <3>1. i + k \in 1 .. Len(t) \/ i + k = Len(t) + 1
      BY <1>0, <1>2, <2>1, <2>2, AppendIs
    <3>. QED  BY <1>2, <2>2, <3>1, AppendIs DEF Answered
  <2>. QED  BY <1>0, <1>2, <2>1, <2>2, AppendIs
<1>. QED  BY <1>1, <1>2, AppendIs

LEMMA OpeningIs ==
    /\ Opening \in Seq(Entries) /\ Reminded(Opening, FALSE, "none")
    /\ ExecutedToolCalls(Opening) = 0 /\ Clear(Opening) /\ Answered(Opening, 0)
<1>1. /\ Entry("system", 0, {}) \in Entries /\ Entry("user", 0, {}) \in Entries
      /\ Entry("system", 0, {}).role = "system" /\ Entry("user", 0, {}).role = "user"
      /\ Entry("system", 0, {}).calls = 0 /\ Entry("user", 0, {}).calls = 0
      /\ Entry("system", 0, {}).marks = {} /\ Entry("user", 0, {}).marks = {}
  BY DEF Entry, Entries, Roles
<1>2. /\ Opening \in Seq(Entries) /\ Len(Opening) = 2 /\ DOMAIN Opening = 1 .. 2
      /\ Opening[1] = Entry("system", 0, {}) /\ Opening[2] = Entry("user", 0, {})
  BY <1>1 DEF Opening
<1>3. \A i \in 1 .. 2 : i = 1 \/ i = 2
  OBVIOUS
<1>4. \A i \in 1 .. 2 : Opening[i].calls = 0 /\ Opening[i].marks = {} /\ Opening[i].role # "tool"
  BY <1>1, <1>2, <1>3
<1>5. \A mark : MarkedAt(Opening, mark) = {}
  BY <1>2, <1>4 DEF MarkedAt
<1>6. ExecutedToolCalls(Opening) = 0
  <2>1. {i \in DOMAIN Opening : Opening[i].role = "tool" /\ "not_run" \notin Opening[i].marks} = {}
    BY <1>2, <1>4
  <2>. QED  BY <2>1, FS_EmptySet DEF ExecutedToolCalls
<1>7. Clear(Opening)
  BY <1>1, <1>2, <1>3 DEF Clear
<1>8. Answered(Opening, 0)
  BY <1>2, <1>4 DEF Answered
<1>. QED  BY <1>2, <1>5, <1>6, <1>7, <1>8 DEF Reminded


-----------------------------------------------------------------------------
(* A solve, step by step.                                                   *)

(* A step of one session's loop, that leaves it in order.                   *)
OwnLoop(s) ==
    /\ loop' = [loop EXCEPT ![s] = loop'[s]]
    /\ loop'[s] \in Loops
    /\ LoopInv(loop'[s])

LEMMA LoopsStep == ASSUME LoopsInv, NEW s \in Sessions, OwnLoop(s)  PROVE LoopsInv'
  BY DEF LoopsInv, OwnLoop

LEMMA LoopIs ==
    ASSUME LoopsInv, NEW s \in Sessions
    PROVE  /\ loop[s] \in Loops /\ LoopInv(loop[s]) /\ DOMAIN loop = Sessions
           /\ loop[s].transcript \in Seq(Entries)
           /\ loop[s].step \in 0 .. MaxSteps /\ loop[s].executed \in 0 .. MaxToolCalls
           /\ loop[s].nudged \in BOOLEAN /\ loop[s].tries \in Nat /\ loop[s].calls \in Nat
           /\ loop[s].batch \in Seq({"tool", "finish"})
           /\ MaxSteps \in Nat \ {0} /\ MaxToolCalls \in Nat \ {0}
<1>1. loop[s] \in Loops /\ LoopInv(loop[s]) /\ DOMAIN loop = Sessions
  BY DEF LoopsInv
<1>. QED  BY <1>1, LoopAssumption DEF Loops

LEMMA CountedIs ==
    ASSUME LoopsInv, NEW s \in Sessions
    PROVE  Counted(s) \in Nat /\ Counted(s) <= loop[s].calls + 1
  BY LoopIs DEF Counted

LEMMA StartStep == ASSUME LoopsInv, NEW s \in Sessions, StartSolve(s)  PROVE OwnLoop(s)
<1>. DEFINE l == loop[s]
            m == loop'[s]
<1>1. m = [l EXCEPT !.pc = "turn"] /\ loop' = [loop EXCEPT ![s] = m]
  BY LoopIs DEF StartSolve
<1>2. m \in Loops /\ m.pc = "turn" /\ l.pc = "off"
  BY <1>1, LoopIs DEF Loops, StartSolve, At
<1>3. LoopInv(m)
  BY <1>1, <1>2, LoopIs DEF LoopInv, Counts, Loops
<1>. QED  BY <1>1, <1>2, <1>3 DEF OwnLoop

(* An entry before the request, that no reply has answered yet.             *)
LEMMA QuietEntry ==
    ASSUME NEW t \in Seq(Entries), NEW e \in Entries, Clear(t), Answered(t, 0),
           e.role = "user", e.calls = 0
    PROVE  /\ Append(t, e) \in Seq(Entries)
           /\ Clear(Append(t, e)) /\ Answered(Append(t, e), 0)
           /\ ExecutedToolCalls(Append(t, e)) = ExecutedToolCalls(t)
<1>1. Answered(Append(t, e), 0)
  BY AnsweredTurn
<1>2. ExecutedToolCalls(Append(t, e)) = ExecutedToolCalls(t)
  BY ExecutedAppend
<1>. QED  BY <1>1, <1>2, AppendIs, ClearAppend

LEMMA BeginStep == ASSUME LoopsInv, NEW s \in Sessions, BeginTurn(s)  PROVE OwnLoop(s)
<1>. DEFINE l == loop[s]
            m == loop'[s]
            t == l.transcript
            e == Entry("user", 0, {"nudge"})
<1>0. l.pc = "turn" /\ l.step < MaxSteps
  BY DEF BeginTurn, At
<1>1. m = [l EXCEPT !.pc = "ask", !.nudged = l.nudged \/ Nudges(s),
                    !.transcript = IF Nudges(s) THEN Append(t, e) ELSE t]
      /\ loop' = [loop EXCEPT ![s] = m]
  BY LoopIs DEF BeginTurn
<1>2. e \in Entries /\ e.role = "user" /\ e.calls = 0 /\ e.marks = {"nudge"}
  BY EntryIs DEF Roles
<1>3. /\ l.spent = "none" /\ l.tries = 0 /\ l.calls <= 3 * l.step
      /\ Reminded(t, l.nudged, "none") /\ ExecutedToolCalls(t) <= l.executed
      /\ Clear(t) /\ Answered(t, 0)
  BY <1>0, LoopIs DEF LoopInv, Counts
<1>4. CASE Nudges(s)
  <2>1. ~l.nudged /\ Nudges(s) = TRUE
    BY <1>4 DEF Nudges
  <2>2. m = [l EXCEPT !.pc = "ask", !.nudged = TRUE, !.transcript = Append(t, e)]
    BY <1>1, <1>4
  <2>3. /\ Append(t, e) \in Seq(Entries) /\ Reminded(Append(t, e), TRUE, "none")
        /\ Clear(Append(t, e)) /\ Answered(Append(t, e), 0)
        /\ ExecutedToolCalls(Append(t, e)) <= l.executed
    BY <1>2, <1>3, <2>1, LoopIs, QuietEntry, RemindedNudge
  <2>4. m \in Loops
    BY <2>2, <2>3, LoopIs DEF Loops
  <2>5. Counts(m)
    BY <1>0, <1>3, <2>2, LoopIs DEF Counts, Loops
  <2>6. LoopInv(m)
    <3>1. /\ m.pc = "ask" /\ m.transcript = Append(t, e) /\ m.nudged = TRUE
          /\ m.spent = "none" /\ m.executed = l.executed
      BY <1>3, <2>2, LoopIs DEF Loops
    <3>. QED  BY <2>3, <2>5, <3>1 DEF LoopInv
  <2>. QED  BY <1>1, <2>4, <2>6 DEF OwnLoop
<1>5. CASE ~Nudges(s)
  <2>2. m = [l EXCEPT !.pc = "ask"]
    BY <1>1, <1>5, LoopIs DEF Loops
  <2>4. m \in Loops
    BY <2>2, LoopIs DEF Loops
  <2>5. Counts(m)
    BY <1>0, <1>3, <2>2, LoopIs DEF Counts, Loops
  <2>6. LoopInv(m)
    BY <1>3, <2>2, <2>5, LoopIs DEF LoopInv, Loops
  <2>. QED  BY <1>1, <2>4, <2>6 DEF OwnLoop
<1>. QED  BY <1>4, <1>5

(* The last word is asked for from a turn that will not be taken, or from a *)
(* turn all of whose calls are answered.                                    *)
LEMMA LastWordStep ==
    ASSUME LoopsInv, NEW s \in Sessions, NEW spent \in {"steps", "calls"}, LastWord(s, spent),
           loop[s].pc \in {"turn", "calls"}, loop[s].calls <= 3 * MaxSteps,
           loop[s].spent = "none", loop[s].tries = 0, Answered(loop[s].transcript, 0)
    PROVE  OwnLoop(s)
<1>. DEFINE l == loop[s]
            m == loop'[s]
            t == l.transcript
            e == Entry("user", 0, {"last_word"})
<1>1. m = [l EXCEPT !.pc = "ask", !.spent = spent, !.transcript = Append(t, e)]
      /\ loop' = [loop EXCEPT ![s] = m]
  BY LoopIs DEF LastWord
<1>2. e \in Entries /\ e.role = "user" /\ e.calls = 0 /\ e.marks = {"last_word"}
  BY EntryIs DEF Roles
<1>3. Reminded(t, l.nudged, "none") /\ ExecutedToolCalls(t) <= l.executed /\ Clear(t)
  BY LoopIs DEF LoopInv
<1>4. /\ Append(t, e) \in Seq(Entries) /\ Reminded(Append(t, e), l.nudged, spent)
      /\ Clear(Append(t, e)) /\ Answered(Append(t, e), 0)
      /\ ExecutedToolCalls(Append(t, e)) <= l.executed
  BY <1>2, <1>3, LoopIs, QuietEntry, RemindedLastWord
<1>5. m \in Loops
  BY <1>1, <1>4, LoopIs DEF Loops
<1>6. Counts(m)
  BY <1>1, LoopIs DEF Counts, Loops
<1>7. LoopInv(m)
  BY <1>1, <1>4, <1>6, LoopIs DEF LoopInv, Loops
<1>. QED  BY <1>1, <1>5, <1>7 DEF OwnLoop

LEMMA StepsSpentStep == ASSUME LoopsInv, NEW s \in Sessions, StepsSpent(s)  PROVE OwnLoop(s)
<1>1. loop[s].pc = "turn" /\ loop[s].step = MaxSteps /\ LastWord(s, "steps")
  BY DEF StepsSpent, At
<1>2. /\ loop[s].spent = "none" /\ loop[s].tries = 0 /\ loop[s].calls <= 3 * MaxSteps
      /\ Answered(loop[s].transcript, 0)
  BY <1>1, LoopIs DEF LoopInv, Counts
<1>. QED  BY <1>1, <1>2, LastWordStep

LEMMA RetryStep ==
    ASSUME LoopsInv, NEW s \in Sessions, NEW failure \in Failures, Retry(s, failure)
    PROVE  OwnLoop(s)
<1>. DEFINE l == loop[s]
            m == loop'[s]
<1>0. l.pc = "ask" /\ l.tries + 1 < 3
  BY DEF Retry, At, Again, MAX_RETRY_ATTEMPTS
<1>1. m = [l EXCEPT !.tries = l.tries + 1, !.calls = Counted(s)] /\ loop' = [loop EXCEPT ![s] = m]
  BY LoopIs DEF Retry
<1>2. /\ l \in Loops /\ l.tries + 1 \in Nat /\ Counted(s) \in Nat
      /\ Counted(s) <= l.calls + 1 /\ Counts(l) /\ MaxSteps \in Nat
      /\ l.step \in Nat /\ l.tries \in Nat /\ l.calls \in Nat
  BY LoopIs, CountedIs DEF LoopInv
<1>5. m \in Loops /\ m.pc = "ask" /\ m.tries = l.tries + 1 /\ m.calls = Counted(s)
      /\ m.spent = l.spent /\ m.step = l.step
  BY <1>0, <1>1, <1>2 DEF Loops
<1>3. Counts(m)
  BY <1>0, <1>2, <1>5 DEF Counts
<1>4. LoopInv(m)
  BY <1>0, <1>1, <1>3, LoopIs DEF LoopInv, Loops
<1>. QED  BY <1>1, <1>4, <1>5 DEF OwnLoop

(* A solve that has ended: what it leaves may be read, and asks no more.    *)
LEMMA EndedStep ==
    ASSUME LoopsInv, NEW s \in Sessions, loop' = [loop EXCEPT ![s] = loop'[s]],
           loop'[s] \in Loops, loop'[s].pc \in {"returned", "raised", "done"},
           loop'[s].calls <= 3 * (MaxSteps + 1),
           Reminded(loop'[s].transcript, loop'[s].nudged, loop'[s].spent),
           ExecutedToolCalls(loop'[s].transcript) <= loop'[s].executed
    PROVE  OwnLoop(s)
<1>1. Counts(loop'[s])
  BY DEF Counts
<1>. QED  BY <1>1 DEF OwnLoop, LoopInv

(* What may follow the end of a solve disturbs neither the reminders nor    *)
(* the count of what was run.                                               *)
LEMMA LastEntry ==
    ASSUME NEW t \in Seq(Entries), NEW nudged \in BOOLEAN, NEW spent, NEW n \in Nat,
           NEW role \in {"assistant", "error"},
           NEW marks \in SUBSET {"nudge", "last_word", "done", "not_run", "provider", "spent"},
           Reminded(t, nudged, spent), ExecutedToolCalls(t) <= n
    PROVE  LET u == Append(t, Entry(role, 0, marks))
           IN  u \in Seq(Entries) /\ Reminded(u, nudged, spent) /\ ExecutedToolCalls(u) <= n
<1>. DEFINE e == Entry(role, 0, marks)
<1>1. e \in Entries /\ e.role \notin {"user", "tool"}
  BY EntryIs DEF Roles
<1>2. Append(t, e) \in Seq(Entries) /\ Reminded(Append(t, e), nudged, spent)
  BY <1>1, AppendIs, RemindedQuiet
<1>3. ExecutedToolCalls(Append(t, e)) = ExecutedToolCalls(t)
  BY <1>1, ExecutedAppend
<1>. QED  BY <1>2, <1>3

LEMMA AskFailsStep ==
    ASSUME LoopsInv, NEW s \in Sessions, NEW failure \in Failures, AskFails(s, failure)
    PROVE  OwnLoop(s)
<1>. DEFINE l == loop[s]
            m == loop'[s]
            t == l.transcript
            e == Entry("error", 0, {"provider"})
            f == Entry("error", 0, {"spent"})
            more == IF AsksLastWord(s) THEN <<f>> ELSE <<>>
            count == IF failure \in ProviderErrors THEN Counted(s) ELSE l.calls
<1>0. l.pc = "ask"
  BY DEF AskFails, At
<1>1. m = [l EXCEPT !.pc = "returned", !.outcome = "fail", !.tries = l.tries + 1,
                    !.calls = count, !.transcript = t \o (<<e>> \o more)]
      /\ loop' = [loop EXCEPT ![s] = m]
  BY LoopIs DEF AskFails
<1>2. e \in Entries /\ f \in Entries
  BY EntryIs DEF Roles
<1>3. Reminded(t, l.nudged, l.spent) /\ ExecutedToolCalls(t) <= l.executed
  BY LoopIs DEF LoopInv
<1>4. /\ Append(t, e) \in Seq(Entries) /\ Reminded(Append(t, e), l.nudged, l.spent)
      /\ ExecutedToolCalls(Append(t, e)) <= l.executed
  BY <1>3, LoopIs, LastEntry
<1>5. LET u == Append(Append(t, e), f)
      IN  u \in Seq(Entries) /\ Reminded(u, l.nudged, l.spent) /\ ExecutedToolCalls(u) <= l.executed
  <2>. DEFINE u == Append(t, e)
  <2>1. u \in Seq(Entries) /\ Reminded(u, l.nudged, l.spent) /\ ExecutedToolCalls(u) <= l.executed
    BY <1>4
  <2>. HIDE DEF u
  <2>2. LET v == Append(u, f)
        IN  v \in Seq(Entries) /\ Reminded(v, l.nudged, l.spent) /\ ExecutedToolCalls(v) <= l.executed
    BY <2>1, LoopIs, LastEntry
  <2>. QED  BY <2>2 DEF u
<1>6. t \o (<<e>> \o more) = Append(t, e) \/ t \o (<<e>> \o more) = Append(Append(t, e), f)
  BY <1>2, LoopIs, ConcatIs
<1>7. /\ t \o (<<e>> \o more) \in Seq(Entries)
      /\ Reminded(t \o (<<e>> \o more), l.nudged, l.spent)
      /\ ExecutedToolCalls(t \o (<<e>> \o more)) <= l.executed
  BY <1>4, <1>5, <1>6
<1>8. count \in Nat /\ count <= 3 * (MaxSteps + 1)
  BY <1>0, LoopIs, CountedIs DEF LoopInv, Counts
<1>. DEFINE left == t \o (<<e>> \o more)
<1>10. l \in Loops /\ l.tries + 1 \in Nat
  BY LoopIs
<1>. HIDE DEF left, count
<1>9. m \in Loops
  BY <1>1, <1>7, <1>8, <1>10 DEF Loops
<1>. QED  BY <1>1, <1>7, <1>8, <1>9, LoopIs, EndedStep DEF Loops

LEMMA RejectedStep == ASSUME LoopsInv, NEW s \in Sessions, KeyRejected(s)  PROVE OwnLoop(s)
<1>. DEFINE l == loop[s]
            m == loop'[s]
<1>0. l.pc = "ask"
  BY DEF KeyRejected, At
<1>1. m = [l EXCEPT !.pc = "raised", !.calls = Counted(s)] /\ loop' = [loop EXCEPT ![s] = m]
  BY LoopIs DEF KeyRejected
<1>2. /\ l \in Loops /\ Counted(s) \in Nat /\ Counted(s) <= 3 * (MaxSteps + 1)
      /\ Reminded(l.transcript, l.nudged, l.spent)
      /\ ExecutedToolCalls(l.transcript) <= l.executed
  BY <1>0, LoopIs, CountedIs DEF LoopInv, Counts
<1>3. /\ m \in Loops /\ m.pc = "raised" /\ m.calls = Counted(s) /\ m.transcript = l.transcript
      /\ m.nudged = l.nudged /\ m.spent = l.spent /\ m.executed = l.executed
  BY <1>1, <1>2 DEF Loops
<1>. QED  BY <1>1, <1>2, <1>3, EndedStep

(* A reply counts once more, and no more than the turn's attempts.          *)
LEMMA ReplyCounts ==
    ASSUME LoopsInv, NEW s \in Sessions, At(s, "ask")
    PROVE  /\ Counted(s) \in Nat /\ Counted(s) <= 3 * (MaxSteps + 1)
           /\ ~AsksLastWord(s) =>
                  /\ loop[s].spent = "none" /\ loop[s].step < MaxSteps
                  /\ Counted(s) <= 3 * (loop[s].step + 1)
<1>1. /\ loop[s].pc = "ask" /\ Counts(loop[s]) /\ loop[s].step \in Nat
      /\ loop[s].tries \in Nat /\ loop[s].calls \in Nat /\ MaxSteps \in Nat
  BY LoopIs DEF LoopInv, At
<1>2. Counted(s) \in Nat /\ Counted(s) <= loop[s].calls + 1
  BY CountedIs
<1>. QED  BY <1>1, <1>2 DEF Counts, AsksLastWord

LEMMA PlainStep == ASSUME LoopsInv, NEW s \in Sessions, PlainReply(s)  PROVE OwnLoop(s)
<1>. DEFINE l == loop[s]
            m == loop'[s]
            u == Append(l.transcript, Entry("assistant", 0, {"done"}))
<1>0. At(s, "ask") /\ ~AsksLastWord(s)
  BY DEF PlainReply
<1>1. m = [l EXCEPT !.pc = "returned", !.outcome = "success", !.tries = 0, !.calls = Counted(s),
                    !.transcript = u]
      /\ loop' = [loop EXCEPT ![s] = m]
  BY LoopIs DEF PlainReply
<1>2. Reminded(l.transcript, l.nudged, l.spent) /\ ExecutedToolCalls(l.transcript) <= l.executed
  BY LoopIs DEF LoopInv
<1>3. u \in Seq(Entries) /\ Reminded(u, l.nudged, l.spent) /\ ExecutedToolCalls(u) <= l.executed
  BY <1>2, LoopIs, LastEntry
<1>4. l \in Loops /\ Counted(s) \in Nat /\ Counted(s) <= 3 * (MaxSteps + 1)
  BY <1>0, LoopIs, ReplyCounts
<1>. HIDE DEF u
<1>5. /\ m \in Loops /\ m.pc = "returned" /\ m.calls = Counted(s) /\ m.transcript = u
      /\ m.nudged = l.nudged /\ m.spent = l.spent /\ m.executed = l.executed
  <2>. HIDE DEF m, l
  <2>1. m = [l EXCEPT !.pc = "returned", !.outcome = "success", !.tries = 0, !.calls = Counted(s),
                    !.transcript = u]
    BY <1>1
  <2>. QED  BY <1>3, <1>4, <2>1 DEF Loops
<1>. QED  BY <1>1, <1>3, <1>4, <1>5, EndedStep

LEMMA BatchIs ==
    ASSUME NEW batch \in Batches \cup {<<>>}
    PROVE  batch \in Seq({"tool", "finish"}) /\ Len(batch) \in Nat
<1>1. batch \in Seq({"tool", "finish"})
  <2>1. CASE batch \in Batches
    <3>1. PICK n \in 1 .. BatchBound : batch \in [1 .. n -> {"tool", "finish"}]
      BY <2>1 DEF Batches
    <3>. QED  BY <3>1, LoopAssumption, SeqDef
  <2>2. CASE batch = <<>>
    BY <2>2, EmptySeq
  <2>. QED  BY <2>1, <2>2
<1>. QED  BY <1>1, LenProperties

LEMMA CallsStep ==
    ASSUME LoopsInv, NEW s \in Sessions, NEW batch \in Batches, ReplyWithCalls(s, batch)
    PROVE  OwnLoop(s)
<1>. DEFINE l == loop[s]
            m == loop'[s]
            t == l.transcript
            e == Entry("assistant", Len(batch), {})
            u == Append(t, e)
<1>0. At(s, "ask") /\ ~AsksLastWord(s)
  BY DEF ReplyWithCalls
<1>1. m = [l EXCEPT !.pc = "calls", !.batch = batch, !.tries = 0, !.calls = Counted(s),
                    !.transcript = u]
      /\ loop' = [loop EXCEPT ![s] = m]
  BY LoopIs DEF ReplyWithCalls
<1>2. batch \in Seq({"tool", "finish"}) /\ Len(batch) \in Nat
  BY BatchIs
<1>3. e \in Entries /\ e.role = "assistant" /\ e.calls = Len(batch)
  BY <1>2, EntryIs DEF Roles
<1>4. /\ Reminded(t, l.nudged, l.spent) /\ ExecutedToolCalls(t) <= l.executed
      /\ Clear(t) /\ Answered(t, 0) /\ t \in Seq(Entries)
  BY <1>0, LoopIs DEF LoopInv, At
<1>5. u \in Seq(Entries) /\ Reminded(u, l.nudged, l.spent) /\ Clear(u)
  BY <1>3, <1>4, AppendIs, RemindedQuiet, ClearAppend
<1>6. ExecutedToolCalls(u) <= l.executed
  <2>1. ExecutedToolCalls(u) = ExecutedToolCalls(t)
    BY <1>3, <1>4, ExecutedAppend
  <2>. QED  BY <1>4, <2>1
<1>7. Answered(u, Len(batch))
  BY <1>3, <1>4, AnsweredTurn
<1>8. /\ l \in Loops /\ Counted(s) \in Nat /\ Counted(s) <= 3 * (MaxSteps + 1)
      /\ l.spent = "none" /\ l.step < MaxSteps /\ Counted(s) <= 3 * (l.step + 1)
  BY <1>0, LoopIs, ReplyCounts
<1>. HIDE DEF u
<1>9. /\ m \in Loops /\ m.pc = "calls" /\ m.calls = Counted(s) /\ m.transcript = u
      /\ m.nudged = l.nudged /\ m.spent = l.spent /\ m.executed = l.executed
      /\ m.tries = 0 /\ m.step = l.step /\ m.batch = batch
  <2>. HIDE DEF m, l
  <2>1. m = [l EXCEPT !.pc = "calls", !.batch = batch, !.tries = 0, !.calls = Counted(s),
                      !.transcript = u]
    BY <1>1
  <2>. QED  BY <1>2, <1>5, <1>8, <2>1 DEF Loops
<1>10. Counts(m)
  BY <1>8, <1>9 DEF Counts
<1>11. LoopInv(m)
  BY <1>5, <1>6, <1>7, <1>9, <1>10 DEF LoopInv
<1>. QED  BY <1>1, <1>9, <1>11 DEF OwnLoop

LEMMA FinishStep == ASSUME LoopsInv, NEW s \in Sessions, FinishCall(s)  PROVE OwnLoop(s)
<1>. DEFINE l == loop[s]
            m == loop'[s]
            e == Entry("assistant", 0, {"done"})
            u == Append(l.transcript, e)
<1>1. m = [l EXCEPT !.pc = "returned", !.outcome = "success", !.batch = <<>>,
                    !.transcript = l.transcript \o <<e>>]
      /\ loop' = [loop EXCEPT ![s] = m]
  BY LoopIs DEF FinishCall, Returns
<1>2. l.transcript \o <<e>> = u
  <2>1. e \in Entries
    BY EntryIs DEF Roles
  <2>. QED  BY <2>1, LoopIs, ConcatIs
<1>3. /\ Reminded(l.transcript, l.nudged, l.spent) /\ ExecutedToolCalls(l.transcript) <= l.executed
      /\ l.calls <= 3 * (MaxSteps + 1) /\ l \in Loops
  BY LoopIs DEF LoopInv, Counts
<1>4. u \in Seq(Entries) /\ Reminded(u, l.nudged, l.spent) /\ ExecutedToolCalls(u) <= l.executed
  BY <1>3, LoopIs, LastEntry
<1>5. <<>> \in Seq({"tool", "finish"})
  BY EmptySeq
<1>. HIDE DEF u, e
<1>6. /\ m \in Loops /\ m.pc = "returned" /\ m.calls = l.calls /\ m.transcript = u
      /\ m.nudged = l.nudged /\ m.spent = l.spent /\ m.executed = l.executed
  BY <1>1, <1>2, <1>3, <1>4, <1>5 DEF Loops
<1>. QED  BY <1>1, <1>3, <1>4, <1>6, EndedStep

(* A call of the turn that is answered: one fewer is open.                  *)
LEMMA NextCall ==
    ASSUME LoopsInv, NEW s \in Sessions, NextCallIsATool(s)
    PROVE  LET l == loop[s] IN
           /\ l \in Loops /\ l.pc = "calls" /\ l.spent = "none" /\ l.tries = 0 /\ l.step < MaxSteps
           /\ l.calls <= 3 * (l.step + 1) /\ l.calls <= 3 * (MaxSteps + 1)
           /\ Tail(l.batch) \in Seq({"tool", "finish"})
           /\ Len(Tail(l.batch)) \in Nat /\ Len(l.batch) = Len(Tail(l.batch)) + 1
           /\ Reminded(l.transcript, l.nudged, "none")
           /\ ExecutedToolCalls(l.transcript) <= l.executed
           /\ Clear(l.transcript) /\ Answered(l.transcript, Len(Tail(l.batch)) + 1)
<1>. DEFINE l == loop[s]
<1>1. /\ l.pc = "calls" /\ l.batch # <<>>
  BY DEF NextCallIsATool, At
<1>2. /\ l \in Loops /\ l.spent = "none" /\ l.tries = 0 /\ l.step < MaxSteps
      /\ l.calls <= 3 * (l.step + 1) /\ l.calls <= 3 * (MaxSteps + 1)
      /\ Reminded(l.transcript, l.nudged, "none")
      /\ ExecutedToolCalls(l.transcript) <= l.executed
      /\ Clear(l.transcript) /\ Answered(l.transcript, Len(l.batch))
  BY <1>1, LoopIs DEF LoopInv, Counts
<1>3. /\ Tail(l.batch) \in Seq({"tool", "finish"})
      /\ Len(Tail(l.batch)) \in Nat /\ Len(l.batch) = Len(Tail(l.batch)) + 1
  <2>1. l.batch \in Seq({"tool", "finish"}) /\ l.batch # <<>>
    BY <1>1, LoopIs
  <2>. QED  BY <2>1, HeadTailProperties, EmptySeq, LenProperties
<1>. QED  BY <1>1, <1>2, <1>3

LEMMA AnswerStep ==
    ASSUME LoopsInv, NEW s \in Sessions, NextCallIsATool(s), NEW executed \in 0 .. MaxToolCalls,
           NEW marks \in SUBSET {"nudge", "last_word", "done", "not_run", "provider", "spent"},
           \/ "not_run" \in marks /\ executed = loop[s].executed
           \/ executed = loop[s].executed + 1,
           loop' = [loop EXCEPT ![s] =
                       [loop[s] EXCEPT !.batch = Tail(loop[s].batch), !.executed = executed,
                            !.transcript = Append(loop[s].transcript, Entry("tool", 0, marks))]]
    PROVE  OwnLoop(s)
<1>. DEFINE l == loop[s]
            m == loop'[s]
            t == l.transcript
            e == Entry("tool", 0, marks)
            u == Append(t, e)
            rest == Tail(l.batch)
<1>1. m = [l EXCEPT !.batch = rest, !.executed = executed, !.transcript = u]
      /\ loop' = [loop EXCEPT ![s] = m]
  BY LoopIs
<1>2. e \in Entries /\ e.role = "tool" /\ e.calls = 0 /\ e.marks = marks
  BY EntryIs DEF Roles
<1>3. /\ l \in Loops /\ l.pc = "calls" /\ l.spent = "none" /\ l.tries = 0 /\ l.step < MaxSteps
      /\ l.calls <= 3 * (l.step + 1) /\ l.calls <= 3 * (MaxSteps + 1)
      /\ rest \in Seq({"tool", "finish"}) /\ Len(rest) \in Nat
      /\ Reminded(t, l.nudged, "none") /\ ExecutedToolCalls(t) <= l.executed
      /\ Clear(t) /\ Answered(t, Len(rest) + 1) /\ t \in Seq(Entries) /\ l.executed \in Nat
  BY NextCall, LoopIs
<1>4. u \in Seq(Entries) /\ Reminded(u, l.nudged, "none") /\ Clear(u)
  BY <1>2, <1>3, AppendIs, RemindedQuiet, ClearAppend
<1>5. ExecutedToolCalls(u) <= executed
  <2>1. /\ ExecutedToolCalls(t) \in Nat
        /\ ExecutedToolCalls(u) = ExecutedToolCalls(t)
               + IF e.role = "tool" /\ "not_run" \notin e.marks THEN 1 ELSE 0
    BY <1>2, <1>3, ExecutedAppend
  <2>2. CASE "not_run" \in marks
    <3>1. ExecutedToolCalls(u) = ExecutedToolCalls(t) + 0
      BY <1>2, <2>1, <2>2
    <3>. QED  BY <1>3, <2>1, <3>1
  <2>3. CASE "not_run" \notin marks
    <3>1. ExecutedToolCalls(u) = ExecutedToolCalls(t) + 1 /\ executed = l.executed + 1
      BY <1>2, <2>1, <2>3
    <3>. QED  BY <1>3, <2>1, <3>1
  <2>. QED  BY <2>2, <2>3
<1>6. Answered(u, Len(rest))
  BY <1>2, <1>3, AnsweredCall
<1>. HIDE DEF u, e, rest
<1>7. /\ m \in Loops /\ m.pc = "calls" /\ m.calls = l.calls /\ m.transcript = u
      /\ m.nudged = l.nudged /\ m.spent = "none" /\ m.executed = executed
      /\ m.tries = 0 /\ m.step = l.step /\ m.batch = rest
  <2>. HIDE DEF m, l
  <2>1. m = [l EXCEPT !.batch = rest, !.executed = executed, !.transcript = u]
    BY <1>1
  <2>. QED  BY <1>3, <1>4, <2>1 DEF Loops
<1>8. Counts(m)
  BY <1>3, <1>7 DEF Counts
<1>9. LoopInv(m)
  BY <1>4, <1>5, <1>6, <1>7, <1>8 DEF LoopInv
<1>. QED  BY <1>1, <1>7, <1>9 DEF OwnLoop

LEMMA RunCallStep == ASSUME LoopsInv, NEW s \in Sessions, RunCall(s)  PROVE OwnLoop(s)
<1>0. {} \in SUBSET {"nudge", "last_word", "done", "not_run", "provider", "spent"}
  OBVIOUS
<1>1. NextCallIsATool(s) /\ loop[s].executed + 1 \in 0 .. MaxToolCalls
  BY LoopIs DEF RunCall
<1>2. loop' = [loop EXCEPT ![s] =
                  [loop[s] EXCEPT !.batch = Tail(loop[s].batch), !.executed = loop[s].executed + 1,
                       !.transcript = Append(loop[s].transcript, Entry("tool", 0, {}))]]
  BY LoopIs DEF RunCall
<1>. QED  BY <1>0, <1>1, <1>2, AnswerStep

LEMMA NotRunStep == ASSUME LoopsInv, NEW s \in Sessions, AnswerNotRun(s)  PROVE OwnLoop(s)
<1>1. NextCallIsATool(s) /\ loop[s].executed \in 0 .. MaxToolCalls
  BY LoopIs DEF AnswerNotRun
<1>2. loop' = [loop EXCEPT ![s] =
                  [loop[s] EXCEPT !.batch = Tail(loop[s].batch), !.executed = loop[s].executed,
                       !.transcript = Append(loop[s].transcript, Entry("tool", 0, {"not_run"}))]]
  BY LoopIs DEF AnswerNotRun, Loops
<1>. QED  BY <1>1, <1>2, AnswerStep

LEMMA RaisesStep == ASSUME LoopsInv, NEW s \in Sessions, ToolRaises(s)  PROVE OwnLoop(s)
<1>. DEFINE l == loop[s]
            m == loop'[s]
<1>1. m = [l EXCEPT !.pc = "raised", !.executed = l.executed + 1] /\ loop' = [loop EXCEPT ![s] = m]
  BY LoopIs DEF ToolRaises
<1>2. /\ l \in Loops /\ l.calls <= 3 * (MaxSteps + 1) /\ l.executed + 1 \in 0 .. MaxToolCalls
      /\ l.executed \in Nat /\ Reminded(l.transcript, l.nudged, l.spent)
      /\ ExecutedToolCalls(l.transcript) \in Nat /\ ExecutedToolCalls(l.transcript) <= l.executed
  <2>1. Entry("tool", 0, {}) \in Entries
    BY EntryIs DEF Roles
  <2>2. ExecutedToolCalls(l.transcript) \in Nat
    BY <2>1, LoopIs, ExecutedAppend
  <2>. QED  BY <2>2, LoopIs DEF LoopInv, Counts, ToolRaises
<1>3. /\ m \in Loops /\ m.pc = "raised" /\ m.calls = l.calls /\ m.transcript = l.transcript
      /\ m.nudged = l.nudged /\ m.spent = l.spent /\ m.executed = l.executed + 1
  BY <1>1, <1>2 DEF Loops
<1>4. ExecutedToolCalls(m.transcript) <= m.executed
  BY <1>2, <1>3
<1>. QED  BY <1>1, <1>2, <1>3, <1>4, EndedStep

LEMMA EndOfCallsStep == ASSUME LoopsInv, NEW s \in Sessions, EndOfCalls(s)  PROVE OwnLoop(s)
<1>. DEFINE l == loop[s]
            m == loop'[s]
<1>1. l.pc = "calls" /\ l.batch = <<>> /\ Len(l.batch) = 0
  BY EmptySeq DEF EndOfCalls, At
<1>2. /\ l \in Loops /\ l.spent = "none" /\ l.tries = 0 /\ l.step < MaxSteps
      /\ l.calls <= 3 * (l.step + 1) /\ l.calls <= 3 * (MaxSteps + 1) /\ l.calls <= 3 * MaxSteps
      /\ Reminded(l.transcript, l.nudged, l.spent)
      /\ ExecutedToolCalls(l.transcript) <= l.executed
      /\ Clear(l.transcript) /\ Answered(l.transcript, 0)
      /\ l.step + 1 \in 0 .. MaxSteps /\ l.step \in Nat /\ l.calls \in Nat
  BY <1>1, LoopIs DEF LoopInv, Counts
<1>3. CASE LastWord(s, "calls")
  BY <1>1, <1>2, <1>3, LastWordStep
<1>4. CASE loop' = [loop EXCEPT ![s].pc = "turn", ![s].step = @ + 1]
  <2>1. m = [l EXCEPT !.pc = "turn", !.step = l.step + 1] /\ loop' = [loop EXCEPT ![s] = m]
    BY <1>4, LoopIs
  <2>2. /\ m \in Loops /\ m.pc = "turn" /\ m.calls = l.calls /\ m.transcript = l.transcript
        /\ m.nudged = l.nudged /\ m.spent = "none" /\ m.executed = l.executed
        /\ m.tries = 0 /\ m.step = l.step + 1
    BY <1>2, <2>1 DEF Loops
  <2>3. Counts(m)
    BY <1>2, <2>2 DEF Counts
  <2>4. LoopInv(m)
    BY <1>2, <2>2, <2>3 DEF LoopInv
  <2>. QED  BY <2>1, <2>2, <2>4 DEF OwnLoop
<1>. QED  BY <1>3, <1>4 DEF EndOfCalls

LEMMA LastReplyStep ==
    ASSUME LoopsInv, NEW s \in Sessions, NEW batch \in Batches \cup {<<>>}, LastReply(s, batch)
    PROVE  OwnLoop(s)
<1>. DEFINE l == loop[s]
            m == loop'[s]
            t == l.transcript
            declared == \E i \in DOMAIN batch : batch[i] = "finish"
            done == Entry("assistant", 0, {"done", "last_word"})
            word == Entry("assistant", 0, {"last_word"})
            spent == Entry("error", 0, {"spent"})
            u == IF declared THEN Append(t, done) ELSE t \o <<word, spent>>
            outcome == IF declared THEN "success" ELSE "fail"
<1>0. At(s, "ask")
  BY DEF LastReply
<1>1. m = [l EXCEPT !.pc = "returned", !.tries = 0, !.calls = Counted(s),
                    !.outcome = outcome, !.transcript = u]
      /\ loop' = [loop EXCEPT ![s] = m]
  BY LoopIs DEF LastReply
<1>2. /\ l \in Loops /\ t \in Seq(Entries)
      /\ Reminded(t, l.nudged, l.spent) /\ ExecutedToolCalls(t) <= l.executed
      /\ l.nudged \in BOOLEAN /\ l.executed \in Nat
  BY LoopIs DEF LoopInv
<1>3. u \in Seq(Entries) /\ Reminded(u, l.nudged, l.spent) /\ ExecutedToolCalls(u) <= l.executed
  <2>1. CASE declared
    BY <1>2, <2>1, LastEntry
  <2>2. CASE ~declared
    <3>. DEFINE v == Append(t, word)
    <3>1. /\ v \in Seq(Entries) /\ Reminded(v, l.nudged, l.spent)
          /\ ExecutedToolCalls(v) <= l.executed
      BY <1>2, LastEntry
    <3>2. u = Append(v, spent)
      <4>1. word \in Entries /\ spent \in Entries
        BY EntryIs DEF Roles
      <4>. QED  BY <1>2, <2>2, <4>1, ConcatIs
    <3>. HIDE DEF v, u
    <3>. QED  BY <1>2, <3>1, <3>2, LastEntry
  <2>. QED  BY <2>1, <2>2
<1>4. Counted(s) \in Nat /\ Counted(s) <= 3 * (MaxSteps + 1)
  BY <1>0, ReplyCounts
<1>5. outcome \in {"none", "success", "fail"}
  OBVIOUS
<1>. HIDE DEF u, outcome
<1>6. /\ m \in Loops /\ m.pc = "returned" /\ m.calls = Counted(s) /\ m.transcript = u
      /\ m.nudged = l.nudged /\ m.spent = l.spent /\ m.executed = l.executed
  <2>. HIDE DEF m, l
  <2>1. m = [l EXCEPT !.pc = "returned", !.tries = 0, !.calls = Counted(s),
                      !.outcome = outcome, !.transcript = u]
    BY <1>1
  <2>. QED  BY <1>2, <1>3, <1>4, <1>5, <2>1 DEF Loops
<1>. QED  BY <1>1, <1>3, <1>4, <1>6, EndedStep

LEMMA FreshIs == Fresh \in Loops /\ LoopInv(Fresh)
<1>1. <<>> \in Seq({"tool", "finish"}) /\ Opening \in Seq(Entries)
  BY EmptySeq, OpeningIs
<1>2. 0 \in 0 .. MaxSteps /\ 0 \in 0 .. MaxToolCalls
  BY LoopAssumption
<1>3. Fresh \in Loops
  BY <1>1, <1>2 DEF Fresh, Loops
<1>4. Counts(Fresh)
  BY LoopAssumption DEF Fresh, Counts
<1>5. /\ Fresh.pc = "off" /\ Fresh.transcript = Opening /\ Fresh.nudged = FALSE
      /\ Fresh.spent = "none" /\ Fresh.executed = 0
  BY DEF Fresh
<1>6. Reminded(Fresh.transcript, Fresh.nudged, Fresh.spent)
  BY <1>5, OpeningIs, Zenon
<1>. QED  BY <1>3, <1>4, <1>5, <1>6, OpeningIs DEF LoopInv

LEMMA LetGoStep == ASSUME LoopsInv, NEW s \in Sessions, LetGo(s)  PROVE OwnLoop(s)
<1>. DEFINE m == loop'[s]
<1>1. m = [Fresh EXCEPT !.pc = "done"] /\ loop' = [loop EXCEPT ![s] = m]
  BY LoopIs DEF LetGo
<1>2. m \in Loops /\ m.pc = "done" /\ m.calls = 0 /\ m.executed = 0 /\ m.transcript = Opening
  BY <1>1, FreshIs DEF Loops, Fresh
<1>3. Reminded(m.transcript, m.nudged, m.spent)
  <2>1. m.nudged = FALSE /\ m.spent = "none"
    BY <1>1, FreshIs DEF Loops, Fresh
  <2>. QED  BY <1>2, <2>1, OpeningIs, Zenon
<1>4. ExecutedToolCalls(m.transcript) = 0 /\ m.executed = 0
  BY <1>2, OpeningIs
<1>5. ExecutedToolCalls(m.transcript) <= m.executed /\ m.calls <= 3 * (MaxSteps + 1)
  BY <1>2, <1>4, LoopAssumption
<1>. QED  BY <1>1, <1>2, <1>3, <1>5, EndedStep

LEMMA ThinkStepKeeps == ASSUME LoopsInv, NEW s \in Sessions, ThinkStep(s)  PROVE LoopsInv'
<1>1. OwnLoop(s)
  BY StartStep, BeginStep, StepsSpentStep, RetryStep, AskFailsStep, RejectedStep, PlainStep,
     CallsStep, FinishStep, RaisesStep, NotRunStep, EndOfCallsStep, LastReplyStep DEF ThinkStep
<1>. QED  BY <1>1, LoopsStep

LEMMA LoopsNext == LoopsInv /\ [Next]_vars => LoopsInv'
<1>. SUFFICES ASSUME LoopsInv, [Next]_vars  PROVE LoopsInv'
  OBVIOUS
<1>1. ASSUME NEW s \in Sessions, SessionStep(s) \/ Crash(s)  PROVE LoopsInv'
  <2>1. CASE Turn(s)
    BY <2>1, ThinkStepKeeps DEF Turn
  <2>2. CASE ToolCall(s)
    BY <2>2, RunCallStep, LoopsStep DEF ToolCall
  <2>3. CASE LetGo(s)
    BY <2>3, LetGoStep, LoopsStep
  <2>4. CASE UNCHANGED loop
    BY <2>4 DEF LoopsInv
  <2>5. CASE SolveRaised(s) \/ GradeSolve(s) \/ \E confirmed \in BOOLEAN : Confirm(s, confirmed)
    BY <2>3, <2>5 DEF SolveRaised, GradeSolve, Confirm
  <2>6. CASE \/ \E b \in Injected : Open(s, b)
             \/ \E phase \in {"compile", "failed", "stopped"} : SolveInOneStep(s, phase)
             \/ \E t \in Texts : Compile(s, t)
             \/ Unparsed(s)
             \/ \E rejected \in BOOLEAN : CompileRaises(s, rejected)
             \/ Here(s) \/ GateLearned(s) \/ GateCompiled(s) \/ AddCheck(s)
    BY <2>4, <2>6 DEF Open, SolveInOneStep, Compile, Unparsed, CompileRaises, Here, GateLearned,
                      GateCompiled, AddCheck, UnchangedButRun
  <2>7. CASE MakeDirectory(s) \/ WriteProgram(s) \/ SetAdmitted(s) \/ Crash(s)
    BY <2>4, <2>7 DEF MakeDirectory, WriteProgram, SetAdmitted, Crash, UnchangedButRun
  <2>. QED  BY <1>1, <2>1, <2>2, <2>5, <2>6, <2>7 DEF SessionStep
<1>2. CASE UNCHANGED vars
  BY <1>2 DEF vars, LoopsInv
<1>. QED  BY <1>1, <1>2 DEF Next

LEMMA InitLoops == Init => LoopsInv
  BY FreshIs DEF Init, LoopInit, LoopsInv

LEMMA LoopsInvariance == Spec => []LoopsInv
  BY InitLoops, LoopsNext, PTL DEF Spec

-----------------------------------------------------------------------------
(* What the provider is sent while a turn is asked for.                     *)

(* `_api_messages`, entry by entry: what is sent of the first n.            *)
IsSent(t, f) ==
    f = [n \in 0 .. Len(t) |->
            IF n = 0 THEN <<>>
            ELSE IF t[n].role \in {"system", "error"} THEN f[n - 1]
            ELSE Append(f[n - 1], t[n])]

LEMMA SentIsTail ==
    ASSUME NEW t \in Seq(Entries), Clear(t)
    PROVE  ApiMessages(t) = SubSeq(t, 2, Len(t))
<1>. DEFINE g == [n \in 0 .. Len(t) |-> IF n = 0 THEN <<>> ELSE SubSeq(t, 2, n)]
<1>0. Len(t) \in Nat /\ Len(t) >= 1
  BY DEF Clear
<1>1. ASSUME NEW n \in 2 .. Len(t)  PROVE SubSeq(t, 2, n) = Append(SubSeq(t, 2, n - 1), t[n])
  <2>1. /\ SubSeq(t, 2, n) \in Seq(Entries) /\ SubSeq(t, 2, n - 1) \in Seq(Entries)
        /\ Len(SubSeq(t, 2, n)) = n - 1 /\ Len(SubSeq(t, 2, n - 1)) = n - 2
        /\ t[n] \in Entries
    BY <1>0, SubSeqProperties
  <2>2. \A i \in 1 .. n - 1 : SubSeq(t, 2, n)[i] = Append(SubSeq(t, 2, n - 1), t[n])[i]
    BY <1>0, <2>1
  <2>. QED  BY <2>1, <2>2, SeqEqual
<1>2. SubSeq(t, 2, 1) = <<>>
  BY <1>0
<1>3. IsSent(t, g)
  <2>1. ASSUME NEW n \in 0 .. Len(t)
        PROVE  g[n] = IF n = 0 THEN <<>>
                      ELSE IF t[n].role \in {"system", "error"} THEN g[n - 1]
                      ELSE Append(g[n - 1], t[n])
    <3>1. CASE n = 0
      BY <3>1
    <3>2. CASE n = 1
      <4>1. t[1].role = "system" /\ g[1] = <<>> /\ g[0] = <<>>
        BY <1>0, <1>2 DEF Clear
      <4>. QED  BY <3>2, <4>1
    <3>3. CASE n \in 2 .. Len(t)
      <4>1. t[n].role \notin {"system", "error"}
        BY <3>3 DEF Clear
      <4>2. g[n] = SubSeq(t, 2, n) /\ g[n - 1] = SubSeq(t, 2, n - 1)
        BY <3>3
      <4>3. g[n] = Append(g[n - 1], t[n])
        BY <1>1, <3>3, <4>2
      <4>. HIDE DEF g
      <4>. QED  BY <3>3, <4>1, <4>3
    <3>. QED  BY <1>0, <3>1, <3>2, <3>3
  <2>2. g = [n \in 0 .. Len(t) |-> g[n]]
    OBVIOUS
  <2>. HIDE DEF g
  <2>. QED  BY <2>1, <2>2 DEF IsSent
<1>4. ASSUME NEW f, IsSent(t, f)  PROVE f[Len(t)] = g[Len(t)]
  <2>. DEFINE Differ == {n \in 0 .. Len(t) : f[n] # g[n]}
  <2>1. SUFFICES ASSUME f[Len(t)] # g[Len(t)]  PROVE FALSE
    OBVIOUS
  <2>2. Differ # {} /\ Differ \subseteq Nat
    <3>. HIDE DEF g
    <3>. QED  BY <1>0, <2>1
  <2>3. PICK n \in Differ : \A m \in Differ : n <= m
    <3>. HIDE DEF Differ
    <3>. QED  BY <2>2, Least
  <2>4. /\ f[n] = IF n = 0 THEN <<>>
                  ELSE IF t[n].role \in {"system", "error"} THEN f[n - 1]
                  ELSE Append(f[n - 1], t[n])
        /\ g[n] = IF n = 0 THEN <<>>
                  ELSE IF t[n].role \in {"system", "error"} THEN g[n - 1]
                  ELSE Append(g[n - 1], t[n])
    <3>. HIDE DEF g
    <3>. QED  BY <1>3, <1>4, <2>3 DEF IsSent
  <2>. HIDE DEF g
  <2>5. n # 0 => f[n - 1] = g[n - 1]
    BY <1>0, <2>3
  <2>. QED  BY <2>3, <2>4, <2>5
<1>5. g[Len(t)] = SubSeq(t, 2, Len(t))
  BY <1>0
<1>6. ApiMessages(t) = (CHOOSE f : IsSent(t, f))[Len(t)]
  BY DEF ApiMessages, IsSent
<1>. HIDE DEF g
<1>. QED  BY <1>3, <1>4, <1>5, <1>6

LEMMA SentIsAnswered ==
    ASSUME NEW t \in Seq(Entries), Clear(t), Answered(t, 0)
    PROVE  CallsAnswered(ApiMessages(t))
<1>. DEFINE sent == SubSeq(t, 2, Len(t))
<1>1. Len(t) \in Nat /\ Len(t) >= 1
  BY DEF Clear
<1>2. /\ DOMAIN sent = 1 .. Len(t) - 1
      /\ \A i \in 1 .. Len(t) - 1 : sent[i] = t[i + 1] /\ i + 1 \in 1 .. Len(t)
  BY <1>1
<1>3. ASSUME NEW i \in DOMAIN sent, NEW k \in 1 .. sent[i].calls
      PROVE  i + k \in DOMAIN sent /\ sent[i + k].role = "tool"
  <2>1. sent[i] = t[i + 1] /\ i + 1 \in 1 .. Len(t) /\ t[i + 1].calls \in Nat
    BY <1>2, CallsAre
  <2>2. (i + 1) + t[i + 1].calls <= Len(t)
    BY <1>1, <2>1 DEF Answered
  <2>. HIDE DEF sent
  <2>3. k \in 1 .. t[i + 1].calls /\ i \in Nat
    BY <1>2, <2>1
  <2>4. i + k \in 1 .. Len(t) - 1 /\ (i + 1) + k <= Len(t)
    BY <1>1, <2>1, <2>2, <2>3
  <2>5. t[(i + 1) + k].role = "tool"
    BY <2>1, <2>3, <2>4 DEF Answered
  <2>6. sent[i + k] = t[(i + 1) + k]
    BY <1>2, <2>3, <2>4
  <2>. QED  BY <1>2, <2>4, <2>5, <2>6
<1>. HIDE DEF sent
<1>. QED  BY <1>3, SentIsTail DEF CallsAnswered, sent

-----------------------------------------------------------------------------
(* What a grade says of the clone it was given, whatever that clone is.     *)

(* The branch was renamed, or each side has commits the other lacks: local  *)
(* commits add what the injector recorded, and no more.                     *)
LEMMA LocalCommitsKept ==
    ASSUME NEW state, NEW r
    PROVE  /\ BranchCheck(r, BranchRecord(state)) =>
                  BranchClone(state).head.tree \ BranchClone(state).base \subseteq r.work
           /\ DivergedCheck(r, DivergedRecord(state)) =>
                  DivergedClone(state).head.tree \ DivergedClone(state).base \subseteq r.work
<1>1. BranchCheck(r, BranchRecord(state)) =>
          BranchClone(state).head.tree \ BranchClone(state).base \subseteq r.work
  <2>1. CASE state = "local_work"
    <3>1. /\ BranchClone(state).head.tree = BaseTree \cup {OurNote} /\ BranchClone(state).base = BaseTree
          /\ BranchRecord(state).kept = {OurNote}
      BY <2>1 DEF BranchClone, Clone, Tip, BranchRecord, Unrecorded
    <3>. QED  BY <3>1 DEF BranchCheck
  <2>2. CASE state # "local_work"
    <3>1. BranchClone(state).head.tree = BaseTree /\ BranchClone(state).base = BaseTree
      BY <2>2 DEF BranchClone, Clone, BaseTip, Tip
    <3>. QED  BY <3>1
  <2>. QED  BY <2>1, <2>2
<1>2. DivergedCheck(r, DivergedRecord(state)) =>
          DivergedClone(state).head.tree \ DivergedClone(state).base \subseteq r.work
  <2>1. /\ DivergedClone(state).head.tree = BaseTree \cup DivergedLines(state)
        /\ DivergedClone(state).base = BaseTree
        /\ DivergedRecord(state).kept = DivergedLines(state)
    BY DEF DivergedClone, Clone, Tip, DivergedRecord, Unrecorded
  <2>. QED  BY <2>1 DEF DivergedCheck
<1>. QED  BY <1>1, <1>2

(* The uncommitted edit is there, and the untracked file as it was or under *)
(* its name aside.                                                          *)
LEMMA UncommittedKept ==
    ASSUME NEW state, NEW other, NEW r, DirtyCheck(r, DirtyRecord(state, other)),
           NEW l \in DirtyClone(state, other).work \ DirtyClone(state, other).head.tree
    PROVE  l \in r.work \/ [l EXCEPT !.file = ASIDE(@)] \in r.work
<1>. DEFINE untracked == IF HasUntracked(state, other) THEN {Note(Scratch)} ELSE {}
<1>1. l \in {Work(state)} \cup untracked
  BY DEF DirtyClone, Clone, BaseTip, Tip
<1>2. DirtyRecord(state, other).kept = {Work(state)} /\ DirtyRecord(state, other).untracked = untracked
  BY DEF DirtyRecord, Unrecorded
<1>3. CASE l = Work(state)
  BY <1>2, <1>3 DEF DirtyCheck
<1>4. CASE l \in untracked
  <2>1. l = Note(Scratch) /\ untracked = {Note(Scratch)}
    BY <1>4
  <2>2. CASE Part(r.work, Scratch) = untracked
    BY <1>4, <2>2 DEF Part
  <2>3. CASE Part(r.work, ASIDE(Scratch)) = {Note(ASIDE(Scratch))}
    <3>1. [l EXCEPT !.file = ASIDE(@)] = Note(ASIDE(Scratch))
      BY <2>1 DEF Note, Line
    <3>. QED  BY <2>3, <3>1 DEF Part
  <2>. QED  BY <1>2, <2>1, <2>2, <2>3 DEF DirtyCheck
<1>. QED  BY <1>1, <1>3, <1>4

LEMMA FileOfLine ==
    ASSUME NEW l, NEW file, NEW at, NEW key, NEW value, l = Line(file, at, key, value)
    PROVE  l.file = file
  BY DEF Line

(* The machine's own settings are there, the renamed keys aside.            *)
LEMMA OverridesKept ==
    ASSUME NEW state, NEW pair \in RENAMES, NEW r, ConfigCheck(r, ConfigRecord(state, pair)),
           NEW l \in ConfigClone(state, pair).work, l.file = Local, l.key \notin OldNames
    PROVE  l \in r.work
<1>1. l \in BaseTree \cup TableLines \cup IgnoreLines \cup SettingsLines(state, pair)
            \cup LocalLines(state, pair)
  BY DEF ConfigClone, Clone, Tip
<1>2. \A m \in BaseTree \cup TableLines \cup IgnoreLines \cup SettingsLines(state, pair) : m.file # Local
  <2>1. ASSUME NEW m \in BaseTree  PROVE m.file # Local
    <3>1. m = Line(App, "body", "code", "") \/ m = Line(Readme, "body", "text", "")
      BY DEF BaseTree
    <3>2. m.file = App \/ m.file = Readme
      BY <3>1, FileOfLine
    <3>. QED  BY <3>2 DEF App, Readme, Local
  <2>2. ASSUME NEW m \in TableLines \cup IgnoreLines  PROVE m.file # Local
    <3>1. \/ \E any \in RENAMES : m = Line(Table, "body", any.old, any.new)
          \/ m = Line(Ignore, "body", Local, "")
      BY DEF TableLines, IgnoreLines, Sets
    <3>2. m.file = Table \/ m.file = Ignore
      BY <3>1, FileOfLine
    <3>. QED  BY <3>2 DEF Table, Ignore, Local
  <2>3. \A m \in SettingsLines(state, pair) : m.file = Settings
    <3>1. \A m \in Migrated : \E key, value : m = Line(Settings, "body", key, value)
      BY DEF Migrated, Sets
    <3>2. \A m \in SettingsLines(state, pair) :
              m \in Migrated \/ \E key, value : m = Line(Settings, "body", key, value)
      BY DEF SettingsLines, Sets
    <3>. QED  BY <3>1, <3>2, FileOfLine
  <2>. QED  BY <2>1, <2>2, <2>3 DEF Settings, Local
<1>3. l \in LocalLines(state, pair)
  BY <1>1, <1>2
<1>4. state = "local_override" /\ l \in {Sets(Local, pair.old, "old value"), LocalNote}
  BY <1>3 DEF LocalLines
<1>5. l = LocalNote
  <2>1. Sets(Local, pair.old, "old value").key = pair.old
    BY DEF Sets, Line
  <2>2. pair.old \in OldNames
    BY DEF OldNames
  <2>. QED  BY <1>4, <2>1, <2>2
<1>6. /\ ConfigRecord(state, pair).target = Local
      /\ ConfigRecord(state, pair).expected = {Sets(Local, pair.new, "old value"), LocalNote}
  BY <1>4 DEF ConfigRecord, Unrecorded
<1>. QED  BY <1>5, <1>6 DEF ConfigCheck, Part

(* Of the two keys a config rename has, one is drawn.                       *)
LEMMA PairIs == ASSUME NEW seed PROVE Pair(Other(seed)) \in RENAMES
<1>1. /\ \E pair \in RENAMES : pair.old = "cache"
      /\ \E pair \in RENAMES : pair.old # "cache"
  BY DEF RENAMES
<1>2. \E pair \in RENAMES : (pair.old = "cache") <=> Other(seed)
  <2>1. CASE Other(seed)
    BY <1>1, <2>1
  <2>2. CASE ~Other(seed)
    BY <1>1, <2>2
  <2>. QED  BY <2>1, <2>2
<1>. QED  BY <1>2 DEF Pair

(* A clone the fault's checker passes has every line that is the user's.    *)
LEMMA GradedKeeps ==
    ASSUME NEW b, NEW r, Graded(b.fault, b.seed, r), NEW l \in UsersLines(b)
    PROVE  l \in r.work \/ [l EXCEPT !.file = ASIDE(@)] \in r.work
<1>. DEFINE state == state_for_seed(b.fault, b.seed)
<1>0. BranchRenamed = 1 /\ ConfigRenamed = 2 /\ DirtyTree = 3 /\ Diverged = 4 /\ LockfileConflict = 5
  BY DEF BranchRenamed, ConfigRenamed, DirtyTree, Diverged, LockfileConflict
<1>1. CASE b.fault = BranchRenamed
  <2>1. CloneOf(b) = BranchClone(state) /\ Recorded(b.fault, b.seed) = BranchRecord(state)
    BY <1>0, <1>1 DEF CloneOf, InjectedClone, Recorded
  <2>2. BranchCheck(r, BranchRecord(state))
    BY <1>0, <1>1, <2>1 DEF Graded, check
  <2>3. l \in BranchClone(state).head.tree \ BranchClone(state).base
    BY <1>0, <1>1, <2>1 DEF UsersLines
  <2>. HIDE DEF state
  <2>. QED  BY <2>2, <2>3, LocalCommitsKept
<1>2. CASE b.fault = Diverged
  <2>1. CloneOf(b) = DivergedClone(state) /\ Recorded(b.fault, b.seed) = DivergedRecord(state)
    BY <1>0, <1>2 DEF CloneOf, InjectedClone, Recorded
  <2>2. DivergedCheck(r, DivergedRecord(state))
    BY <1>0, <1>2, <2>1 DEF Graded, check
  <2>3. l \in DivergedClone(state).head.tree \ DivergedClone(state).base
    BY <1>0, <1>2, <2>1 DEF UsersLines
  <2>. HIDE DEF state
  <2>. QED  BY <2>2, <2>3, LocalCommitsKept
<1>3. CASE b.fault = DirtyTree
  <2>. DEFINE other == Other(b.seed)
  <2>1. CloneOf(b) = DirtyClone(state, other) /\ Recorded(b.fault, b.seed) = DirtyRecord(state, other)
    BY <1>0, <1>3 DEF CloneOf, InjectedClone, Recorded
  <2>2. DirtyCheck(r, DirtyRecord(state, other))
    BY <1>0, <1>3, <2>1 DEF Graded, check
  <2>3. l \in DirtyClone(state, other).work \ DirtyClone(state, other).head.tree
    BY <1>0, <1>3, <2>1 DEF UsersLines
  <2>. HIDE DEF state, other
  <2>. QED  BY <2>2, <2>3, UncommittedKept
<1>4. CASE b.fault = ConfigRenamed
  <2>. DEFINE pair == Pair(Other(b.seed))
  <2>1. CloneOf(b) = ConfigClone(state, pair) /\ Recorded(b.fault, b.seed) = ConfigRecord(state, pair)
    BY <1>0, <1>4 DEF CloneOf, InjectedClone, Recorded
  <2>2. ConfigCheck(r, ConfigRecord(state, pair))
    BY <1>0, <1>4, <2>1 DEF Graded, check
  <2>3. l \in ConfigClone(state, pair).work /\ l.file = Local /\ l.key \notin OldNames
    BY <1>0, <1>4, <2>1 DEF UsersLines
  <2>4. pair \in RENAMES
    BY PairIs
  <2>. HIDE DEF state, pair
  <2>. QED  BY <2>2, <2>3, <2>4, OverridesKept
<1>. QED  BY <1>1, <1>2, <1>3, <1>4 DEF UsersLines

(* Only the grading of a solve changes the verdict on it.                   *)
LEMMA OnlyGradingGrades ==
    ASSUME RunsInv, [Next]_vars, NEW s \in Sessions, run'[s].graded # run[s].graded
    PROVE  GradeSolve(s)
<1>0. run \in [Sessions -> Runs]
  BY DEF RunsInv
<1>1. PICK at \in Sessions : SessionStep(at) \/ Crash(at)
  BY DEF Next, vars, learning
<1>2. CASE \/ Turn(at) \/ ToolCall(at)
           \/ \E b \in Injected : Open(at, b)
           \/ SolveRaised(at)
           \/ \E confirmed \in BOOLEAN : Confirm(at, confirmed)
           \/ \E phase \in {"compile", "failed", "stopped"} : SolveInOneStep(at, phase)
  BY <1>0, <1>2 DEF Turn, ToolCall, Open, SolveRaised, Confirm, SolveInOneStep, Goes, learning, Runs
<1>3. CASE (\E t \in Texts : Compile(at, t)) \/ (\E rejected \in BOOLEAN : CompileRaises(at, rejected))
  BY <1>0, <1>3 DEF Compile, CompileRaises, Goes, Runs
<1>4. CASE Unparsed(at)
  BY <1>0, <1>4 DEF Unparsed, Runs
<1>5. CASE Here(at) \/ GateLearned(at) \/ Crash(at) \/ WriteProgram(at) \/ SetAdmitted(at)
  BY <1>0, <1>5 DEF Here, GateLearned, Crash, WriteProgram, SetAdmitted, Goes, Runs
<1>6. CASE GateCompiled(at)
  BY <1>0, <1>6 DEF GateCompiled, Runs
<1>7. CASE AddCheck(at) \/ MakeDirectory(at)
  BY <1>0, <1>7 DEF AddCheck, MakeDirectory, Goes, Runs
<1>8. CASE GradeSolve(at)
  <2>1. PICK phase, graded : run' = [run EXCEPT ![at].phase = phase, ![at].graded = graded, ![at].attempt = 1]
    BY <1>8 DEF GradeSolve
  <2>2. at = s
    BY <1>0, <2>1 DEF Runs
  <2>. QED  BY <1>8, <2>2
<1>. QED  BY <1>1, <1>2, <1>3, <1>4, <1>5, <1>6, <1>7, <1>8 DEF SessionStep

-----------------------------------------------------------------------------
(* What an admitted program leaves where it fires.                          *)

(* A box that is a build of a family is the family's clone at its seed.     *)
LEMMA InjectedAre ==
    ASSUME NEW b \in Injected
    PROVE  /\ b.fault \in Faults /\ b.fault \in FAULTS /\ b.seed \in Seeds /\ b.seed \in Nat
           /\ b = [fault |-> b.fault, seed |-> b.seed]
           /\ CloneOf(b) = InjectedClone(b.fault, b.seed)
           /\ Declared[b.fault] = declared_variants[b.fault]
           /\ b \in Boxes
<1>1. b.fault \in Faults /\ b.seed \in Seeds /\ b = [fault |-> b.fault, seed |-> b.seed]
  BY DEF Injected
<1>2. b.fault \in FAULTS /\ b.seed \in Nat /\ Declared[b.fault] = declared_variants[b.fault]
  BY <1>1, GroundTruth, AdmissionAssumption
<1>3. b.fault # 0 /\ b.fault # -1
  BY <1>1, AdmissionAssumption
<1>4. CloneOf(b) = InjectedClone(b.fault, b.seed)
  BY <1>3 DEF CloneOf
<1>. QED  BY <1>1, <1>2, <1>4 DEF Boxes

LEMMA PassesIs ==
    ASSUME NEW b \in Injected, NEW v
    PROVE  Passes(b, v) <=> Resolves(b.fault, b.seed, v)
<1>1. CloneOf(b) = InjectedClone(b.fault, b.seed)
  BY InjectedAre
<1>. QED  BY <1>1, Zenon DEF Passes, Resolves, Fine

(* The rules' verdict on a build is the checker's.                          *)
LEMMA AcceptableAre ==
    ASSUME NEW b \in Injected
    PROVE  /\ Acceptable[b.fault][b] = {v \in Declared[b.fault] : Passes(b, v)}
           /\ Acceptable[b.fault][b] # {}
           /\ Claimed[b.fault][b.seed] \in Acceptable[b.fault][b]
<1>. DEFINE f == b.fault
            seed == b.seed
<1>1. f \in FAULTS /\ f \in Faults /\ seed \in Nat /\ seed \in Seeds
      /\ Declared[f] = declared_variants[f]
  BY InjectedAre
<1>2. /\ Acceptable[f][b] = acceptable_variants(f, observe(InjectedClone(f, seed)))
      /\ Claimed[f][seed] = variant_for_seed(f, seed)
  BY <1>1, GroundTruth
<1>3. Acceptable[f][b] = {v \in declared_variants[f] : Resolves(f, seed, v)}
  BY <1>1, <1>2, RulesAgreeWithChecker
<1>4. \A v : Passes(b, v) <=> Resolves(f, seed, v)
  BY PassesIs
<1>5. Acceptable[f][b] = {v \in Declared[f] : Passes(b, v)}
  BY <1>1, <1>3, <1>4
<1>6. Claimed[f][seed] \in declared_variants[f] /\ Resolves(f, seed, Claimed[f][seed])
  BY <1>1, <1>2, ClaimedResolves, CheckerPasses
<1>7. Claimed[f][seed] \in Acceptable[f][b]
  BY <1>3, <1>6
<1>. QED  BY <1>5, <1>7

(* Every state a family can be in has a seed the gate samples.              *)
LEMMA SampledToo ==
    ASSUME NEW b \in Injected
    PROVE  \E a \in Injected : /\ a.fault = b.fault /\ a.seed \in StateSeeds(b.fault)
                               /\ state_for_seed(b.fault, a.seed) = state_for_seed(b.fault, b.seed)
<1>. DEFINE f == b.fault
            T == {seed \in Seeds : StateOf[f][seed] = StateOf[f][b.seed]}
<1>1. f \in Faults /\ b.seed \in Seeds
  BY InjectedAre
<1>2. T \subseteq Nat /\ b.seed \in T
  BY <1>1, AdmissionAssumption
<1>3. PICK first \in T : \A seed \in T : first <= seed
  BY <1>2, Least
<1>4. first \in Seeds /\ StateOf[f][first] = StateOf[f][b.seed]
  OBVIOUS
<1>5. ASSUME NEW seed \in Seeds, seed < first PROVE StateOf[f][seed] # StateOf[f][first]
  <2>1. SUFFICES ASSUME StateOf[f][seed] = StateOf[f][first]  PROVE FALSE
    OBVIOUS
  <2>2. first <= seed
    BY <2>1, <1>3, <1>4
  <2>3. first \in Nat /\ seed \in Nat
    BY <1>2, AdmissionAssumption
  <2>. QED  BY <2>2, <2>3, <1>5
<1>6. first \in StateSeeds(f)
  BY <1>4, <1>5 DEF StateSeeds
<1>7. state_for_seed(f, first) = state_for_seed(f, b.seed)
  BY <1>1, <1>4, GroundTruth
<1>8. [fault |-> f, seed |-> first] \in Injected
  BY <1>1, <1>4 DEF Injected
<1>. QED  BY <1>6, <1>7, <1>8

(* A program that fires in one build of a state fires in every other.       *)
LEMMA HoldsAlike ==
    ASSUME NEW t \in Texts, NEW a \in Injected, NEW b \in Injected, a.fault = b.fault,
           state_for_seed(b.fault, a.seed) = state_for_seed(b.fault, b.seed),
           b \in AsMet[t].holds
    PROVE  a \in AsMet[t].holds
<1>. DEFINE r == CloneOf(b)
            q == CloneOf(a)
<1>1. /\ r = InjectedClone(b.fault, b.seed) /\ q = InjectedClone(b.fault, a.seed)
      /\ b.fault \in FAULTS /\ a.seed \in Nat /\ b.seed \in Nat
      /\ a \in Boxes /\ b \in Boxes
  BY InjectedAre
<1>. HIDE DEF r, q
<1>2. \A name \in PreconditionNames : Precondition(r, name) <=> Precondition(q, name)
  BY <1>1, OneSeedSpeaks
<1>3. t.pres \subseteq PreconditionNames /\ t.breaks \in {"never", "always"} \cup PreconditionNames
  BY GroundTruth DEF Text
<1>4. AsMet[t].holds = {c \in Boxes : HoldsAt(t, CloneOf(c))}
  BY DEF AsMet, Met1
<1>5. HoldsAt(t, r)
  BY <1>1, <1>4 DEF r
<1>6. BrokenAt(t, r) <=> BrokenAt(t, q)
  <2>1. CASE t.breaks = "never"
    BY <2>1 DEF BrokenAt
  <2>2. CASE t.breaks = "always"
    BY <2>2 DEF BrokenAt
  <2>3. CASE t.breaks \in PreconditionNames /\ t.breaks # "never" /\ t.breaks # "always"
    <3>1. /\ BrokenAt(t, r) <=> Precondition(r, t.breaks)
          /\ BrokenAt(t, q) <=> Precondition(q, t.breaks)
      BY <2>3 DEF BrokenAt
    <3>. QED  BY <2>3, <3>1, <1>2
  <2>. QED  BY <2>1, <2>2, <2>3, <1>3
<1>7. HoldsAt(t, q)
  BY <1>2, <1>3, <1>5, <1>6 DEF HoldsAt
<1>. QED  BY <1>1, <1>4, <1>7 DEF q

(* Where a sampled build of its own family is sound for a program that has  *)
(* a declared label, the label resolves the build.                          *)
LEMMA SoundResolves ==
    ASSUME NEW t \in Texts, NEW b \in Injected, b.fault = t.fault, b.seed \in StateSeeds(t.fault),
           t.variant \in Declared[t.fault], SoundAt(AsMet[t], t.fault, b)
    PROVE  t.variant \in Acceptable[t.fault][b]
<1>. DEFINE f == t.fault
<1>1. AsMet[t].variant = t.variant
  BY DEF AsMet, Met1
<1>2. /\ Claimed[f][b.seed] \in Acceptable[f][b] /\ Acceptable[f][b] # {}
      /\ Claimed[f][b.seed] \in Declared[f]
  <2>1. Claimed[b.fault][b.seed] \in Acceptable[b.fault][b]
        /\ Acceptable[b.fault][b] = {v \in Declared[b.fault] : Passes(b, v)}
    BY AcceptableAre
  <2>. QED  BY <2>1
<1>3. CASE b \in OwnStates(AsMet[t], f)
  <2>1. b \notin Siblings(AsMet[t], f)
    BY <1>3 DEF OwnStates
  <2>2. Claimed[f][b.seed] \notin Wanted(AsMet[t], f)
    BY <2>1 DEF Siblings
  <2>3. t.variant # None
    BY AdmissionAssumption, InjectedAre
  <2>4. Wanted(AsMet[t], f) = Declared[f] \ {t.variant}
    BY <1>1, <2>3 DEF Wanted
  <2>5. Claimed[f][b.seed] = t.variant
    BY <2>2, <2>4, <1>2
  <2>. QED  BY <2>5, <1>2
<1>4. CASE Right(AsMet[t], f, b)
  BY <1>1, <1>2, <1>4 DEF Right
<1>. QED  BY <1>3, <1>4 DEF SoundAt

(* A program admitted with a resolution's label on that resolution's body.  *)
LEMMA AdmittedPasses ==
    ASSUME NEW t \in Texts, t.fault \in Faults, NEW seed, t.body = t.variant,
           Verdict(AsMet[t], t.fault, seed, TRUE) = "admitted"
    PROVE  t \in PassesWhereItFires
<1>. DEFINE f == t.fault
            p == AsMet[t]
<1>. SUFFICES ASSUME NEW b \in Injected \cap p.holds, b.fault = f  PROVE Passes(b, t.body)
  BY DEF PassesWhereItFires
<1>1. FiresSoundly(p, f)
  BY AdmittedFiresSoundly
<1>2. t.variant \in Declared[f]
  <2>1. ~TextRefused(p, f)
    BY DEF Verdict
  <2>2. p.variant = t.variant
    BY DEF AsMet, Met1
  <2>3. Declared[f] # {}
    <3>1. Acceptable[f][b] # {} /\ Acceptable[f][b] \subseteq Declared[f]
      BY AcceptableAre
    <3>. QED  BY <3>1
  <2>. QED  BY <2>1, <2>2, <2>3 DEF TextRefused
<1>3. PICK a \in Injected : /\ a.fault = f /\ a.seed \in StateSeeds(f)
                            /\ state_for_seed(f, a.seed) = state_for_seed(f, b.seed)
  BY SampledToo
<1>4. a \in p.holds
  BY <1>3, HoldsAlike
<1>5. a \in SampledStates
  BY <1>3 DEF SampledStates
<1>6. SoundAt(p, f, a)
  BY <1>1, <1>4, <1>5 DEF FiresSoundly
<1>7. t.variant \in Acceptable[f][a]
  BY <1>2, <1>3, <1>6, SoundResolves
<1>8. Passes(a, t.variant) /\ t.variant \in declared_variants[f]
  BY <1>3, <1>7, <1>2, AcceptableAre, InjectedAre
<1>9. Resolves(f, a.seed, t.variant)
  BY <1>3, <1>8, PassesIs
<1>10. f \in FAULTS /\ a.seed \in Nat /\ b.seed \in Nat
  BY <1>3, InjectedAre
<1>11. Resolves(f, b.seed, t.variant)
  BY <1>3, <1>8, <1>9, <1>10, CheckerPasses
<1>. QED  BY <1>11, PassesIs

-----------------------------------------------------------------------------
(* The theorems.                                                            *)

(* Whatever models write, networks do and checkouts hold, and wherever a    *)
(* learner dies, every session is somewhere the code puts it, within the    *)
(* compiles, the turns and the names it has, and every name of the library  *)
(* holds nothing or a program under a status the code writes.               *)
THEOREM TypeCorrect == Spec => []TypeOK
<1>1. RunsInv /\ StoreInv /\ LoopsInv => TypeOK
  <2>. SUFFICES ASSUME RunsInv, StoreInv, LoopsInv  PROVE TypeOK
    OBVIOUS
  <2>1. ASSUME NEW s \in Sessions
        PROVE  /\ run[s].phase \in Ended \cup {"idle", "solve", "compile", "here", "gate", "add",
                                                "mkdir", "write", "status"}
               /\ run[s].task \in Injected \cup {NoTask} /\ run[s].graded \in BOOLEAN
               /\ run[s].text \in Texts \cup {NoText} /\ run[s].attempt \in 0 .. COMPILE_ATTEMPTS
               /\ run[s].told \subseteq Boxes /\ run[s].name \in 1 .. Names
    BY DEF RunsInv, Runs
  <2>2. \A s \in Sessions : loop[s].step \in 0 .. MaxSteps
    BY LoopIs
  <2>3. /\ dirs \subseteq 1 .. Names
        /\ \A n \in 1 .. Names : stored[n].text \in Texts \cup {NoText}
                                  /\ stored[n].status \in {None, "candidate", "admitted"}
    BY DEF StoreInv
  <2>. QED  BY <2>1, <2>2, <2>3 DEF TypeOK
<1>. QED  BY <1>1, RunsInvariance, LoopsInvariance, PTL

(* Whenever a session asks its provider, what it sends of its transcript    *)
(* answers every tool call it shows, right behind the turn that made it:    *)
(* however large the turns, and whichever budget ran out inside one.        *)
THEOREM ConversationIsValidHolds == Spec => []ConversationIsValid
<1>1. LoopsInv => ConversationIsValid
  <2>. SUFFICES ASSUME LoopsInv, NEW s \in Sessions, At(s, "ask")
                PROVE  CallsAnswered(ApiMessages(loop[s].transcript))
    BY DEF ConversationIsValid
  <2>1. /\ loop[s].transcript \in Seq(Entries)
        /\ Clear(loop[s].transcript) /\ Answered(loop[s].transcript, 0)
    BY LoopIs DEF LoopInv, At
  <2>. QED  BY <2>1, SentIsAnswered
<1>. QED  BY <1>1, LoopsInvariance, PTL

(* Whatever a model asks for and however the network fails, a solve runs no *)
(* more commands and counts no more completions than its budgets allow, is  *)
(* reminded once, is told once that it is out, and runs nothing after that. *)
THEOREM SolveIsBoundedHolds == Spec => []SolveIsBounded
<1>1. LoopsInv => SolveIsBounded
  <2>. SUFFICES ASSUME LoopsInv, NEW s \in Sessions
                PROVE  LET t == loop[s].transcript
                       IN  /\ ExecutedToolCalls(t) <= MaxToolCalls
                           /\ loop[s].calls <= MAX_RETRY_ATTEMPTS * (MaxSteps + 1)
                           /\ Cardinality(MarkedAt(t, "nudge")) <= 1
                           /\ Cardinality(MarkedAt(t, "last_word")) <= 1
                           /\ \A i \in MarkedAt(t, "last_word") : \A j \in DOMAIN t :
                                  j > i => t[j].role # "tool"
    BY DEF SolveIsBounded
  <2>. DEFINE t == loop[s].transcript
  <2>1. ASSUME NEW S, \A i, j \in S : i = j  PROVE Cardinality(S) <= 1
    <3>1. CASE S = {}
      BY <3>1, FS_EmptySet
    <3>2. CASE S # {}
      <4>1. PICK i \in S : S = {i}
        BY <2>1, <3>2
      <4>2. Cardinality({i}) = 1
        BY FS_Singleton
      <4>. QED  BY <4>1, <4>2
    <3>. QED  BY <3>1, <3>2
  <2>2. Reminded(t, loop[s].nudged, loop[s].spent) /\ Counts(loop[s])
        /\ ExecutedToolCalls(t) <= loop[s].executed
    BY LoopIs DEF LoopInv
  <2>3. Cardinality(MarkedAt(t, "nudge")) <= 1 /\ Cardinality(MarkedAt(t, "last_word")) <= 1
    BY <2>1, <2>2 DEF Reminded
  <2>4. ExecutedToolCalls(t) <= MaxToolCalls
    <3>1. ExecutedToolCalls(t) \in Nat
      <4>1. Entry("tool", 0, {}) \in Entries
        BY EntryIs DEF Roles
      <4>. QED  BY <4>1, LoopIs, ExecutedAppend
    <3>. QED  BY <2>2, <3>1, LoopIs
  <2>5. loop[s].calls <= MAX_RETRY_ATTEMPTS * (MaxSteps + 1)
    BY <2>2 DEF Counts, MAX_RETRY_ATTEMPTS
  <2>6. \A i \in MarkedAt(t, "last_word") : \A j \in DOMAIN t : j > i => t[j].role # "tool"
    BY <2>2 DEF Reminded
  <2>. QED  BY <2>3, <2>4, <2>5, <2>6
<1>. QED  BY <1>1, LoopsInvariance, PTL

(* A revision of a program that was refused for firing wrongly is shown     *)
(* every sampled state the program fires wrongly in, of its own family and  *)
(* of the others, and no state it may fire in: whatever the program, and    *)
(* whatever the gate's ground truth and its samples.                        *)
THEOREM RevisionSeesWrongFiresHolds == Spec => []RevisionSeesWrongFires
<1>1. RunsInv => RevisionSeesWrongFires
  <2>. SUFFICES ASSUME RunsInv, NEW s \in Sessions, Phase(s, "compile"), run[s].text # NoText,
                       GateVerdict[run[s].text][run[s].task.seed] = "wrong"
                PROVE  run[s].told = WronglyFiresIn[run[s].text]
    BY DEF RevisionSeesWrongFires
  <2>. DEFINE t == run[s].text
  <2>1. /\ run[s].task \in Injected /\ t \in Texts /\ t.fault \in Faults
        /\ run[s].told = ShownToRevision[t][run[s].task.seed]
    BY DEF RunsInv, RunInv, Phase
  <2>2. /\ ShownToRevision[t][run[s].task.seed] = Shown(AsMet[t], t.fault, run[s].task.seed)
        /\ Verdict(AsMet[t], t.fault, run[s].task.seed, TRUE) = "wrong"
    BY <2>1, BoxesAre DEF ShownToRevision, GateVerdict
  <2>3. WronglyFiresIn[t] = {b \in SampledStates \cap AsMet[t].holds : ~SoundAt(AsMet[t], t.fault, b)}
    BY <2>1 DEF WronglyFiresIn
  <2>. QED  BY <2>1, <2>2, <2>3, WrongIsAllWrong
<1>. QED  BY <1>1, RunsInvariance, PTL

(* However learners that share a library interleave, and wherever they die, *)
(* a learner that reported its program admitted has it stored as the gate   *)
(* passed it, under a name no other learner reported.                       *)
THEOREM NothingOverwrittenHolds == Spec => []NothingOverwritten
<1>1. StoreInv => NothingOverwritten
  BY DEF StoreInv, NothingOverwritten, Phase, Holds
<1>. QED  BY <1>1, RunsInvariance, PTL

(* A program the gate admitted, at one seed of its own, fires soundly over  *)
(* every state the gate samples, from the gate to the library: the half of  *)
(* SoundAdmission that does not depend on what particular bodies do.        *)
THEOREM FiresOnlySoundlyHolds == Spec => []FiresOnlySoundly
<1>1. RunsInv => FiresOnlySoundly
  <2>. SUFFICES ASSUME RunsInv, NEW s \in Sessions, Gated(s)  PROVE run[s].text \in Sound
    BY DEF FiresOnlySoundly
  <2>1. /\ run[s].text \in Texts /\ run[s].text.fault \in Faults
        /\ \E seed \in Seeds : GateVerdict[run[s].text][seed] = "admitted"
    BY DEF RunsInv, RunInv, Gated
  <2>. DEFINE t == run[s].text
  <2>2. PICK seed \in Seeds : GateVerdict[t][seed] = "admitted"
    BY <2>1
  <2>3. Verdict(AsMet[t], t.fault, seed, TRUE) = "admitted"
    BY <2>1, <2>2 DEF GateVerdict
  <2>4. FiresSoundly(AsMet[t], t.fault)
    BY <2>1, <2>3, AdmittedFiresSoundly
  <2>. QED  BY <2>1, <2>4 DEF Sound
<1>. QED  BY <1>1, RunsInvariance, PTL

(* In every state a session meets, whatever its seed, the resolutions the   *)
(* intent's rules accept are exactly those whose bodies run to their end    *)
(* and leave what the fault's checker passes.                               *)
THEOREM AcceptableIsWhatPassesHolds == Spec => []AcceptableIsWhatPasses
<1>1. RunsInv => AcceptableIsWhatPasses
  <2>. SUFFICES ASSUME RunsInv, NEW s \in Sessions, run[s].task # NoTask
                PROVE  Acceptable[run[s].task.fault][run[s].task] = Passing[run[s].task]
    BY DEF AcceptableIsWhatPasses
  <2>. DEFINE b == run[s].task
  <2>1. b \in Injected
    BY DEF RunsInv, Runs
  <2>2. Passing[b] = {v \in Declared[b.fault] : Passes(b, v)}
    BY <2>1 DEF Passing
  <2>. QED  BY <2>1, <2>2, AcceptableAre
<1>. QED  BY <1>1, RunsInvariance, PTL

(* A program the gate admitted, tested at one seed of its own and at one    *)
(* seed of each state, whose body is the resolution it is labelled with:    *)
(* the fault's checker passes what it leaves in every build of its family   *)
(* its preconditions hold in, the seeds the gate never built among them;    *)
(* and over all the gate samples it fires only where that is right.         *)
THEOREM SoundAdmissionHolds == Spec => []SoundAdmission
<1>1. RunsInv => PassesWhereGated
  <2>. SUFFICES ASSUME RunsInv, NEW s \in Sessions, Gated(s), run[s].text.body = run[s].text.variant
                PROVE  run[s].text \in PassesWhereItFires
    BY DEF PassesWhereGated
  <2>. DEFINE t == run[s].text
  <2>1. /\ t \in Texts /\ t.fault \in Faults
        /\ \E seed \in Seeds : GateVerdict[t][seed] = "admitted"
    BY DEF RunsInv, RunInv, Gated
  <2>2. PICK seed \in Seeds : GateVerdict[t][seed] = "admitted"
    BY <2>1
  <2>3. Verdict(AsMet[t], t.fault, seed, TRUE) = "admitted"
    BY <2>1, <2>2 DEF GateVerdict
  <2>. QED  BY <2>1, <2>3, AdmittedPasses
<1>2. Spec => []FiresOnlySoundly
  BY FiresOnlySoundlyHolds
<1>3. FiresOnlySoundly /\ PassesWhereGated => SoundAdmission
  BY DEF SoundAdmission
<1>. QED  BY <1>1, <1>2, <1>3, RunsInvariance, PTL

(* The checkers pass no clone that lost a line of the user's, whatever the  *)
(* agent's commands made of it; and nothing but a grading calls a solve     *)
(* right.                                                                   *)
THEOREM PassLosesNothingHolds == Spec => PassLosesNothing
<1>. DEFINE Kept == \A s \in Sessions :
                        run'[s].graded /\ ~run[s].graded =>
                            \A l \in UsersLines(run[s].task) :
                                l \in clone[s].work \/ [l EXCEPT !.file = ASIDE(@)] \in clone[s].work
<1>1. RunsInv /\ [Next]_vars => Kept
  <2>. SUFFICES ASSUME RunsInv, [Next]_vars, NEW s \in Sessions, run'[s].graded, ~run[s].graded,
                       NEW l \in UsersLines(run[s].task)
                PROVE  l \in clone[s].work \/ [l EXCEPT !.file = ASIDE(@)] \in clone[s].work
    OBVIOUS
  <2>1. run \in [Sessions -> Runs] /\ run[s] \in Runs
    BY DEF RunsInv
  <2>2. GradeSolve(s)
    <3>1. run'[s].graded # run[s].graded
      OBVIOUS
    <3>. QED  BY <3>1, OnlyGradingGrades
  <2>3. PICK phase : run' = [run EXCEPT
                                 ![s].phase = phase,
                                 ![s].graded = Graded(run[s].task.fault, run[s].task.seed, clone[s]),
                                 ![s].attempt = 1]
    BY <2>2 DEF GradeSolve
  <2>4. run'[s].graded = Graded(run[s].task.fault, run[s].task.seed, clone[s])
    BY <2>1, <2>3 DEF Runs
  <2>. QED  BY <2>4, GradedKeeps
<1>2. RunsInv /\ [Next]_vars => [Kept]_vars
  BY <1>1
<1>. HIDE DEF Kept
<1>3. Spec => [][Kept]_vars
  BY <1>2, RunsInvariance, PTL DEF Spec
<1>. QED  BY <1>3 DEF PassLosesNothing, Kept

=============================================================================
