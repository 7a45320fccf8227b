----------------------------- MODULE Learning -----------------------------
(***************************************************************************)
(* What comes of a solve.  A benchmark episode (bench/run.py) solves in a  *)
(* sandbox, is graded by the fault's checker, and a solved one is compiled *)
(* and gated, with one revision.  A learner (learn.py) solves on a copy of *)
(* a checkout, asks its user to confirm, compiles once, tries the program  *)
(* where it was learned, gates it, and stores it in a library it may share *)
(* with other learners, which take no lock.                                *)
(*                                                                         *)
(* The parts are composed here: the agent's tool calls act on the clone,   *)
(* the gate meets the program on every clone it samples, and admission is  *)
(* followed by the three writes that store a program.  Episodes and        *)
(* learners share nothing, so a behaviour has one group of either.          *)
(***************************************************************************)
EXTENDS AgentLoop, Admission, Resolutions

CONSTANTS
    Groups,         \* which sessions run beside each other
    Abridged,       \* the learners whose solve is taken in one step
    Tasks,          \* per session, the states it may be asked to resolve
    Texts,          \* the programs a model may write
    Names           \* how many names one base id may lead to

ASSUME LearningAssumption ==
    /\ IsFiniteSet(Sessions)
    /\ Names \in Nat
    /\ Names > Cardinality(Sessions \ Accounted)
    /\ Groups \subseteq SUBSET Sessions
    /\ Abridged \subseteq Sessions \ Accounted
    /\ \A s \in Sessions : Tasks[s] \subseteq Injected

Learners == Sessions \ Accounted

(* A program as it is written: for a fault, with a resolution's label, a    *)
(* resolution's body and some preconditions.  `breaks` names what a probe   *)
(* of it cannot be evaluated under: never, always, or where a probe would   *)
(* write; `unguarded` is a parameter of the body no precondition names.     *)
Text ==
    [fault : FAULTS, variant : Variants \cup {None}, body : Variants,
     pres : SUBSET PreconditionNames, breaks : {"never", "always"} \cup PreconditionNames,
     unguarded : BOOLEAN]

(* What the gate is told of a family comes from the family: its states, the *)
(* resolution each seed's build is labelled with, and its intent's rules on *)
(* what is observed of the build.                                           *)
ASSUME GroundTruth ==
    /\ Faults \subseteq FAULTS
    /\ Texts \subseteq Text
    /\ \A f \in Faults :
           /\ Declared[f] = declared_variants[f]
           /\ \A seed \in Seeds : /\ StateOf[f][seed] = state_for_seed(f, seed)
                                  /\ Claimed[f][seed] = variant_for_seed(f, seed)
           /\ \A b \in Injected :
                  LET s == observe(InjectedClone(b.fault, b.seed))
                  IN  /\ Label[f][b] = correct_variant(f, s)
                      /\ Acceptable[f][b] = acceptable_variants(f, s)

-----------------------------------------------------------------------------
(* The programs as the gate meets them.                                     *)

(* A mined merge nobody's program can express: a conflict in a source file. *)
RealClone ==
    Clone(BaseTree, Tip({"base", "ours"}, BaseTree \cup {Line(App, "top", "ours", "")}),
          Tip({"base", "theirs"}, BaseTree \cup {TheirTop}), {})

CloneOf(b) ==
    CASE b.fault = 0 -> Clone(BaseTree, BaseTip, BaseTip, {})
      [] b.fault = -1 -> RealClone
      [] OTHER -> InjectedClone(b.fault, b.seed)

BrokenAt(t, r) ==
    CASE t.breaks = "never" -> FALSE
      [] t.breaks = "always" -> TRUE
      [] OTHER -> Precondition(r, t.breaks)

HoldsAt(t, r) == ~BrokenAt(t, r) /\ \A name \in t.pres : Precondition(r, name)

(* replay: the body runs to its end and the postconditions hold.            *)
ReplaysAt(t, r) ==
    LET left == Body(t.fault, t.body, r)
    IN  left.ok /\ Postcondition(t.fault, t.body, left)

Met1(t) ==
    [variant |-> t.variant, empty |-> t.pres = {}, unguarded |-> t.unguarded,
     holds |-> {b \in Boxes : HoldsAt(t, CloneOf(b))},
     broken |-> {b \in Boxes : t.pres # {} /\ BrokenAt(t, CloneOf(b))},
     fixes |-> {b \in Boxes : b.fault = t.fault /\ ReplaysAt(t, CloneOf(b))}]

AsMet == [t \in Texts |-> Met1(t)]

GateVerdict == [t \in Texts |-> [seed \in Seeds |-> Verdict(AsMet[t], t.fault, seed, TRUE)]]

ShownToRevision == [t \in Texts |-> [seed \in Seeds |-> Shown(AsMet[t], t.fault, seed)]]

(* What the properties compare the gate with: the resolutions whose body    *)
(* the fault's checker passes in a state, the programs that fire soundly    *)
(* over what the gate samples, those the checker passes wherever they fire, *)
(* and where a program fires wrongly.                                       *)
Passes(b, v) ==
    LET left == Body(b.fault, v, CloneOf(b)) IN left.ok /\ Graded(b.fault, b.seed, left)

Passing == [b \in Injected |-> {v \in Declared[b.fault] : Passes(b, v)}]

Sound == {t \in Texts : FiresSoundly(AsMet[t], t.fault)}

PassesWhereItFires ==
    {t \in Texts : \A b \in Injected \cap AsMet[t].holds : b.fault = t.fault => Passes(b, t.body)}

WronglyFiresIn ==
    [t \in Texts |-> {b \in SampledStates \cap AsMet[t].holds : ~SoundAt(AsMet[t], t.fault, b)}]

-----------------------------------------------------------------------------

VARIABLES
    clone,      \* per session, the clone its agent works in
    run,        \* per session, how far it has got with what it solved
    dirs,       \* the names that have a directory in the learners' library
    stored      \* per name, the program.yaml written there and its status

learning == <<clone, run, dirs, stored>>
vars == <<loop, learning>>

NoText ==
    [fault |-> 0, variant |-> None, body |-> "", pres |-> {}, breaks |-> "never",
     unguarded |-> FALSE]

NoTask == [fault |-> 0, seed |-> 0]

NotStored == [text |-> NoText, status |-> None]

(* phase: where the session is.  graded: the checker's verdict on the       *)
(* solve.  text: the program compiled last.  attempt: which compile is next *)
(* or was the last.  told: the states a revision is shown.  name: the       *)
(* suffix of the id tried last.                                             *)
Idle == [phase |-> "idle", task |-> NoTask, graded |-> FALSE, text |-> NoText,
         attempt |-> 0, told |-> {}, name |-> 1]

Phase(s, phase) == run[s].phase = phase

Goes(s, phase) == run' = [run EXCEPT ![s].phase = phase]

Ended == {"absent", "failed", "refused", "admitted", "stopped", "dead"}

Init ==
    /\ LoopInit
    /\ \E active \in Groups :
           run = [s \in Sessions |-> IF s \in active THEN Idle ELSE [Idle EXCEPT !.phase = "absent"]]
    /\ clone = [s \in Sessions |-> CloneOf(NoTask)]
    /\ dirs = {}
    /\ stored = [n \in 1 .. Names |-> NotStored]

-----------------------------------------------------------------------------
(* The solve.                                                               *)

Open(s, b) ==
    /\ Phase(s, "idle")
    /\ b \in Tasks[s]
    /\ run' = [run EXCEPT ![s].phase = "solve", ![s].task = b]
    /\ clone' = [clone EXCEPT ![s] = CloneOf(b)]
    /\ UNCHANGED <<loop, dirs, stored>>

(* The turns of the loop; a tool call changes the clone.  A learner's copy  *)
(* is thrown away, so what its agent does to it is left out.                *)
Turn(s) ==
    /\ Phase(s, "solve")
    /\ s \notin Abridged
    /\ ThinkStep(s)
    /\ UNCHANGED learning

ToolCall(s) ==
    /\ Phase(s, "solve")
    /\ s \notin Abridged
    /\ RunCall(s)
    /\ IF s \in Accounted
       THEN \E c \in AgentMoves(run[s].task.fault, clone[s]) : clone' = [clone EXCEPT ![s] = c]
       ELSE UNCHANGED clone
    /\ UNCHANGED <<run, dirs, stored>>

(* The transcript has been read once the solve is over, and is let go.      *)
LetGo(s) == loop' = [loop EXCEPT ![s] = [Fresh EXCEPT !.pc = "done"]]

SolveRaised(s) ==
    /\ Phase(s, "solve") /\ At(s, "raised")
    /\ LetGo(s)
    /\ Goes(s, "stopped")
    /\ UNCHANGED <<clone, dirs, stored>>

(* _run_episode grades whatever the arm left and destroys the sandbox; a    *)
(* solve that declared itself done is compiled, right or wrong.             *)
GradeSolve(s) ==
    /\ Phase(s, "solve") /\ At(s, "returned")
    /\ s \in Accounted
    /\ LetGo(s)
    /\ run' = [run EXCEPT
                   ![s].phase = IF loop[s].outcome = "success" THEN "compile" ELSE "failed",
                   ![s].graded = Graded(run[s].task.fault, run[s].task.seed, clone[s]),
                   ![s].attempt = 1]
    /\ clone' = [clone EXCEPT ![s] = CloneOf(NoTask)]
    /\ UNCHANGED <<dirs, stored>>

(* learn goes on only with a solve that declared itself done and that the   *)
(* user confirms.                                                           *)
Confirm(s, confirmed) ==
    /\ Phase(s, "solve") /\ At(s, "returned")
    /\ s \in Learners
    /\ LetGo(s)
    /\ run' = [run EXCEPT
                   ![s].phase = IF loop[s].outcome = "success" /\ confirmed
                                THEN "compile" ELSE "failed",
                   ![s].attempt = 1]
    /\ UNCHANGED <<clone, dirs, stored>>

(* The solve and the confirmation of an abridged learner.                   *)
SolveInOneStep(s, phase) ==
    /\ Phase(s, "solve")
    /\ s \in Abridged
    /\ run' = [run EXCEPT ![s].phase = phase, ![s].attempt = 1]
    /\ UNCHANGED <<loop, clone, dirs, stored>>

-----------------------------------------------------------------------------
(* The compile.                                                             *)

COMPILE_ATTEMPTS == 2

Attempts(s) == IF s \in Accounted THEN COMPILE_ATTEMPTS ELSE 1

UnchangedButRun == UNCHANGED <<loop, clone, dirs, stored>>

(* A reply that is a program: an episode's goes to the gate, a learner's is *)
(* tried first where it was learned.                                        *)
Compile(s, t) ==
    /\ Phase(s, "compile")
    /\ t.fault = run[s].task.fault
    /\ run' = [run EXCEPT ![s].phase = IF s \in Accounted THEN "gate" ELSE "here", ![s].text = t]
    /\ UnchangedButRun

(* A reply that is none is asked for once more.  A revision that is none    *)
(* leaves the program it was to revise.  As a bug would have it: asked for  *)
(* for as long as there is no program.                                      *)
UnparsedAgain(s) ==
    /\ Phase(s, "compile")
    /\ run' = IF s \in Accounted /\ run[s].text = NoText
              THEN [run EXCEPT ![s].attempt = @ + 1]
              ELSE [run EXCEPT ![s].phase = IF run[s].text = NoText THEN "failed" ELSE "refused"]
    /\ UnchangedButRun

Unparsed(s) ==
    /\ Phase(s, "compile")
    /\ run' = IF run[s].attempt < Attempts(s)
              THEN [run EXCEPT ![s].attempt = @ + 1]
              ELSE [run EXCEPT ![s].phase = IF run[s].text = NoText THEN "failed" ELSE "refused"]
    /\ UnchangedButRun

(* The compile raises: an episode's row says so, and the first program      *)
(* stands; a rejected key stops the run, and any error stops a learner.     *)
CompileRaises(s, rejected) ==
    /\ Phase(s, "compile")
    /\ Goes(s, IF s \in Learners \/ rejected THEN "stopped"
               ELSE IF run[s].text = NoText THEN "failed" ELSE "refused")
    /\ UnchangedButRun

-----------------------------------------------------------------------------
(* The gate.                                                                *)

(* learn: the preconditions, then a replay, on a fresh copy of the checkout. *)
Here(s) ==
    /\ Phase(s, "here")
    /\ LET p == AsMet[run[s].text]
       IN  Goes(s, IF run[s].task \in p.holds \cap p.fixes THEN "gate" ELSE "stopped")
    /\ UnchangedButRun

(* admission_seed: the first harness seed of the program's resolution.      *)
SeedsOf(t) == {seed \in Seeds : t.variant # None /\ Claimed[t.fault][seed] = t.variant}

AdmissionSeed(t) == CHOOSE seed \in SeedsOf(t) : \A other \in SeedsOf(t) : seed <= other

GateLearned(s) ==
    LET t == run[s].text
    IN  /\ Phase(s, "gate")
        /\ s \in Learners
        /\ Goes(s, IF SeedsOf(t) # {} /\ GateVerdict[t][AdmissionSeed(t)] = "admitted"
                   THEN "add" ELSE "stopped")
        /\ UnchangedButRun

(* An episode's program is gated at the seed it was compiled at; refused    *)
(* once, it is revised, shown what it fired on.                             *)
GateCompiled(s) ==
    LET t == run[s].text
        seed == run[s].task.seed
    IN  /\ Phase(s, "gate")
        /\ s \in Accounted
        /\ run' = IF GateVerdict[t][seed] = "admitted"
                  THEN [run EXCEPT ![s].phase = "admitted"]
                  ELSE IF run[s].attempt < COMPILE_ATTEMPTS
                  THEN [run EXCEPT ![s].phase = "compile", ![s].attempt = @ + 1,
                                   ![s].told = ShownToRevision[t][seed]]
                  ELSE [run EXCEPT ![s].phase = "refused"]
        /\ UnchangedButRun

-----------------------------------------------------------------------------
(* _store: Library.add, renamed on a collision, and set_status.             *)

(* add looks for the name's program.yaml.  As a bug would have it: the name *)
(* that collided is tried again.                                            *)
SameNameAgain(s) ==
    /\ Phase(s, "add")
    /\ stored[run[s].name] = NotStored
    /\ Goes(s, "mkdir")
    /\ UnchangedButRun

AddCheck(s) ==
    /\ Phase(s, "add")
    /\ IF stored[run[s].name] = NotStored THEN Goes(s, "mkdir")
       ELSE run[s].name < Names /\ run' = [run EXCEPT ![s].name = @ + 1]
    /\ UnchangedButRun

(* mkdir raises where the directory is there already, which is no collision *)
(* of ids: the learner ends.  As a bug would have it: any directory will    *)
(* do.                                                                      *)
AnyDirectory(s) ==
    /\ Phase(s, "mkdir")
    /\ Goes(s, "write")
    /\ dirs' = dirs \cup {run[s].name}
    /\ UNCHANGED <<loop, clone, stored>>

MakeDirectory(s) ==
    /\ Phase(s, "mkdir")
    /\ IF run[s].name \in dirs THEN Goes(s, "stopped") /\ UNCHANGED dirs
       ELSE Goes(s, "write") /\ dirs' = dirs \cup {run[s].name}
    /\ UNCHANGED <<loop, clone, stored>>

WriteProgram(s) ==
    /\ Phase(s, "write")
    /\ stored' = [stored EXCEPT ![run[s].name] = [text |-> run[s].text, status |-> "candidate"]]
    /\ Goes(s, "status")
    /\ UNCHANGED <<loop, clone, dirs>>

SetAdmitted(s) ==
    /\ Phase(s, "status")
    /\ stored' = [stored EXCEPT ![run[s].name].status = "admitted"]
    /\ Goes(s, "admitted")
    /\ UNCHANGED <<loop, clone, dirs>>

(* The process dies between two of these steps.                             *)
Crash(s) ==
    /\ run[s].phase \in {"add", "mkdir", "write", "status"}
    /\ Goes(s, "dead")
    /\ UnchangedButRun

-----------------------------------------------------------------------------

SessionStep(s) ==
    /\ run[s].phase \notin Ended
    /\ \/ \E b \in Injected : Open(s, b)
       \/ Turn(s)
       \/ ToolCall(s)
       \/ SolveRaised(s)
       \/ GradeSolve(s)
       \/ \E confirmed \in BOOLEAN : Confirm(s, confirmed)
       \/ \E phase \in {"compile", "failed", "stopped"} : SolveInOneStep(s, phase)
       \/ \E t \in Texts : Compile(s, t)
       \/ Unparsed(s)
       \/ \E rejected \in BOOLEAN : CompileRaises(s, rejected)
       \/ Here(s)
       \/ GateLearned(s)
       \/ GateCompiled(s)
       \/ AddCheck(s)
       \/ MakeDirectory(s)
       \/ WriteProgram(s)
       \/ SetAdmitted(s)

Next == \E s \in Sessions : SessionStep(s) \/ Crash(s)

Spec == Init /\ [][Next]_vars

(* The provider answers or fails, within its own timeout, a tool call ends  *)
(* within its own, and the rest of a session is its own code: as long as a  *)
(* session can go on, some session does.                                    *)
FairSpec == Spec /\ WF_vars(\E s \in Sessions : SessionStep(s))

-----------------------------------------------------------------------------
(* Properties.                                                              *)

(* Every session is somewhere, within the attempts and names it has.        *)
TypeOK ==
    /\ \A s \in Sessions :
           /\ run[s].phase \in Ended \cup {"idle", "solve", "compile", "here", "gate", "add",
                                            "mkdir", "write", "status"}
           /\ run[s].task \in Injected \cup {NoTask}
           /\ run[s].graded \in BOOLEAN
           /\ run[s].text \in Texts \cup {NoText}
           /\ run[s].attempt \in 0 .. COMPILE_ATTEMPTS
           /\ run[s].told \subseteq Boxes
           /\ run[s].name \in 1 .. Names
           /\ loop[s].step \in 0 .. MaxSteps
    /\ dirs \subseteq 1 .. Names
    /\ \A n \in 1 .. Names :
           /\ stored[n].text \in Texts \cup {NoText}
           /\ stored[n].status \in {None, "candidate", "admitted"}

(* Whenever the provider is asked, the transcript it is sent is a valid     *)
(* conversation (react.py:229): each tool call a turn carries has its       *)
(* answer, right behind the turn and before anything else, whichever budget *)
(* ran out in the middle of it.                                             *)
CallsAnswered(t) ==
    \A i \in DOMAIN t : \A k \in 1 .. t[i].calls :
        i + k \in DOMAIN t /\ t[i + k].role = "tool"

ConversationIsValid ==
    \A s \in Sessions : At(s, "ask") => CallsAnswered(ApiMessages(loop[s].transcript))

(* A solve is bounded whatever the model and the network do: commands by    *)
(* their budget, and completions counted on an episode by the attempts of   *)
(* each turn and of the last word; the agent is reminded once, told it is   *)
(* out once, and no command runs after that.                                *)
MarkedAt(t, mark) == {i \in DOMAIN t : t[i].role = "user" /\ mark \in t[i].marks}

SolveIsBounded ==
    \A s \in Sessions :
        LET t == loop[s].transcript
        IN  /\ ExecutedToolCalls(t) <= MaxToolCalls
            /\ loop[s].calls <= MAX_RETRY_ATTEMPTS * (MaxSteps + 1)
            /\ Cardinality(MarkedAt(t, "nudge")) <= 1
            /\ Cardinality(MarkedAt(t, "last_word")) <= 1
            /\ \A i \in MarkedAt(t, "last_word") : \A j \in DOMAIN t :
                   j > i => t[j].role # "tool"

(* Whatever commands the agent ran and in whatever order, a solve graded as *)
(* right has lost nothing of the user's: every line the clone held that is  *)
(* not in any commit, and every line of a local commit, is still in the     *)
(* working tree or, a file that was in upstream's way, under its name       *)
(* aside.  Keys a rename replaces and packages a side removed are not       *)
(* counted: removing them is the task.                                      *)
UsersLines(b) ==
    LET r == CloneOf(b)
    IN  CASE b.fault \in {BranchRenamed, Diverged} -> r.head.tree \ r.base
          [] b.fault = DirtyTree -> r.work \ r.head.tree
          [] b.fault = ConfigRenamed -> {l \in r.work : l.file = Local /\ l.key \notin OldNames}
          [] OTHER -> {}

PassLosesNothing ==
    [][\A s \in Sessions :
          run'[s].graded /\ ~run[s].graded =>
              \A l \in UsersLines(run[s].task) :
                  l \in clone[s].work \/ [l EXCEPT !.file = ASIDE(@)] \in clone[s].work]_vars

(* The two halves of the benchmark's ground truth agree in every state a    *)
(* session meets: a resolution is acceptable by the intent's rules, which   *)
(* read the observed state, exactly when the fault's checker, which reads   *)
(* what the injector recorded, passes what that resolution's body leaves.   *)
AcceptableIsWhatPasses ==
    \A s \in Sessions : LET b == run[s].task IN b # NoTask => Acceptable[b.fault][b] = Passing[b]

(* A program the gate admitted, tested at one seed of its own, fires soundly*)
(* over every state the gate samples; and where its body is the resolution  *)
(* it is labelled with, what it leaves passes the fault's own checker in    *)
(* every state of its family it fires in, which the gate never ran.         *)
Gated(s) == run[s].phase \in {"add", "mkdir", "write", "status", "admitted"}

FiresOnlySoundly == \A s \in Sessions : Gated(s) => run[s].text \in Sound

PassesWhereGated ==
    \A s \in Sessions :
        LET t == run[s].text IN Gated(s) /\ t.body = t.variant => t \in PassesWhereItFires

SoundAdmission == FiresOnlySoundly /\ PassesWhereGated

(* A program refused for firing wrongly is revised from all the evidence:   *)
(* every sampled state it fires wrongly in, of its own family and of the    *)
(* others, is shown to the revision, and no state that it may fire in.      *)
RevisionSeesWrongFires ==
    \A s \in Sessions :
        LET t == run[s].text
        IN  /\ Phase(s, "compile") /\ t # NoText
            /\ GateVerdict[t][run[s].task.seed] = "wrong"
            => run[s].told = WronglyFiresIn[t]

(* However learners that share a library interleave, and wherever one dies, *)
(* a learner that reported its program admitted has it stored as it was     *)
(* gated, under a name no other learner reported.                           *)
NothingOverwritten ==
    \A s \in Learners : Phase(s, "admitted") =>
        /\ stored[run[s].name] = [text |-> run[s].text, status |-> "admitted"]
        /\ \A other \in Learners \ {s} :
               Phase(other, "admitted") => run[other].name # run[s].name

(* Every session ends: no chain of retries, revisions and renames goes on.  *)
EverySessionEnds == <>(\A s \in Sessions : run[s].phase \in Ended)

=============================================================================
