# A verification of precondition-library

TLA+ models of `precondition-library`: state machines of everything in it that keeps
state, operators for what it computes, the TLC runs that check both on small
instances, and TLAPS proofs of what holds for every instance. Paths below are
relative to the repository; `pl/` stands for `src/precondition_library/`.

## The system

The repository compiles an agent's solution of a git task into a *program* (a
body with executable preconditions and postconditions), keeps programs in a
library, and measures how well different *arms* choose which stored program to
replay on a later occurrence.

| component | state it keeps | operations | interacts with |
|---|---|---|---|
| program library, `pl/library.py`, `pl/program.py` | a directory per program: `program.yaml`, `history.jsonl` | add, set_status, record_mismatch, record_revision, quarantine_undeclared, load, match | everyone below reads or writes it through these |
| frozen-library build, `pl/bench/build_library.py` | two library roots, build ledger, progress file, manifests | plan walk, commit, resume | runs one runner episode per plan entry in a scratch library |
| benchmark runner, `pl/bench/run.py` | the ledger, a library per arm or one frozen library | run_benchmark, run_episode | dispatches, replays, solves, compiles, writes the library |
| episode ledger, `pl/bench/ledger.py` | one JSON line per episode | append, read | runner and build append, reports read |
| live run, `pl/bench/live.py` | a run directory with a file per stage | build, pair level, frozen arms, factorial, online arms, summary; resume | build, runner, analyses |
| checkout dispatch, `pl/dispatch.py`, `pl/checkout.py` | a person's checkout, disposable copies of it | probe, confirm, dry run, replay | library, replay runtime |
| learning on a checkout, `pl/learn.py` | the person's library | solve a copy, confirm, compile, admit, store | agent loop, gate, library |
| agent loop, `pl/agents/react.py`, `memory.py` | transcript, step and command budgets | solve, last word | provider, sandbox |
| compile and admission, `pl/agents/compile.py` | none between calls | compile_program, admit | provider, sandboxes, replay |
| matchers, `pl/agents/dispatch.py`, `pl/similarity.py`, `pl/intent_key.py` | none | rank and choose | library, probes |
| replay runtime, `pl/runtime/` | none between calls | replay, screen, confine, probe | sandbox |
| sandboxes and faults, `pl/sandbox.py`, `pl/tasks/` | git repositories | build, check | everyone |
| pair-level analyses and reports, `pl/bench/coverage.py`, `library_pairs.py`, `report.py` and others | none | sweep, floor, hybrid, tables, curves | the libraries, the ledgers |
| real-merge and lock-file studies, `pl/bench/population.py`, `refusal_study.py`, `real_merges.py`, `lock_actions.py` and others | a population's record, a study's parts per repository | build a population, mine, label, decide, test | live runs, public histories |

What is hard in it: hardly anything here runs in threads, but almost everything
writes files, is killed in the middle of it (live runs take hours in containers
that restart), and is started again on what it left; a program's life is
written by several operations called at different moments of an episode; an
episode can fail at every step after it has already changed the library; a
person's checkout changes under the program that is being tried on it; two
learners may share one library without a lock; and the ground truth everything
is measured against comes in two halves written apart. `PROJECT.json` lists each
such hazard at its line with the properties that would catch it.

What makes each component correct:

- **library**: a status only moves forward; a withdrawn program never dispatches
  again; two misfires withdraw, and a withdrawal a death cut off is made by the
  next; the history explains the file; no finished
  operation leaves an unreadable file.
- **build**: the frozen library is exactly what the build reports, in the order
  an uninterrupted build would have produced, however often it is killed; what
  was spent is on disk before an episode counts; a resumed build finishes.
- **runner**: rows and library count the same misfires; a program found wrong
  never fires again; a runtime mishap withdraws nothing; the row, the stored
  program, its status and its revision record come from the same compile.
- **live run**: no stage that calls a model is stitched from two processes; no
  resume costs a measurement; a summary stands for a whole run of its plan; a
  kill before the measurements stops nothing.
- **checkout dispatch**: nothing but the program that was tried and confirmed
  runs on the checkout, and it was tried on the state that was read first, as far
  as a comparison of contents can tell.
- **learning**: what is stored is what passed the gate, under a name of its own,
  however learners interleave and die; every session ends.
- **agent loop**: every request is a valid conversation; the budgets hold, the
  last word comes once, every attempt is counted once.
- **gate**: a program it admits fires soundly wherever the gate samples, and does
  its task in every state of its family it fires in, most of which the gate never
  ran it on; the revision is told of every wrong fire.
- **faults and intents**: a resolution the intent accepts is one the checker
  passes, and no solve that passes threw the user's work away.
- **matchers and analyses**: what the docstrings promise of the operators: the
  sweep misses no operating point, the learned floor is the best one, the lazy
  evaluation decides what the whole one does, invalid rows move no table.
- **population**: every place of the study is held by a build that finished or
  that used its runs and was replaced; running it again settles it.
- **study**: a case is scored by the decision made on its own state.

## The modules

| module | models | main correspondence |
|---|---|---|
| `LibraryStatus` | the lifecycle table of `library.py` | `Transitions` is `_TRANSITIONS`; `Rank` is the order its moves follow |
| `DispatchPool` | what the library promises a dispatcher (abstract) | `Appear`, `Admit`, `Withdraw` |
| `ProgramLibrary` | `library.py` | one action per operation's decision (`Add`, `SetStatus`, `RecordMismatch`, `RecordRevision`, `Sweep`...) and one per file write (`MakeDirectory`, `Truncate`, `Write`, `AppendHistory`), `Crash` between any two |
| `ProgramLibrary_proofs` | -- | the theorems about `ProgramLibrary` |
| `BuildPlan` | one uninterrupted build (abstract) | `Due` is the order of the loops of `build_library` |
| `BuildLibrary` | `build_library.py` with resume | one action per write of an episode, `Crash`, `Resume`, `Clean` |
| `EpisodeRunner` | `run.py`: `run_episode` and what it calls | one action per step of an episode: `Dispatch`, `Replay`, `Solve`, `Grade`, `CompileFails`, `CompileParses`, `Store`, `RecordMismatch`, `AppendRow` |
| `LiveRun` | `live.py` with resume, the loops of `run.py` it drives | one action per write of a stage: `WritePlan`, `BuildEpisode`, `MeasurePairs`, `OpenReplicate`, `RunEpisode`, `AppendRow`, `FinishStage`...; `Kill`, `KillInWrite`, `Resume` |
| `CheckoutDispatch` | `dispatch.py` and `checkout.py` | one action per step of `run_dispatch`: `Open`, `Take`, `CopyToProbe`, `Probe`, `ProbeWrites`, `Report`, `CopyToTry`, `DryRun`, `Confirm`, `Compare`, `Replay`; `Edit` is the person |
| `CheckoutDispatch_proofs` | -- | the theorems about `CheckoutDispatch` |
| `BuildLibrary_proofs`, `EpisodeRunner_proofs`, `LiveRun_proofs`, `Population_proofs`, `Learning_proofs` | -- | the theorems about those modules |
| `AgentLoop` | `react.py`: `solve`, and the accounting provider of `run.py` | `BeginTurn`, `Retry`, `AskFails`, `PlainReply`, `ReplyWithCalls`, `RunCall`, `DropCalls`, `EndOfCalls`, `LastReply`...; any number of sessions |
| `Repository` | the clone, as far as git's outcome depends on it (external) | the git commands the code uses, over trees of lines |
| `Faults` | `tasks/faults/*`: six families | each injector's state and record, each checker |
| `Intents` | `signatures.py`, `tasks/intent.py` | `observe`, `correct_variant`, `acceptable_variants` |
| `Resolutions` | `bench/gold/*.yaml` and the bodies a model may write | per resolution the body and its preconditions |
| `Resolutions_proofs` | -- | theorems about the six families: what passes, what the rules accept, what a precondition can tell apart |
| `Admission` | `agents/compile.py`: `admit` | the gate as a function of what it can observe of a program |
| `Learning` | `learn.py`, and from the solve to the verdict of `run.py` | composes `AgentLoop`, `Faults`, `Intents`, `Resolutions` and `Admission` with the writes of a store |
| `Matchers` | the matchers of `library.py`, `similarity.py`, `intent_key.py`, the choice in `agents/dispatch.py` | operators over a library |
| `Screens` | `guard.py`, `command_screen.py`, the environments of `sandbox.py`, `confine.py` | operators over tokenised statements |
| `Replay` | `runtime/replay.py`, `templates.py`, `probes.py` | binding, screening and judging; a program's replay with its ending |
| `PairAnalysis`, `LibraryPairs`, `Report` | the pair-level analyses, and `report.py` over a ledger | one operator per table or curve |
| `LockFiles`, `RealMerges`, `Studies` | the lock-file actions, the mined merges, the statistics and decisions of both studies | one operator per function |
| `Population` | `population.py` with restarts | `Start`, `Take`, `GiveUp`, `Finish`, `Fail`, `Launch`, `Return`, `End`; `Kill`, `KillInSave`, and `OrphanEnds` for a live run that outlived its population |
| `Study` | `refusal_study.evaluate` with restarts | `ReadPart`, `MinePart`, `Decide`, `Exclude`, `WritePart`, `Report`; `Kill`, `KillInWrite` |
| `MC...` | -- | the instances TLC checks; `MCProgramLibrary`, `MCPairs`, `MCReportTables`, `MCCommands` and `MCStudies` hold the instances of the operator modules |

How the state corresponds:

- `ProgramLibrary`: `dirs`, `stored`, `torn` are the directories, the status in
  each `program.yaml` and whether the file is truncated; `moves`, `mismatches`,
  `revised` are what `history.jsonl` holds; `pc` and `job` are the operation
  under way. `cut`, `owed` and `byHand` are history variables: programs a crash
  interrupted, those it kept from the withdrawal their last counted mismatch
  called for, programs written past `add`. `View` is the load-time variant
  check, applied in memory only.
- `BuildLibrary`: `progress`, `rows`, `stored`, `manifests` are the files, with
  `progressTorn` and `rowsTorn` for a last line that is only half written; `g`,
  `k`, `occurrence`, `built` are the loop variables of `build_library`.
  `appended` is a history variable, `crashes` counts towards `MaxCrashes`. A
  program's id is its occurrence and a slug the model proposes anew on a rerun.
  The two roots may get different programs of one episode: `InRoot` is a
  progress entry's `programs` for the two-sided root and its `ungated`, the id of
  `Library.first_compile`, for the positive-only one. `Drafts` are the slugs of the
  two, which differ when a revision was stored under a name of its own, and `Kept`
  is read per root.
- `EpisodeRunner`: the library is kept as `status`, `variant`, `mismatches`,
  which compile is stored (`compiled`) and which one its revision event keeps
  (`refusedFirst`); the ledger as the rows appended (`done`) and the misfires
  they hold (`misfires`); everything else is local to the episode, as it is in
  `run_episode`. `missed` is a history variable. Which
  admitted program a matcher picks is left open, so the properties hold for all
  of them. What a replay, a solve, a compile or the checker returns is
  nondeterministic.

- `LiveRun`: `files` are the names in the run directory and `half` those a kill
  cut off, since which names exist is all `_check_resumable` looks at;
  `recorded` is what `plan.json` holds, `committed` the gates' verdicts on the
  build's episodes, `rows` the stages' ledgers. The build's ledger,
  transcripts, progress and two libraries are one name, `"build"`. `replicate`
  and `episode` are the loop variables of `run_replicates` and `run_benchmark`.
  The process number on a row and `kills` are history variables.
- `CheckoutDispatch`: `work` is the checkout, `mirror` each dispatch's
  `upstream-mirror.git`, `copy` the snapshot it works on; `taken`, `accepted`
  and `fires` are the variables of `run_dispatch` and `_dispatch`. A content is
  the sequence of changes that led to it; a change adds one or takes the last ones
  back (`Outcomes`), so a content may recur and a comparison that sees equal
  contents lets the replay through. `tried`, `putBack` and `edits` are history
  variables; `putBack[d]` is that something was taken back since `d` read its
  state.

- `AgentLoop` and `Learning`: `loop[s]` is the local state of one `solve` (step,
  calls, transcript), `run[s]` that of the session around it (phase, task, text,
  attempt, what the revision was told, name), `clone[s]` its clone; `dirs` and
  `stored` are the shared library. A transcript entry keeps its role, how many
  tool calls it carries and what it is marked as. A tree is a set of lines, a
  commit a tree and a name; the commands are those the injectors, gold bodies and
  checkers use.
- `Population`: `status`, `runs`, `replaces` are the record, `torn` that a kill left
  half of it, `refusal` the builds whose log's tail still shows a refused account;
  `at` is what each worker is at and `live` who waits for a live run. `orphans` are
  live runs that survived their population.
- `Study`: `written` and `contents` are the parts on disk, `parts` and `doing` the
  process's, `result` what the report was made of.

Operators ending in a bug (`SkipSilently`, `CountTimeouts`, ...) stand beside
the definition they alter. No specification uses them: each is swapped in to
see that a property notices.

## The runs

| run | instance | result |
|---|---|---|
| `program_library` | 2 programs, one of them undeclared, up to 3 mismatches each, any number of crashes | all properties hold |
| `build_resume` | 2 resolutions, the first with a fallback seed, 2 slugs, a program perhaps revised under the other slug, up to 2 kills between writes | all hold, with liveness |
| `episodes` | 3 occurrences, 2 variants, online and frozen, the three kinds of arm | all hold |
| `build_torn_ledger` | the same build, 1 kill, in the middle of an append | `RowsKept` violated |
| `unbound_counts` | 2 occurrences | `OnlyFinishedBodiesCount` violated |
| `live_run` | the six plans of `main`'s options with 1 or 2 replicates, 2 build episodes, 2 episodes a replicate, up to 2 kills | all hold, with liveness |
| `ungated_empty` | the same plans, 1 build episode, 1 episode, no kill | `MeasuredLibraryAdmitted` violated |
| `checkout_dispatch` | 2 dispatches, 2 programs, the more specific one pushes, 2 edits or fetches, any change may take earlier ones back | all hold |
| `pushed_dry_run` | 1 such dispatch, nobody edits | `RefusedOnlyIfChanged` violated |
| `learning` | one episode over every state of six families with gold and 15 flawed programs; a learner followed turn by turn (2 turns, 2 commands); two learners on one library, either may die | all hold, with liveness |
| `population` | 2 builds, 1 replacement, 2 workers, 2 runs a build, 1 kill, any end of a live run | all hold, with liveness |
| `study_index` | 2 repositories, 4 cases, any of whose states may not build, 1 kill | `DecidedOnItsOwnState` violated |

The pure modules are checked by named assumptions of the MC modules, which TLC
evaluates at the start of the run whose module extends them:

| operators | instance | evaluated by | what is shown |
|---|---|---|---|
| `Matchers` | every library of 2 programs and of 3 of one resolution over 2 predicates, every environment | `program_library` | a soft vote that needs every probe is arm 3 in arm 3's order; nothing but admitted programs fires; the most specific accepted program does; the intent key abstains on disagreement; a reranker only narrows |
| `Replay`, `Screens` | texts of up to 3 names, programs of up to 2 steps, bodies of up to 3 statements, git commands of up to 4 words | `episodes` | every replay ends in one of the ways `EpisodeRunner` takes, and conversely; a cached probe file is never stale; a refusal stays whatever is appended; a body that reads no variable is allowed iff each line is; nothing of the caller's environment gets through |
| `PairAnalysis`, `LibraryPairs` | experiments of 1 and of 3 pairs, libraries of up to 2 programs, every ranking | `checkout_dispatch` | the sweep, the floor, the matched comparison; the hybrid spans both arms; stopping early decides the same; the reports count what Figure 1 counts |
| `Report` | every ledger of up to 4 rows, 3 arms, 2 occurrences, and one more row | `live_run` | matched on n; invalid rows move no rate; break-even is not moved by later rows; a refused factorial stays refused |
| `LockFiles`, `RealMerges`, `Studies` | 3 package sets, a history of 3 merges, lock files of 2 lines, 2 dispatchers on 3 cases of 2 repositories | `population` | unifying, merging, labels, the exchange of the sides; the test counts the registered difference; decisions follow from intervals |

**Bounds.** Two programs are enough for `program_library` because no operation
touches two programs; the second one, undeclared, gives the sweep something to
do beside an operation on the other. `MismatchBound = 3` reaches the mismatch
after the cap, where `>=` repairs an interrupted withdrawal. In the build, two
kills reach a kill during the resumption of a first; three seeds in two groups
reach a fallback that is skipped, one that runs, and a group after a closed
one; two slugs let a rerun name its program differently and a revision have another
name than its first compile. Three episodes are
the shortest run in which a program is compiled, misfires and misfires again.
In `live_run` two kills reach a kill during a resume, two build episodes a
build that is resumed half-way, two episodes a stage that is cut off between
its rows, and two replicates the stage directories that stand for ledgers. In
`checkout_dispatch` two dispatches reach one's replay falling between any two
steps of the other, two programs the probe that spoils the copy for the next,
and two edits one that is there for the copies and put back before the comparison,
at every place where the person may interfere. In `learning` the
tasks are every state the injectors draw (three per family, and dirty_tree's
with an untracked file beside it), two turns of up to two calls reach a budget
that runs out within a turn, and four names are one more than two learners that
collide, one of which died, can ask for. Sessions that share nothing are not
interleaved: `MCGroups` has one group of them per behaviour. In `population` one
replacement is what two failed builds compete for, and two runs a build are the
first and one resume.
`COMPILE_ATTEMPTS` and `MISMATCHES_BEFORE_QUARANTINE` have the code's values.

**Deadlock** is not checked: a library whose every file is torn, a finished
build, a finished, stopped or no longer resumable run, a dispatch that has
answered, sessions that ended and a settled population have nothing left to do.

**Fairness.** `BuildLibrary`, `LiveRun`, `Learning` and `Population` need some.
`FairSpec` asks of the first two that the process runs on and that an interrupted
run is resumed (weak fairness of `Step \/ Resume` in `BuildLibrary`, where at most
one of them is possible in any state; of each in `LiveRun`); the first is the
scheduler's, the second the operator's, whom `--resume` is for. With
a bounded number of kills `EventuallyBuilt` says a resumed build is never stopped
by what the interrupted one left, and `EventuallyPastTheBuild` that a live run
gets to its measurements or its summary. Nothing is promised once the
measurements began: a run killed there is refused, as `live.py` intends. In
`Learning` weak fairness is of all sessions together, since two learners are two
processes of one machine and a session that can go on is not held up by another;
`EverySessionEnds` is then about the loops themselves. In `Population` the
workers run on, a live run ends (`run_live` is bounded by its budgets) and the
operator starts the population again; `EventuallySettled` promises nothing once
a kill tore the record, because `_load` refuses that file.

## Findings

1. `build_torn_ledger` (`pl/bench/ledger.py:376`): `append` appends to whatever
   the ledger ends in, though its docstring says a killed run keeps every
   completed episode. After a kill inside an append the next row lands on the
   same line: the row whose append returned is lost and `read` raises on the
   file from then on. Proved: nothing else loses a row (`RowsKeptUntorn`), and an
   interruption costs at most one (`LossIsBounded`).
2. `unbound_counts` (`pl/bench/run.py:929` against `:935`): the docstring of
   `_record_mismatch` says nothing is counted when the body did not run to
   completion; a body whose parameter cannot be bound never ran and is counted. Of a
   body that was refused or timed out it is true (`MishapsCountNothingHolds`).
3. `ungated_empty` (`pl/bench/live.py:482`): the live run checks only that the
   two-sided library admitted something. When the positive-only library is
   empty, which a revision admitted by the two-sided gate alone allows, the run
   raises after the frozen stage was paid for and cannot be resumed. The other
   stages cannot be opened so (`OnlyPositiveOnlyIsUngated`).
4. `pushed_dry_run` (`pl/dispatch.py:206`): the copies share the upstream mirror
   and the comparison before the replay covers it, so a program whose body
   pushes is refused as "the repository changed" unless something is put back
   (`PushingIsNeverReplayedHolds`, for any such program and any dispatches).
5. `study_index` (`pl/bench/refusal_study.py:208` against `:443`): a repository's
   cases are numbered before their states are built and the next repository
   starts at the number of those that did build. A state that does not build
   gives two cases one index, and one is scored by the other's decision.

Met while modelling, and not made a run of their own:

- `pl/bench/build_library.py:282`: `_commit` has the same fault as `append`; a
  committed episode runs again at the second resume, and if the rerun admits
  where the first did not, the fallback's program stays unlisted.
- `pl/dispatch.py:206`: the comparison sees contents. A change that is there while
  `copytree` makes the copy of the dry run and is put back before the comparison
  lets the replay through on a state it was not tried on, although the docstring
  (181-185) has it that a changed repository is refused. `TriedOnWhatWasTaken`
  states what is left, with `putBack`; without it TLC finds this run.
- `pl/dispatch.py:129`: a writing probe is refused and not undone, and every
  later program is probed on the copy it wrote to.
- `pl/bench/live.py:407`: a run killed while it writes `summary.json` counts as
  finished. A run killed before `plan.json` is complete cannot be resumed;
  `population.py` replaces its build.
- `pl/bench/population.py:107`: the tail of a log keeps an earlier run's refusal,
  so running again may stop at once although the docstring says it resumes the
  rest. The record is rewritten in place, and half of it blocks `_load`. A run
  that met a refused account counts towards `RESUMES`. A killed population's live
  runs go on without it.
- `pl/bench/refusal_study.py`: half a `repos/<repo>.json` blocks every later run,
  and a run resumed with other libraries mixes decisions by position.
- `pl/bench/report.py:343`: an interval with one end beyond the margin is worded
  as a difference larger than the margin, against the docstring at 264-269
  (the assumption `OneSidedIsWordedAsDifference` has the instance).
- `pl/learn.py:14` says the copy the gate starts from is "as it was before the
  solve"; `pl/runtime/templates.py` gives each step the whole timeout;
  `pl/runtime/replay.py:62` reports a network isolation that was only asked for;
  usage that cannot be read is not counted (`pl/provider.py:314`).

## The proofs

`ProgramLibrary_proofs` proves every property of the run `program_library`, for
any finite set of programs and any bound on mismatches, from
`LibraryAssumption` (finite `Programs`, `Undeclared` among them, a natural
bound):

- `TypeCorrect`: `TypeOK` is inductive by itself.
- `TornOnlyByCrashHolds`, `MismatchWithdrawsHolds`: from `StateInvariant`, the
  inductive invariant `StateInv`. The properties speak of programs at rest, so the
  invariant adds what is true of the one operation under way: at which write it
  is, what the file held when it began (`job.from`) and that the move raises
  the status. Without it nothing says that the quarantine which
  `record_mismatch` started will be what `Write` writes. `CapActedOn` says that a
  program over the cap is withdrawn, being withdrawn, or `owed` since a crash:
  with `>=` in `record_mismatch` the next mismatch pays what is owed, which
  comparing with `=` would not.
- `StatusOnlyForwardHolds`, `SweepChangesNoVerdictHolds`,
  `LibraryImplementsPool`: step properties, from the same invariant and
  `TransitionsRaise` (every move of `_TRANSITIONS` raises the rank). The
  refinement maps a program's status as a load returns it to its phase in the
  pool; every step but `Write` and `WriteByHand` stutters.
- `HistoryExactHolds`, `HistoryNeverAheadHolds`: from `HistoryInvariant`, which
  needs in addition what the history looks like between `Write` and
  `AppendHistory`; `AppendAscending` and `AppendJoined` are the lemmas about
  appending one move to a sequence that ascends or joins up.

`CheckoutDispatch_proofs` proves every property of the run `checkout_dispatch`,
for any set of dispatches, any number of programs and any bound on edits, from
`DispatchAssumption`. The inductive invariant is `TypeOK /\ DispatchInvs`.
`TriedOnWhatWasTaken` follows from a comparison that does not mention what was
tried, so it needs an order: `Grown(s, t)` says that content `t` is `s` with
changes after it. A step makes the checkout or a mirror grow or is noted as taking
something back (`StepGrows`); while nothing is noted, `Ordered` keeps what was read
behind what was tried, and that behind what is there now, for the checkout and for
the mirror; when the comparison finds the two ends equal, `GrownBetween` makes all
three equal. `OwnStep` is the step of the dispatch itself, `OthersKeep` every other
step, which may change the checkout. That the last change of a dispatch's copy is
the trial of the program it will replay is part of the invariant, for
`OnlyConfirmedReplaysHolds`. `PushingIsNeverReplayedHolds` adds that a dry run
which succeeds leaves the mirror longer than it was read, if the program pushes and
nothing is put back: the comparison behind it can only find a difference.

`BuildLibrary_proofs` proves `NeverCollides`, `CommittedIsPaidFor`,
`ContentsAreTheReport` and the refinement `CommitsFollowThePlan`, for any plan
without a seed twice (`BuildAssumption`), any names a model proposes and any number
of interruptions, each of these under `CanTear = FALSE`: no interruption leaves half
a line, as in the run `build_resume`. `At(l, n, g, k)` says the walk is at seed `k`
of group `g` once the first `n` entries of the log `l` are read back. `Logged` keeps
that every entry is for the seed the walk was at then, so a walk that reads the log
back meets its entries in their order (`NextOfTheLog`) and runs an episode only at
the end of it (`EndOfTheLog`). What a process has built is therefore a prefix of the
log, its occurrence number is one more than the commits, and the ids an entry has
for either root have the number of their commit (`Numbered`): the program and the
first compile of an episode are new to their roots once `Clean` removed from each
what its own entries do not name (`NewIsNotKept`, `StoresAreFree`). `KeptAsReported`
and `Beside` say what a root holds of the committed programs and what beside them at
each step of an episode. `TypeCorrect` holds with half lines too, when the log on
disk says little: its invariant (`InStep`) speaks only of what the process itself
has walked. That is a `Logged` walk which meets no seed twice, so the seeds it has
met, with the one it is at, map one to one into `Seeds` (`WalkFits`), and the
occurrence number a program is stored under stays in range. `LossIsBounded` counts
on top of it: the rows that are lost, and the one a torn end is about to lose, are
at most the interruptions.

`EpisodeRunner_proofs` proves every property of the run `episodes`, for any number
of occurrences and any resolutions. Its invariant says what the row under way will
be made of: the local variables of `run_episode` at each step agree with what the
episode has already written to the library. `CountedMisfiresHolds` needs it because
a misfire is read off the row but counted two steps before the row is appended, and
`VerdictOnRowHolds` because two attempts write the stored program, its revision
record and its status: `Provenance` says where the stored program came from while
the row is still to be appended. `StepsInThePoolHolds` maps every step to a step of
`DispatchPool` or to none.

`LiveRun_proofs` proves `NeverStitched` and `MeasurementsKept` for any plans, any
number of episodes, replicates and kills. Three facts carry it: `Filed`, a stage
with rows has a file that no resume takes, so a run that may be resumed has no
rows (`NothingMeasured`); `Sorted` and `Ahead`, the rows are in the order of the
loops and the one to come is after all of them; `Emptied`, a stage still to come
has no rows. `SummaryIsWhole` needs `WholeInv` on top of them, because the
summary is written long after what it stands for: at each step the process knows
that the recorded plan is its own and the build whole (`Built`), that the stage it
is in has exactly the rows before the loop's place (`Current`), that each stage
behind it is whole or none of the plan's (`Behind`), and that what follows the
report finds it there (`Reported`). `Summed` says no step goes on from a summary,
so a kill after it takes nothing away.

`Population_proofs` proves `PlacesHeld` for any number of configurations,
workers, runs and kills. The invariant ties what a worker holds to the record it
last saved: no two workers hold one build, and a build under way is open, also
after a worker goes on to the replacement of the build it gave up (`BuildsApart`).

`Resolutions_proofs` proves, for every seed, what TLC computed for the three states
of each family, and from no assumption:

- `CheckerPasses`: which resolutions run to their end and pass, state by state
  (the table `Resolving`). Each family goes alike: the clone its injector makes is
  described by a predicate (`BranchState`, `DirtyState`, `ConfigState`...); lemmas
  about git's commands say what each leaves of such a clone (`FastForwards`,
  `BothSidesMerge`, `StashedAndBack`, `ResumeIs`, `RebuildIs`...) or that it fails
  (`ConflictStops`); the family's `...Grade` lemma says what its check and
  `recorded_state_intact` ask of the result. Trees grow from a common one, and
  `Apart` is when two growths do not conflict (`ApartMerges`). A seed enters
  through its state and through the name or the pair it draws, which the lemmas
  leave arbitrary.
- `RulesAgreeWithChecker`: the rules of `tasks/intent.py` label every build, and
  accept of what `observe` reads of it exactly what the checker passes. The rules
  never see what the injector recorded and the checker never sees the
  observation, so this is what the benchmark's verdicts rest on.
- `OneSeedSpeaks`: two builds in one state meet every gold precondition alike.
  `Alike` is what the probes read of a clone; the untracked note of `dirty_tree`
  and the drawn pair of `config_renamed` are shown to be no part of it.

`Learning_proofs` proves every property of the run `learning` but its liveness,
for any finite set of sessions, any budgets and any names, from
`AdmissionAssumption`, `LearningAssumption` (finite `Sessions`, more names than
learners) and `GroundTruth`: the faults are among the six, what the gate is told
of one is what its injector and rules say, and a program is any combination of
body, label and breaking point over the gold preconditions. That is how
`admit` gets them; TLC evaluates the assumption on the run's instance. Only
`AcceptableIsWhatPassesHolds` and the second half of `SoundAdmissionHolds` use it.

- `ConversationIsValidHolds` and `SolveIsBoundedHolds` are about `AgentLoop`, from
  `LoopsInv`. A transcript that is sent is valid although entries are left out on
  the way (`ApiMessages`), and although between two answers it is not valid yet:
  `Answered(t, open)` keeps that only the last `open` calls lack an answer, which
  are those still in the batch, and `SentIsAnswered` that what is left out takes no
  answer from its turn. The bound on completions needs the tries of the turn under
  way (`Counts`).
- `PassLosesNothingHolds` needs no invariant of the clone, which is the point of
  it: `GradedKeeps` shows, checker by checker, that a clone of whatever content
  which `Graded` passes has the lines that are the user's, with the difference
  between what the injector made and what it recorded spelled out
  (`LocalCommitsKept`, `UncommittedKept`, `OverridesKept`); `OnlyGradingGrades`
  that no other step calls a solve right.
- `AcceptableIsWhatPassesHolds` is `RulesAgreeWithChecker` at the task of a session.
  `SoundAdmissionHolds` puts it together with `OneSeedSpeaks`: where a program past
  the gate fires there is a sampled state of the same family in which it fires too
  (`SampledToo`); it fires soundly there, so its label is acceptable, so the
  resolution passes, and the build at hand is in that state (`SoundResolves`).
- `RevisionSeesWrongFiresHolds` and `FiresOnlySoundlyHolds` need from `RunsInv`
  that a program past the gate was admitted at some seed, and that the states a
  revision was shown belong to the program that is still there; the rest is what
  the gate's operators return (`VerdictWrong`, `AdmittedFiresSoundly`,
  `WrongIsAllWrong`).
- `NothingOverwrittenHolds`, from `StoreInv`: the check of `add` is not what keeps
  two learners apart, the directory is. One that has made its directory is alone
  with its name from then on, so what it wrote is what it finds.

Model-checked only: the liveness properties (`EventuallyBuilt`,
`EventuallyPastTheBuild`, `EverySessionEnds`, `EventuallySettled`), which the
prover does not reach, and the assumptions about the operator modules (matchers,
screens, replay, analyses, reports, studies), which TLC evaluates.

## Not modelled, and why

- **Text**: prompts, the compile parser, shell tokenisation (`shlex`), the wording
  and layout of reports and plots, the probes' command lines. Statements, words
  and verdicts take their place.
- **git itself, processes and the network**: `Repository` has the commands the
  code uses as they are used; the HTTP client, the sandbox's processes and its
  disposal, the fetching of public histories are left out.
- `cargo_lock_conflict` has `lockfile_conflict`'s rules over another format.
- The memory arm only adds text to the prompt. Argument parsing is left out.
- The bootstrap's random draws are any sequence of draws; the decision tree of the
  state control and the lock-file oracle's prompts are left out.

Abstractions: in `BuildLibrary` the faults of a build are one plan, since they run
one after the other and share only the files. In `ProgramLibrary` one process
uses the library at a time; several are in `Learning`. In `LiveRun` a build
episode is one step, the pair level and the report are one write each, and a
stage that raises is a kill. In `CheckoutDispatch` a copy is taken and a state is
read in one step, though `copytree` and `sandbox_state` walk the tree file by
file, and a change takes back the last changes or none, where a person may also
undo an earlier one and keep a later one. In `Learning` an agent's solve starts from
a fresh clone, though after a failed replay it starts from what that left.
`AgentLoop`'s provider may answer anything at each request.

## What is left

1. Proofs about the operator modules (`Screens`, `Replay`, `Matchers`) where an
   assumption checks an instance of something that holds for all inputs.
2. An episode that replays before it solves, composed with `Learning`'s clone.
3. `cargo_lock_conflict`, the state control's decision tree.
