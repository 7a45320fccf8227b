---------------------------- MODULE BuildLibrary ----------------------------
(***************************************************************************)
(* bench/build_library.py: building a frozen library, and resuming a build *)
(* that was interrupted.                                                   *)
(*                                                                         *)
(* Every episode solves and compiles in a scratch library, appends its row *)
(* to the build ledger, copies its program into the two-sided root, gates  *)
(* its first compile into the positive-only root, and commits: one line in *)
(* the progress file.  A step here is one of those writes.  The process    *)
(* may die between any two of them and, where CanTear, in the middle of    *)
(* appending a line; a resumed process reads the progress file, removes    *)
(* every program no committed episode built, and walks the plan again,     *)
(* skipping what is committed.                                             *)
(*                                                                         *)
(* The plan is one fault's: the faults of a build run one after the other  *)
(* and share only the files.  A program is stored under the id run.py      *)
(* derives from its episode's occurrence number and a slug the model       *)
(* chooses, so running an episode again may give its program another name. *)
(* Where the two-sided gate refused the first compile and its revision was *)
(* stored, the two roots get different programs: the two-sided one has the *)
(* revision, the positive-only one the first compile, which the revision's *)
(* record kept, under the slug that was proposed for it.                   *)
(***************************************************************************)
EXTENDS Naturals, Sequences, FiniteSets

CONSTANTS
    Plan,           \* the groups: each resolution's seeds, in the order they are tried
    Slugs,          \* the names the model may propose for a program
    Drafts,         \* those of an episode's stored program and of its first compile
    MaxCrashes,     \* bound on interruptions
    CanTear         \* whether an interruption may leave half a line behind

Seeds == UNION {{Plan[g][k] : k \in 1 .. Len(Plan[g])} : g \in 1 .. Len(Plan)}

Ids == (1 .. Cardinality(Seeds)) \X Slugs

(* What an episode leaves: no program, or the one that was stored and the   *)
(* first that was compiled, which is the same unless it was revised, each   *)
(* with the verdict of its root's gate.                                     *)
Results ==
    {[programs |-> {}, ungated |-> {}, admitted |-> FALSE, first |-> FALSE]}
        \cup {[programs |-> {<<o, d[1]>>}, ungated |-> {<<o, d[2]>>}, admitted |-> x, first |-> y] :
              o \in 1 .. Cardinality(Seeds), d \in Drafts, x \in BOOLEAN, y \in BOOLEAN}

Entries == [ep : Seeds, result : Results]

ASSUME BuildAssumption ==
    /\ Plan \in Seq(Seq(Nat) \ {<<>>})
    /\ \A g, h \in 1 .. Len(Plan) : \A i \in 1 .. Len(Plan[g]), j \in 1 .. Len(Plan[h]) :
           Plan[g][i] = Plan[h][j] => g = h /\ i = j
    /\ Drafts \subseteq Slugs \X Slugs
    /\ MaxCrashes \in Nat
    /\ CanTear \in BOOLEAN

Roots == {"two_sided", "positive_only"}

VARIABLES
    (* on disk *)
    progress,       \* the readable lines of the progress file, in order
    progressTorn,   \* it ends in half a line
    rows,           \* the readable lines of the build ledger: the seeds they are for
    rowsTorn,       \* it ends in half a line
    stored,         \* per root, the program directories with their verdicts
    manifests,      \* the roots whose build.json is written
    (* in the process *)
    pc,             \* the next step, "down" when no process runs
    g, k,           \* the group and the seed of it the plan walk is at
    occurrence,     \* len(run_seeds)
    result,         \* what the episode under way produced
    built,          \* what the report will list
    (* history variables *)
    crashes,        \* interruptions so far
    appended        \* the seeds whose ledger append returned

files == <<progress, progressTorn, rows, rowsTorn, stored, manifests>>
process == <<pc, g, k, occurrence, result, built>>
ghosts == <<crashes, appended>>
vars == <<files, process, ghosts>>

-----------------------------------------------------------------------------

Entered == {progress[i] : i \in 1 .. Len(progress)}

NoResult == [programs |-> {}, ungated |-> {}, admitted |-> FALSE, first |-> FALSE]

(* What an episode's result puts in a root.                                 *)
InRoot(root, r) == IF root = "two_sided" THEN r.programs ELSE r.ungated

Walking == pc = "walk" /\ g <= Len(Plan)

Seed == Plan[g][k]

(* _read_progress: half a line is no commit and is ignored.                 *)
Committed == {entry.ep : entry \in Entered}

EntryOf(ep) == CHOOSE entry \in Entered : entry.ep = ep

(* The programs the committed episodes put in a root.  As a bug would have   *)
(* it, what they put in the two-sided one is kept in both.                  *)
KeptOfTwoSided(root) == UNION {entry.result.programs : entry \in Entered}

Kept(root) == UNION {InRoot(root, entry.result) : entry \in Entered}

(* The next seed of the group, or the next group once a seed admitted.      *)
Advance(admitted) ==
    IF admitted \/ k = Len(Plan[g])
    THEN g' = g + 1 /\ k' = 1
    ELSE g' = g /\ k' = k + 1

-----------------------------------------------------------------------------
(* The plan walk.                                                           *)

(* A committed episode is read back instead of run.  As a bug would have    *)
(* it, its fallback seed runs although it admitted a program.               *)
SkipThenFallBack ==
    /\ Walking
    /\ Seed \in Committed
    /\ occurrence' = occurrence + 1
    /\ built' = Append(built, EntryOf(Seed))
    /\ Advance(FALSE)
    /\ UNCHANGED <<files, pc, result, ghosts>>

Skip ==
    /\ Walking
    /\ Seed \in Committed
    /\ occurrence' = occurrence + 1
    /\ built' = Append(built, EntryOf(Seed))
    /\ Advance(EntryOf(Seed).result.admitted)
    /\ UNCHANGED <<files, pc, result, ghosts>>

(* run_episode against a scratch library: at most one program comes of it,  *)
(* and the revision and the first compile have the episode's number both.   *)
RunEpisode(r) ==
    /\ Walking
    /\ Seed \notin Committed
    /\ r.programs \cup r.ungated \subseteq {occurrence + 1} \X Slugs
    /\ occurrence' = occurrence + 1
    /\ result' = r
    /\ pc' = "row"
    /\ UNCHANGED <<files, g, k, built, ghosts>>

(* ledger.append.  A line appended after half a line completes that one, and *)
(* the two are one unreadable line.                                         *)
NoRow ==
    /\ pc = "row"
    /\ pc' = "copy"
    /\ appended' = appended \cup {Seed}
    /\ UNCHANGED <<files, g, k, occurrence, result, built, crashes>>

AppendRow ==
    /\ pc = "row"
    /\ rows' = IF rowsTorn THEN rows ELSE Append(rows, Seed)
    /\ rowsTorn' = FALSE
    /\ appended' = appended \cup {Seed}
    /\ pc' = "copy"
    /\ UNCHANGED <<progress, progressTorn, stored, manifests, g, k, occurrence, result, built,
                   crashes>>

(* copytree and Library.add both refuse an id the root already holds, which  *)
(* ends the process.                                                        *)
Free(root) == \A p \in stored[root] : p.id \notin InRoot(root, result)

StoreOrRaise(root, verdict, next) ==
    /\ stored' = IF Free(root)
                 THEN [stored EXCEPT ![root] =
                          @ \cup {[id |-> id, admitted |-> verdict] : id \in InRoot(root, result)}]
                 ELSE stored
    /\ pc' = IF Free(root) THEN next ELSE "down"
    /\ UNCHANGED <<progress, progressTorn, rows, rowsTorn, manifests, g, k, occurrence, result,
                   built, ghosts>>

CopyProgram ==
    /\ pc = "copy"
    /\ StoreOrRaise("two_sided", result.admitted, "first")

(* _gate_positive_only: the first compile is stored as a candidate, then     *)
(* gated, and its status set when the gate admits it.                       *)
StoreFirst ==
    /\ pc = "first"
    /\ StoreOrRaise("positive_only", FALSE, "gate")

GateFirst ==
    /\ pc = "gate"
    /\ stored' = [stored EXCEPT !["positive_only"] =
                     {IF p.id \in InRoot("positive_only", result)
                      THEN [p EXCEPT !.admitted = result.first] ELSE p : p \in @}]
    /\ pc' = "commit"
    /\ UNCHANGED <<progress, progressTorn, rows, rowsTorn, manifests, g, k, occurrence, result,
                   built, ghosts>>

(* _commit: the episode's entry is one line; the walk goes on.              *)
Commit ==
    LET entry == [ep |-> Seed, result |-> result] IN
    /\ pc = "commit"
    /\ progress' = IF progressTorn THEN progress ELSE Append(progress, entry)
    /\ progressTorn' = FALSE
    /\ built' = Append(built, entry)
    /\ Advance(result.admitted)
    /\ pc' = "walk"
    /\ UNCHANGED <<rows, rowsTorn, stored, manifests, occurrence, result, ghosts>>

(* Once the plan is walked each root gets its build.json, two-sided first.  *)
WriteManifest(root) ==
    /\ pc = "walk"
    /\ g > Len(Plan)
    /\ root = "positive_only" => "two_sided" \in manifests
    /\ root \notin manifests
    /\ manifests' = manifests \cup {root}
    /\ UNCHANGED <<progress, progressTorn, rows, rowsTorn, stored, process, ghosts>>

Report ==
    /\ pc = "walk"
    /\ g > Len(Plan)
    /\ manifests = Roots
    /\ pc' = "done"
    /\ UNCHANGED <<files, g, k, occurrence, result, built, ghosts>>

-----------------------------------------------------------------------------
(* Interruption and resume.                                                 *)

(* The process dies; half a line may stay of the one it was appending.      *)
Crash(tears) ==
    /\ pc \notin {"down", "done"}
    /\ crashes < MaxCrashes
    /\ tears => CanTear /\ pc \in {"row", "commit"}
    /\ rowsTorn' = (rowsTorn \/ (tears /\ pc = "row"))
    /\ progressTorn' = (progressTorn \/ (tears /\ pc = "commit"))
    /\ crashes' = crashes + 1
    /\ pc' = "down"
    /\ UNCHANGED <<progress, rows, stored, manifests, g, k, occurrence, result, built, appended>>

(* build_library(resume=True) starts over from what is on disk.  As a bug    *)
(* would have it: the occurrences are counted on from where they stood.     *)
ResumeCountingOn ==
    /\ pc = "down"
    /\ pc' = "clean two_sided"
    /\ g' = 1 /\ k' = 1
    /\ result' = NoResult
    /\ built' = <<>>
    /\ UNCHANGED <<files, occurrence, ghosts>>

Resume ==
    /\ pc = "down"
    /\ pc' = "clean two_sided"
    /\ g' = 1 /\ k' = 1
    /\ occurrence' = 0
    /\ result' = NoResult
    /\ built' = <<>>
    /\ UNCHANGED <<files, ghosts>>

(* _remove_uncommitted, in one root after the other.  As a bug would have    *)
(* it, nothing is removed.                                                  *)
RemoveNothing(root) == stored[root]

RemoveUncommitted(root) == {p \in stored[root] : p.id \in Kept(root)}

(* As a bug would have it: a program nothing committed is an error.         *)
CleanRefuses(root) ==
    /\ pc = IF root = "two_sided" THEN "clean two_sided" ELSE "clean positive_only"
    /\ pc' = IF RemoveUncommitted(root) # stored[root] THEN "down"
             ELSE IF root = "two_sided" THEN "clean positive_only" ELSE "walk"
    /\ UNCHANGED <<files, g, k, occurrence, result, built, ghosts>>

Clean(root) ==
    /\ pc = IF root = "two_sided" THEN "clean two_sided" ELSE "clean positive_only"
    /\ stored' = [stored EXCEPT ![root] = RemoveUncommitted(root)]
    /\ pc' = IF root = "two_sided" THEN "clean positive_only" ELSE "walk"
    /\ UNCHANGED <<progress, progressTorn, rows, rowsTorn, manifests, g, k, occurrence, result,
                   built, ghosts>>

-----------------------------------------------------------------------------

Init ==
    /\ progress = <<>> /\ progressTorn = FALSE
    /\ rows = <<>> /\ rowsTorn = FALSE
    /\ stored = [root \in Roots |-> {}]
    /\ manifests = {}
    /\ pc = "walk"
    /\ g = 1 /\ k = 1
    /\ occurrence = 0
    /\ result = NoResult
    /\ built = <<>>
    /\ crashes = 0
    /\ appended = {}

Step ==
    \/ Skip
    \/ \E r \in Results : RunEpisode(r)
    \/ AppendRow
    \/ CopyProgram
    \/ StoreFirst
    \/ GateFirst
    \/ Commit
    \/ \E root \in Roots : WriteManifest(root) \/ Clean(root)
    \/ Report

Next == Step \/ Resume \/ \E tears \in BOOLEAN : Crash(tears)

Spec == Init /\ [][Next]_vars

(* The process runs on, and an interrupted build is resumed.                *)
FairSpec == Spec /\ WF_vars(Step \/ Resume)

-----------------------------------------------------------------------------
(* Properties.                                                              *)

TypeOK ==
    /\ progress \in Seq(Entries) /\ progressTorn \in BOOLEAN
    /\ rows \in Seq(Seeds) /\ rowsTorn \in BOOLEAN
    /\ stored \in [Roots -> SUBSET [id : Ids, admitted : BOOLEAN]]
    /\ manifests \subseteq Roots
    /\ pc \in {"walk", "row", "copy", "first", "gate", "commit", "done", "down",
               "clean two_sided", "clean positive_only"}
    /\ g \in 1 .. Len(Plan) + 1
    /\ k \in Nat \ {0}
    /\ occurrence \in 0 .. Cardinality(Seeds)
    /\ result \in Results
    /\ built \in Seq(Entries)
    /\ crashes \in 0 .. MaxCrashes
    /\ appended \subseteq Seeds

Log == INSTANCE BuildPlan WITH log <- progress

Walked == INSTANCE BuildPlan WITH log <- built

(* The build commits what one uninterrupted build would: the plan in its    *)
(* order, each resolution's seeds until the first that admits.              *)
CommitsFollowThePlan == Log!Spec

(* The programs of the report, each with its verdict at a root's gate.      *)
Verdict(root, r) == IF root = "two_sided" THEN r.admitted ELSE r.first

Reported(root) ==
    UNION {{[id |-> id, admitted |-> Verdict(root, built[i].result)] : id \in InRoot(root, built[i].result)}
           : i \in 1 .. Len(built)}

(* A frozen library's contents are exactly what its build reports, program  *)
(* by program and verdict by verdict, in both roots: nothing of an episode  *)
(* that was cut off, and nothing missing.  The report has every episode of  *)
(* the plan, those a process before this one committed included.            *)
ContentsAreTheReport ==
    pc = "done" =>
        /\ built = progress
        /\ Walked!Complete(built)
        /\ \A root \in Roots : stored[root] = Reported(root)

(* A program an episode copies never meets one that is there already, so a  *)
(* resumed build cannot be stopped by what the interrupted one left.        *)
NeverCollides ==
    /\ pc = "copy" => Free("two_sided")
    /\ pc = "first" => Free("positive_only")

(* Every committed episode's row is in the build ledger: what the build     *)
(* spent is recorded before the episode counts as done.                     *)
CommittedIsPaidFor == Committed \subseteq {rows[i] : i \in 1 .. Len(rows)}

(* ledger.append: an episode whose row was appended keeps a readable line.  *)
RowsKept == appended \subseteq {rows[i] : i \in 1 .. Len(rows)}

(* A build that is resumed after every interruption finishes.               *)
EventuallyBuilt == <>(pc = "done")

=============================================================================
