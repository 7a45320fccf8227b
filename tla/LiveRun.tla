------------------------------ MODULE LiveRun ------------------------------
(***************************************************************************)
(* bench/live.py: one live run, its stages in order, and what a resumed    *)
(* process makes of the files an interrupted one left.                     *)
(*                                                                         *)
(* A run builds two libraries (BuildLibrary has the build in detail; here  *)
(* it is the list of its committed episodes), computes the pair level,     *)
(* which calls no model, and then measures: the frozen arms on the         *)
(* two-sided library, two of them on the positive-only library, and the    *)
(* online arms, each stage as one or more replicates of the same           *)
(* episodes.  The process may be killed between any two writes and in the  *)
(* middle of plan.json and summary.json.  Which files exist decides        *)
(* whether another process may go on.                                      *)
(***************************************************************************)
EXTENDS Naturals, Sequences, FiniteSets

CONSTANTS
    Plans,          \* the plans a run may be started with
    BuildEpisodes,  \* episodes the build commits
    Episodes,       \* episodes of one replicate of a stage
    MaxKills        \* bound on interruptions

ASSUME LiveAssumption ==
    /\ Plans \subseteq [episodes : BOOLEAN, online : BOOLEAN, replicates : Nat \ {0}]
    /\ BuildEpisodes \in Nat \ {0}
    /\ Episodes \in Nat \ {0}
    /\ MaxKills \in Nat

NoPlan == [episodes |-> FALSE, online |-> FALSE, replicates |-> 0]

Stages == {"frozen", "positive_only", "online"}

(* What the run directory may hold.  "build" stands for the build's ledger, *)
(* transcripts, progress file and two libraries.                            *)
Ledger ==
    [frozen |-> "frozen.jsonl", positive_only |-> "positive-only.jsonl", online |-> "online"]

Transcripts ==
    [frozen |-> "frozen.transcripts.jsonl", positive_only |-> "positive-only.transcripts.jsonl",
     online |-> "online"]

Directory == [frozen |-> "frozen", positive_only |-> "positive-only", online |-> "online"]

(* As bugs would have it, the frozen ledger passes for a file of the build  *)
(* or of a stage that is recomputed, or no stage is recomputed.             *)
LedgerAmongThem == {"plan.json", "build", "frozen.jsonl", "frozen.transcripts.jsonl"}

BuildFiles == {"plan.json", "build"}

FrozenRecomputed == {"primary", "frozen.jsonl", "frozen.transcripts.jsonl"}

NothingRecomputed == {}

PairLevel == {"primary"}

MeasuredFiles ==
    (UNION {{Ledger[s], Transcripts[s], Directory[s]} : s \in Stages})
        \cup {"factorial.jsonl", "report"}

Names ==
    {"plan.json", "build", "primary", "summary.json", "summary.txt"} \cup MeasuredFiles

VARIABLES
    (* on disk *)
    files,          \* the names in the run directory
    half,           \* those of them a kill cut off
    recorded,       \* the plan plan.json holds
    committed,      \* the build's committed episodes: whether each gate admitted
    rows,           \* per stage, its ledger's rows: replicate, episode, process
    (* in the process *)
    pc,             \* the next step, "none" before the run, "down" without a process
    plan,           \* the plan this process was started with
    stage, replicate, episode,
    (* history variables *)
    processes,      \* processes so far
    kills

disk == <<files, half, recorded, committed, rows>>
counters == <<stage, replicate, episode>>
vars == <<disk, pc, plan, counters, processes, kills>>

-----------------------------------------------------------------------------

Gates == [two_sided : BOOLEAN, positive_only : BOOLEAN]

Admits(gate) == \E i \in 1 .. Len(committed) : committed[i][gate]

(* The library a stage dispatches against holds an admitted program; the    *)
(* online arms grow their own.                                              *)
HasLibrary(s) ==
    CASE s = "frozen" -> Admits("two_sided")
      [] s = "positive_only" -> Admits("positive_only")
      [] OTHER -> TRUE

(* Where run_benchmark writes: straight into the stage's ledger, or in the  *)
(* stage's directory when there are several replicates.                     *)
In(s, name) == IF plan.replicates = 1 THEN name ELSE Directory[s]

Running == pc \notin {"none", "down", "finished"}

Open(s) ==
    /\ pc' = "open"
    /\ stage' = s
    /\ replicate' = 1
    /\ episode' = 1

(* After the build, its stop and stage 3: the online arms if asked for.     *)
OnlineOrSummary ==
    IF plan.online
    THEN Open("online")
    ELSE pc' = "summary" /\ UNCHANGED counters

-----------------------------------------------------------------------------
(* A fresh run, and the build.                                              *)

(* out.mkdir: out must not exist.                                           *)
Start(p) ==
    /\ pc = "none"
    /\ plan' = p
    /\ processes' = 1
    /\ pc' = "plan"
    /\ UNCHANGED <<disk, counters, kills>>

WritePlan ==
    /\ pc = "plan"
    /\ files' = files \cup {"plan.json"}
    /\ recorded' = plan
    /\ pc' = "build"
    /\ UNCHANGED <<half, committed, rows, plan, counters, processes, kills>>

(* One build episode, committed; a resumed build keeps the ones before it.  *)
(* As a bug would have it, the episodes of the plan are no end.             *)
BuildOn(admitted) ==
    /\ pc = "build"
    /\ files' = files \cup {"build"}
    /\ committed' = Append(committed, admitted)
    /\ UNCHANGED <<half, recorded, rows, pc, plan, counters, processes, kills>>

BuildEpisode(admitted) ==
    /\ pc = "build"
    /\ Len(committed) < BuildEpisodes
    /\ files' = files \cup {"build"}
    /\ committed' = Append(committed, admitted)
    /\ UNCHANGED <<half, recorded, rows, pc, plan, counters, processes, kills>>

FinishBuild ==
    /\ pc = "build"
    /\ Len(committed) = BuildEpisodes
    /\ IF Admits("two_sided")
       THEN pc' = "pair" /\ UNCHANGED counters
       ELSE OnlineOrSummary
    /\ UNCHANGED <<disk, plan, processes, kills>>

(* _pair_level: the threshold, the floor and Figure 1, written to primary.  *)
MeasurePairs ==
    /\ pc = "pair"
    /\ files' = files \cup {"primary"}
    /\ IF plan.episodes THEN Open("frozen") ELSE OnlineOrSummary
    /\ UNCHANGED <<half, recorded, committed, rows, plan, processes, kills>>

-----------------------------------------------------------------------------
(* An episode stage.                                                        *)

(* run_replicates makes the replicate's directory; run_benchmark refuses a  *)
(* frozen library without an admitted program, and the run ends there.      *)
OpenReplicate ==
    /\ pc = "open"
    /\ files' = IF plan.replicates = 1 THEN files ELSE files \cup {Directory[stage]}
    /\ pc' = IF HasLibrary(stage) THEN "episode" ELSE "down"
    /\ UNCHANGED <<half, recorded, committed, rows, plan, counters, processes, kills>>

(* run_episode: an agent that solved leaves a transcript, a replay none.    *)
RunEpisode(solved) ==
    /\ pc = "episode"
    /\ files' = IF solved THEN files \cup {In(stage, Transcripts[stage])} ELSE files
    /\ pc' = "row"
    /\ UNCHANGED <<half, recorded, committed, rows, plan, counters, processes, kills>>

(* The row is appended: the next episode, the next replicate, the stage's   *)
(* concatenation, or its end.                                               *)
AppendRow ==
    /\ pc = "row"
    /\ rows' = [rows EXCEPT ![stage] =
           Append(@, [replicate |-> replicate, episode |-> episode, process |-> processes])]
    /\ files' = files \cup {In(stage, Ledger[stage])}
    /\ IF episode < Episodes
       THEN pc' = "episode" /\ episode' = episode + 1 /\ UNCHANGED <<stage, replicate>>
       ELSE IF replicate < plan.replicates
       THEN pc' = "open" /\ replicate' = replicate + 1 /\ episode' = 1 /\ UNCHANGED stage
       ELSE pc' = "ledger" /\ UNCHANGED counters
    /\ UNCHANGED <<half, recorded, committed, plan, processes, kills>>

(* With several replicates their ledgers are concatenated into the stage's. *)
FinishStage ==
    /\ pc = "ledger"
    /\ files' = files \cup {Ledger[stage]}
    /\ CASE stage = "frozen" -> Open("positive_only")
         [] stage = "positive_only" -> pc' = "factorial" /\ UNCHANGED counters
         [] stage = "online" -> pc' = "summary" /\ UNCHANGED counters
    /\ UNCHANGED <<half, recorded, committed, rows, plan, processes, kills>>

WriteFactorial ==
    /\ pc = "factorial"
    /\ files' = files \cup {"factorial.jsonl"}
    /\ pc' = "report"
    /\ UNCHANGED <<half, recorded, committed, rows, plan, counters, processes, kills>>

WriteReport ==
    /\ pc = "report"
    /\ files' = files \cup {"report"}
    /\ OnlineOrSummary
    /\ UNCHANGED <<half, recorded, committed, rows, plan, processes, kills>>

WriteSummary ==
    /\ pc = "summary"
    /\ files' = files \cup {"summary.json"}
    /\ pc' = "text"
    /\ UNCHANGED <<half, recorded, committed, rows, plan, counters, processes, kills>>

WriteText ==
    /\ pc = "text"
    /\ files' = files \cup {"summary.txt"}
    /\ pc' = "finished"
    /\ UNCHANGED <<half, recorded, committed, rows, plan, counters, processes, kills>>

-----------------------------------------------------------------------------
(* Interruptions.                                                           *)

Kill ==
    /\ Running
    /\ kills < MaxKills
    /\ kills' = kills + 1
    /\ pc' = "down"
    /\ UNCHANGED <<disk, plan, counters, processes>>

(* Killed in write_text: the file is there, and half of it is missing.      *)
KillInWrite ==
    /\ kills < MaxKills
    /\ \E write \in {<<"plan", "plan.json">>, <<"summary", "summary.json">>} :
           /\ pc = write[1]
           /\ files' = files \cup {write[2]}
           /\ half' = half \cup {write[2]}
    /\ kills' = kills + 1
    /\ pc' = "down"
    /\ UNCHANGED <<recorded, committed, rows, plan, counters, processes>>

(* _check_resumable.  As a bug would have it, any plan may go on with it.   *)
AnyPlan(p) ==
    /\ "plan.json" \in files \ half
    /\ "summary.json" \notin files
    /\ files \subseteq BuildFiles \cup PairLevel

MayResume(p) ==
    /\ "plan.json" \in files \ half
    /\ "summary.json" \notin files
    /\ recorded = p
    /\ files \subseteq BuildFiles \cup PairLevel

(* What the pair level left is removed, and the rows with their ledgers.    *)
Resume(p) ==
    /\ pc = "down"
    /\ MayResume(p)
    /\ files' = files \cap BuildFiles
    /\ rows' = [s \in Stages |->
           IF {Ledger[s], In(s, Ledger[s])} \cap files' = {} THEN <<>> ELSE rows[s]]
    /\ plan' = p
    /\ processes' = processes + 1
    /\ pc' = "build"
    /\ UNCHANGED <<half, recorded, committed, counters, kills>>

-----------------------------------------------------------------------------

Init ==
    /\ files = {}
    /\ half = {}
    /\ recorded = NoPlan
    /\ committed = <<>>
    /\ rows = [s \in Stages |-> <<>>]
    /\ pc = "none"
    /\ plan = NoPlan
    /\ stage = "frozen"
    /\ replicate = 1
    /\ episode = 1
    /\ processes = 0
    /\ kills = 0

Step ==
    \/ WritePlan
    \/ \E admitted \in Gates : BuildEpisode(admitted)
    \/ FinishBuild
    \/ MeasurePairs
    \/ OpenReplicate
    \/ \E solved \in BOOLEAN : RunEpisode(solved)
    \/ AppendRow
    \/ FinishStage
    \/ WriteFactorial
    \/ WriteReport
    \/ WriteSummary
    \/ WriteText

Next ==
    \/ \E p \in Plans : Start(p)
    \/ Step
    \/ Kill
    \/ KillInWrite
    \/ \E p \in Plans : Resume(p)

Spec == Init /\ [][Next]_vars

(* The scheduler runs a live process on, and the operator resumes a run     *)
(* that may be resumed.                                                     *)
FairSpec == Spec /\ WF_vars(Step) /\ WF_vars(\E p \in Plans : Resume(p))

-----------------------------------------------------------------------------

TypeOK ==
    /\ files \subseteq Names
    /\ half \subseteq files
    /\ recorded \in Plans \cup {NoPlan}
    /\ committed \in Seq(Gates)
    /\ Len(committed) <= BuildEpisodes
    /\ DOMAIN rows = Stages
    /\ \A s \in Stages : rows[s] \in Seq([replicate : Nat, episode : 1 .. Episodes, process : Nat])
    /\ pc \in {"none", "plan", "build", "pair", "open", "episode", "row", "ledger", "factorial",
              "report", "summary", "text", "finished", "down"}
    /\ plan \in Plans \cup {NoPlan}
    /\ stage \in Stages
    /\ replicate \in Nat \ {0}
    /\ episode \in 1 .. Episodes
    /\ processes \in Nat
    /\ kills \in 0 .. MaxKills

(* No measurement is stitched from two processes: every row of every        *)
(* episode stage comes from one process, and no episode of a replicate has  *)
(* two rows, whatever was interrupted and resumed before.                   *)
NeverStitched ==
    \A s, t \in Stages : \A i \in 1 .. Len(rows[s]), j \in 1 .. Len(rows[t]) :
        /\ rows[s][i].process = rows[t][j].process
        /\ s = t /\ rows[s][i] = rows[t][j] => i = j

(* The stages a plan has once the build is done.                            *)
StagesOf(p) ==
    {s \in Stages :
        IF s = "online" THEN p.online ELSE p.episodes /\ Admits("two_sided")}

(* A complete summary stands for a complete run of the plan on record: the  *)
(* whole build, every episode of every replicate of each stage the plan     *)
(* has, none of another stage, and the files the summary lists.             *)
SummaryIsWhole ==
    "summary.json" \in files \ half =>
        /\ Len(committed) = BuildEpisodes
        /\ \A s \in Stages :
               {<<rows[s][i].replicate, rows[s][i].episode>> : i \in 1 .. Len(rows[s])} =
                   IF s \in StagesOf(recorded)
                   THEN (1 .. recorded.replicates) \X (1 .. Episodes)
                   ELSE {}
        /\ {Ledger[s] : s \in StagesOf(recorded)} \subseteq files
        /\ "frozen" \in StagesOf(recorded) => {"factorial.jsonl", "report"} \subseteq files
        /\ Admits("two_sided") => "primary" \in files

(* Resuming never costs a measurement: no step removes a row or a file of   *)
(* an episode stage, although one process removes what another left.        *)
MeasurementsKept ==
    [][/\ files \cap MeasuredFiles \subseteq files'
       /\ \A s \in Stages : rows[s] = SubSeq(rows'[s], 1, Len(rows[s]))]_vars

(* A run that wrote its plan gets to its measurements or to its summary,    *)
(* however often it is killed in the build or in the pair level.            *)
EventuallyPastTheBuild ==
    recorded # NoPlan ~> files \cap (MeasuredFiles \cup {"summary.json"}) # {}

(* _measure says that it runs the episodes against a library that admitted  *)
(* something.                                                               *)
MeasuredLibraryAdmitted == pc = "open" => HasLibrary(stage)

=============================================================================
