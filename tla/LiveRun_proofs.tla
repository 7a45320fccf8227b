--------------------------- MODULE LiveRun_proofs ---------------------------
(***************************************************************************)
(* Theorems about LiveRun, for any plans, any number of build episodes and *)
(* of episodes per replicate, and any number of kills: no measurement is   *)
(* stitched from two processes, none is lost by a resume, and a complete   *)
(* summary stands for a complete run.                                      *)
(***************************************************************************)
EXTENDS LiveRun, TLAPS

(* Where the episodes of a stage are run.                                   *)
InStage == {"open", "episode", "row", "ledger"}

Precedes(a, b) == a.replicate < b.replicate \/ (a.replicate = b.replicate /\ a.episode < b.episode)

Now == [replicate |-> replicate, episode |-> episode]

(* A process runs a plan of the run's, in bounds of its replicates.         *)
Planned ==
    /\ pc # "none" => plan \in Plans
    /\ half \subseteq {"plan.json", "summary.json"}
    /\ pc \in InStage => replicate <= plan.replicates
    /\ pc \in {"factorial", "report"} => stage = "positive_only"

(* A stage that has rows has a file to show for it, which no resume takes.  *)
Filed == \A s \in Stages : rows[s] # <<>> => Ledger[s] \in files \/ Directory[s] \in files

(* All rows are this process's, or the last one's.                          *)
OneProcess == \A s \in Stages : \A i \in 1 .. Len(rows[s]) : rows[s][i].process = processes

(* The rows of a stage are in the order of its replicates and episodes, and *)
(* the one to come is after all of them.                                    *)
Sorted ==
    \A s \in Stages : \A i, j \in 1 .. Len(rows[s]) : i < j => Precedes(rows[s][i], rows[s][j])

Ahead ==
    pc \in {"open", "episode", "row"} =>
        \A i \in 1 .. Len(rows[stage]) : Precedes(rows[stage][i], Now)

(* A stage still to come has no rows.                                       *)
ToCome(s) ==
    \/ pc \in {"none", "plan", "build", "pair"}
    \/ pc \in InStage /\ stage = "frozen" /\ s # "frozen"
    \/ pc \in InStage \cup {"factorial", "report"} /\ stage # "online" /\ s = "online"

Emptied == \A s \in Stages : ToCome(s) => rows[s] = <<>>

IInv == TypeOK /\ Planned /\ Filed /\ OneProcess /\ Sorted /\ Ahead /\ Emptied

-----------------------------------------------------------------------------

Row == [replicate : Nat, episode : 1 .. Episodes, process : Nat]

(* The constants are as LiveAssumption has them.                            *)
LEMMA BoundsAre ==
    /\ BuildEpisodes \in Nat \ {0} /\ Episodes \in Nat \ {0} /\ MaxKills \in Nat
    /\ \A p \in Plans : /\ p \in [episodes : BOOLEAN, online : BOOLEAN, replicates : Nat \ {0}]
                        /\ p.episodes \in BOOLEAN /\ p.online \in BOOLEAN
                        /\ p.replicates \in Nat \ {0}
  BY LiveAssumption

(* No file of an episode stage is one a resume takes.                       *)
LEMMA FilesAre ==
    /\ \A s \in Stages : /\ Ledger[s] \in Names /\ Transcripts[s] \in Names /\ Directory[s] \in Names
                         /\ Ledger[s] \notin BuildFiles \cup PairLevel
                         /\ Directory[s] \notin BuildFiles \cup PairLevel
    /\ {"plan.json", "build", "primary", "summary.json", "summary.txt", "factorial.jsonl", "report"}
           \subseteq Names
    /\ MeasuredFiles \cap (BuildFiles \cup PairLevel) = {}
    /\ BuildFiles \subseteq Names
<1>. DEFINE Own(s) == {Ledger[s], Transcripts[s], Directory[s]}
            All == UNION {Own(s) : s \in Stages}
            Last == {"factorial.jsonl", "report"}
<1>1. MeasuredFiles = All \cup Last
  BY DEF MeasuredFiles
<1>2. \A x : x \in All <=> \E s \in Stages : x \in Own(s)
  <2>. HIDE DEF Own
  <2>. QED  OBVIOUS
<1>3. \A s \in Stages : /\ Ledger[s] \notin BuildFiles \cup PairLevel
                       /\ Transcripts[s] \notin BuildFiles \cup PairLevel
                       /\ Directory[s] \notin BuildFiles \cup PairLevel
  BY DEF Stages, Ledger, Transcripts, Directory, BuildFiles, PairLevel
<1>4. \A s \in Stages : Ledger[s] \in All /\ Transcripts[s] \in All /\ Directory[s] \in All
  <2>. HIDE DEF All
  <2>. QED  BY <1>2
<1>5. All \cap (BuildFiles \cup PairLevel) = {}
  <2>. HIDE DEF All
  <2>. QED  BY <1>2, <1>3
<1>. HIDE DEF All
<1>6. Last \cap (BuildFiles \cup PairLevel) = {}
  BY DEF BuildFiles, PairLevel
<1>7. MeasuredFiles \cap (BuildFiles \cup PairLevel) = {}
  BY <1>1, <1>5, <1>6
<1>8. MeasuredFiles \subseteq Names
  BY DEF Names
<1>9. Last \subseteq Names /\ All \subseteq Names
  BY <1>1, <1>8
<1>10. {"plan.json", "build", "primary", "summary.json", "summary.txt"} \subseteq Names
  BY DEF Names
<1>. QED  BY <1>3, <1>4, <1>7, <1>9, <1>10 DEF BuildFiles

LEMMA InIs ==
    ASSUME NEW s \in Stages, NEW name \in Names
    PROVE  In(s, name) \in Names /\ In(s, name) \in {name, Directory[s]}
  BY FilesAre DEF In

LEMMA InitIInv == Init => IInv
<1>. SUFFICES ASSUME Init  PROVE IInv
  OBVIOUS
<1>1. TypeOK
  <2>1. \A s \in Stages : rows[s] = <<>>
    BY DEF Init
  <2>2. committed = <<>> /\ committed \in Seq(Gates) /\ Len(committed) = 0
    BY DEF Init
  <2>3. kills \in 0 .. MaxKills /\ episode \in 1 .. Episodes
    BY BoundsAre DEF Init
  <2>4. DOMAIN rows = Stages /\ stage \in Stages
    BY DEF Init, Stages
  <2>. QED  BY <2>1, <2>2, <2>3, <2>4, BoundsAre DEF Init, TypeOK
<1>2. \A s \in Stages : rows[s] = <<>> /\ Len(rows[s]) = 0
  BY DEF Init
<1>3. Planned /\ Filed /\ OneProcess /\ Sorted /\ Ahead /\ Emptied
  BY <1>2 DEF Init, Planned, InStage, Filed, OneProcess, Sorted, Ahead, Emptied
<1>. QED  BY <1>1, <1>3 DEF IInv

(* What every step keeps that appends no row and removes no file.           *)
LEMMA RowsStay ==
    IInv /\ UNCHANGED <<rows, processes>> /\ files \subseteq files' => Filed' /\ OneProcess' /\ Sorted'
  BY DEF IInv, Filed, OneProcess, Sorted, Precedes

(* The types of what every step leaves alone but those that say otherwise.  *)
LEMMA TypesStay ==
    ASSUME TypeOK, UNCHANGED <<recorded, committed, rows, plan, processes, kills, half>>,
           files \subseteq files', files' \subseteq Names,
           pc' \in {"build", "pair", "open", "episode", "row", "ledger", "factorial",
                    "report", "summary", "text", "finished", "down"},
           stage' \in Stages, replicate' \in Nat \ {0}, episode' \in 1 .. Episodes
    PROVE  TypeOK'
  BY DEF TypeOK

(* A stage that is opened is one still to come.                             *)
LEMMA OpenIs ==
    ASSUME IInv, NEW s \in Stages, Open(s), UNCHANGED <<rows, plan>>, rows[s] = <<>>, plan \in Plans
    PROVE  /\ Ahead'
           /\ replicate' <= plan'.replicates
           /\ pc' = "open" /\ stage' = s /\ stage' \in Stages
           /\ replicate' \in Nat \ {0} /\ episode' \in 1 .. Episodes
<1>1. rows' = rows /\ Len(rows[s]) = 0 /\ stage' = s /\ replicate' = 1 /\ episode' = 1
      /\ pc' = "open" /\ plan' = plan
  BY DEF Open
<1>2. plan.replicates \in Nat \ {0} /\ Episodes \in Nat \ {0}
  BY BoundsAre
<1>3. Ahead'
  BY <1>1 DEF Ahead
<1>. QED  BY <1>1, <1>2, <1>3

(* The online arms, or the summary.                                         *)
LEMMA OnlineOrSummaryIs ==
    ASSUME IInv, OnlineOrSummary, UNCHANGED <<rows, plan, half>>, rows["online"] = <<>>,
           plan \in Plans
    PROVE  /\ Ahead' /\ Planned' /\ Emptied'
           /\ pc' \in {"open", "summary"} /\ stage' \in Stages
           /\ replicate' \in Nat \ {0} /\ episode' \in 1 .. Episodes
<1>0. "online" \in Stages
  BY DEF Stages
<1>1. CASE plan.online
  <2>1. Open("online")
    BY <1>1 DEF OnlineOrSummary
  <2>2. /\ Ahead' /\ replicate' <= plan'.replicates /\ pc' = "open" /\ stage' = "online"
        /\ replicate' \in Nat \ {0} /\ episode' \in 1 .. Episodes
    BY <1>0, <2>1, OpenIs
  <2>3. Emptied'
    BY <2>2 DEF Emptied, ToCome
  <2>4. Planned'
    BY <2>2 DEF Planned, IInv
  <2>. QED  BY <1>0, <2>2, <2>3, <2>4
<1>2. CASE ~plan.online
  <2>1. pc' = "summary" /\ UNCHANGED <<stage, replicate, episode>>
    BY <1>2 DEF OnlineOrSummary, counters
  <2>2. Emptied' /\ Ahead' /\ Planned'
    BY <2>1 DEF Emptied, ToCome, InStage, Ahead, Planned, IInv
  <2>. QED  BY <2>1, <2>2 DEF IInv, TypeOK
<1>. QED  BY <1>1, <1>2

LEMMA StartIInv == ASSUME NEW p \in Plans PROVE IInv /\ Start(p) => IInv'
<1>. SUFFICES ASSUME IInv, Start(p)  PROVE IInv'
  OBVIOUS
<1>. USE DEF IInv, Start, disk, counters
<1>0. \A s \in Stages : rows[s] = <<>> /\ Len(rows[s]) = 0
  BY DEF Emptied, ToCome
<1>1. TypeOK'
  BY DEF TypeOK
<1>2. Planned' /\ Filed' /\ OneProcess' /\ Sorted' /\ Ahead' /\ Emptied'
  BY <1>0 DEF Planned, InStage, Filed, OneProcess, Sorted, Ahead, Emptied
<1>. QED  BY <1>1, <1>2

LEMMA WritePlanIInv == IInv /\ WritePlan => IInv'
<1>. SUFFICES ASSUME IInv, WritePlan  PROVE IInv'
  OBVIOUS
<1>. USE DEF IInv, WritePlan, disk, counters
<1>1. TypeOK'
  BY FilesAre DEF TypeOK, Planned
<1>2. Planned' /\ Ahead' /\ Emptied'
  BY DEF Planned, InStage, Ahead, Emptied, ToCome
<1>. QED  BY <1>1, <1>2, RowsStay

LEMMA BuildEpisodeIInv == ASSUME NEW admitted \in Gates PROVE IInv /\ BuildEpisode(admitted) => IInv'
<1>. SUFFICES ASSUME IInv, BuildEpisode(admitted)  PROVE IInv'
  OBVIOUS
<1>. USE DEF IInv, BuildEpisode, disk, counters
<1>1. TypeOK'
  <2>1. committed' \in Seq(Gates) /\ Len(committed') = Len(committed) + 1
    BY DEF TypeOK
  <2>2. Len(committed') <= BuildEpisodes
    BY <2>1, BoundsAre DEF TypeOK
  <2>. QED  BY <2>1, <2>2, FilesAre DEF TypeOK
<1>2. Planned' /\ Ahead' /\ Emptied'
  BY DEF Planned, InStage, Ahead, Emptied, ToCome
<1>. QED  BY <1>1, <1>2, RowsStay

LEMMA FinishBuildIInv == IInv /\ FinishBuild => IInv'
<1>. SUFFICES ASSUME IInv, FinishBuild  PROVE IInv'
  OBVIOUS
<1>0. pc = "build" /\ plan \in Plans /\ UNCHANGED <<files, half, recorded, committed, rows, plan, processes, kills>>
  BY DEF IInv, Planned, FinishBuild, disk
<1>1. Filed' /\ OneProcess' /\ Sorted'
  BY <1>0, RowsStay
<1>2. rows["online"] = <<>>
  BY <1>0 DEF IInv, Emptied, ToCome, Stages
<1>3. CASE Admits("two_sided")
  <2>1. pc' = "pair" /\ UNCHANGED <<stage, replicate, episode>>
    BY <1>3 DEF FinishBuild, counters
  <2>2. TypeOK'
    BY <1>0, <2>1, TypesStay DEF IInv, TypeOK
  <2>3. Planned' /\ Ahead' /\ Emptied'
    BY <1>0, <2>1 DEF IInv, Planned, InStage, Ahead, Emptied, ToCome
  <2>. QED  BY <1>1, <2>2, <2>3 DEF IInv
<1>4. CASE ~Admits("two_sided")
  <2>1. OnlineOrSummary
    BY <1>4 DEF FinishBuild
  <2>2. /\ Ahead' /\ Planned' /\ Emptied' /\ pc' \in {"open", "summary"} /\ stage' \in Stages
        /\ replicate' \in Nat \ {0} /\ episode' \in 1 .. Episodes
    BY <1>0, <1>2, <2>1, OnlineOrSummaryIs
  <2>3. TypeOK'
    BY <1>0, <2>2, TypesStay DEF IInv, TypeOK
  <2>. QED  BY <1>1, <2>2, <2>3 DEF IInv
<1>. QED  BY <1>3, <1>4

LEMMA MeasurePairsIInv == IInv /\ MeasurePairs => IInv'
<1>. SUFFICES ASSUME IInv, MeasurePairs  PROVE IInv'
  OBVIOUS
<1>0. /\ pc = "pair" /\ plan \in Plans /\ UNCHANGED <<half, recorded, committed, rows, plan, processes, kills>>
      /\ files' = files \cup {"primary"} /\ files' \subseteq Names
  BY FilesAre DEF IInv, Planned, TypeOK, MeasurePairs
<1>1. Filed' /\ OneProcess' /\ Sorted'
  BY <1>0, RowsStay
<1>2. rows["online"] = <<>> /\ rows["frozen"] = <<>> /\ \A s \in Stages : rows[s] = <<>>
  BY <1>0 DEF IInv, Emptied, ToCome, Stages
<1>3. CASE plan.episodes
  <2>1. Open("frozen") /\ "frozen" \in Stages
    BY <1>3 DEF MeasurePairs, Stages
  <2>2. /\ Ahead' /\ replicate' <= plan'.replicates /\ pc' = "open" /\ stage' = "frozen"
        /\ replicate' \in Nat \ {0} /\ episode' \in 1 .. Episodes
    BY <1>0, <1>2, <2>1, OpenIs
  <2>3. Planned' /\ Emptied'
    BY <1>0, <1>2, <2>2 DEF IInv, Planned, Emptied
  <2>4. TypeOK'
    BY <1>0, <2>1, <2>2, TypesStay DEF IInv
  <2>. QED  BY <1>1, <2>2, <2>3, <2>4 DEF IInv
<1>4. CASE ~plan.episodes
  <2>1. OnlineOrSummary
    BY <1>4 DEF MeasurePairs
  <2>2. /\ Ahead' /\ Planned' /\ Emptied' /\ pc' \in {"open", "summary"} /\ stage' \in Stages
        /\ replicate' \in Nat \ {0} /\ episode' \in 1 .. Episodes
    BY <1>0, <1>2, <2>1, OnlineOrSummaryIs
  <2>3. TypeOK'
    BY <1>0, <2>2, TypesStay DEF IInv
  <2>. QED  BY <1>1, <2>2, <2>3 DEF IInv
<1>. QED  BY <1>3, <1>4

LEMMA OpenReplicateIInv == IInv /\ OpenReplicate => IInv'
<1>. SUFFICES ASSUME IInv, OpenReplicate  PROVE IInv'
  OBVIOUS
<1>0. /\ pc = "open" /\ UNCHANGED <<half, recorded, committed, rows, plan, stage, replicate, episode, processes, kills>>
      /\ files \subseteq files' /\ files' \subseteq Names /\ pc' \in {"episode", "down"}
  BY FilesAre DEF IInv, TypeOK, OpenReplicate, counters
<1>1. Filed' /\ OneProcess' /\ Sorted'
  BY <1>0, RowsStay
<1>2. TypeOK'
  BY <1>0, TypesStay DEF IInv, TypeOK
<1>3. Planned' /\ Ahead' /\ Emptied'
  BY <1>0 DEF IInv, Planned, InStage, Ahead, Now, Precedes, Emptied, ToCome
<1>. QED  BY <1>1, <1>2, <1>3 DEF IInv

LEMMA RunEpisodeIInv == ASSUME NEW solved \in BOOLEAN PROVE IInv /\ RunEpisode(solved) => IInv'
<1>. SUFFICES ASSUME IInv, RunEpisode(solved)  PROVE IInv'
  OBVIOUS
<1>0. /\ pc = "episode" /\ UNCHANGED <<half, recorded, committed, rows, plan, stage, replicate, episode, processes, kills>>
      /\ files \subseteq files' /\ pc' = "row" /\ stage \in Stages
      /\ files' \subseteq files \cup {In(stage, Transcripts[stage])}
  BY DEF IInv, TypeOK, RunEpisode, counters
<1>1. files' \subseteq Names
  BY <1>0, FilesAre, InIs DEF IInv, TypeOK
<1>2. Filed' /\ OneProcess' /\ Sorted'
  BY <1>0, RowsStay
<1>3. TypeOK'
  BY <1>0, <1>1, TypesStay DEF IInv, TypeOK
<1>4. Planned' /\ Ahead' /\ Emptied'
  BY <1>0 DEF IInv, Planned, InStage, Ahead, Now, Precedes, Emptied, ToCome
<1>. QED  BY <1>2, <1>3, <1>4 DEF IInv

(* The row to come is after all rows of its stage, so the ledger stays in   *)
(* order, and the next one is after it.                                     *)
LEMMA AppendRowIInv == IInv /\ AppendRow => IInv'
<1>. SUFFICES ASSUME IInv, AppendRow  PROVE IInv'
  OBVIOUS
<1>. DEFINE new == [replicate |-> replicate, episode |-> episode, process |-> processes]
<1>0. /\ pc = "row" /\ stage \in Stages /\ plan \in Plans
      /\ UNCHANGED <<half, recorded, committed, plan, processes, kills, stage>>
      /\ files' = files \cup {In(stage, Ledger[stage])}
      /\ rows' = [rows EXCEPT ![stage] = Append(rows[stage], new)]
      /\ replicate \in Nat \ {0} /\ replicate <= plan.replicates
      /\ episode \in 1 .. Episodes /\ processes \in Nat
  BY DEF IInv, TypeOK, Planned, InStage, AppendRow, counters
<1>1. plan.replicates \in Nat \ {0} /\ Episodes \in Nat \ {0}
  BY <1>0, BoundsAre
<1>2. DOMAIN rows = Stages /\ rows[stage] \in Seq(Row) /\ new \in Row
  BY <1>0 DEF IInv, TypeOK, Row
<1>3. /\ \A s \in Stages \ {stage} : rows'[s] = rows[s]
      /\ rows'[stage] = Append(rows[stage], new)
      /\ DOMAIN rows' = Stages
  BY <1>0, <1>2
<1>4. /\ rows'[stage] \in Seq(Row) /\ Len(rows'[stage]) = Len(rows[stage]) + 1
      /\ \A i \in 1 .. Len(rows[stage]) : rows'[stage][i] = rows[stage][i]
      /\ rows'[stage][Len(rows[stage]) + 1] = new
      /\ Len(rows[stage]) \in Nat
  BY <1>2, <1>3
<1>5. /\ pc' \in {"open", "episode", "ledger"}
      /\ replicate' \in Nat \ {0} /\ episode' \in 1 .. Episodes /\ replicate' <= plan'.replicates
      /\ pc' # "ledger" => (\/ replicate < replicate'
                           \/ (replicate' = replicate /\ episode < episode'))
  <2>1. CASE episode < Episodes
    <3>1. pc' = "episode" /\ episode' = episode + 1 /\ UNCHANGED <<stage, replicate>>
      BY <2>1 DEF AppendRow
    <3>2. episode' \in 1 .. Episodes /\ episode < episode'
      BY <1>0, <1>1, <2>1, <3>1
    <3>. QED  BY <1>0, <3>1, <3>2
  <2>2. CASE ~(episode < Episodes) /\ replicate < plan.replicates
    <3>1. pc' = "open" /\ replicate' = replicate + 1 /\ episode' = 1
      BY <2>2 DEF AppendRow
    <3>. QED  BY <1>0, <1>1, <2>2, <3>1
  <2>3. CASE ~(episode < Episodes) /\ ~(replicate < plan.replicates)
    <3>1. pc' = "ledger" /\ UNCHANGED <<stage, replicate, episode>>
      BY <2>3 DEF AppendRow, counters
    <3>. QED  BY <1>0, <3>1
  <2>. QED  BY <2>1, <2>2, <2>3
<1>6. files' \subseteq Names /\ (Ledger[stage] \in files' \/ Directory[stage] \in files')
  BY <1>0, FilesAre, InIs DEF IInv, TypeOK
<1>7. TypeOK'
  <2>1. \A s \in Stages : rows'[s] \in Seq([replicate : Nat, episode : 1 .. Episodes, process : Nat])
    BY <1>3, <1>4 DEF IInv, TypeOK, Row
  <2>2. half' \subseteq files'
    BY <1>0 DEF IInv, TypeOK
  <2>. QED  BY <1>0, <1>3, <1>5, <1>6, <2>1, <2>2 DEF IInv, TypeOK
<1>8. Planned' /\ Emptied'
  BY <1>0, <1>3, <1>5 DEF IInv, Planned, Emptied, ToCome, InStage
<1>9. Filed'
  BY <1>0, <1>3, <1>6 DEF IInv, Filed
<1>10. OneProcess'
  <2>1. \A i \in 1 .. Len(rows'[stage]) : rows'[stage][i].process = processes
    BY <1>0, <1>4 DEF IInv, OneProcess
  <2>. QED  BY <1>0, <1>3, <2>1 DEF IInv, OneProcess
<1>11. \A i \in 1 .. Len(rows[stage]) : Precedes(rows[stage][i], new)
  BY <1>0 DEF IInv, Ahead, Precedes, Now
<1>12. Sorted'
  <2>1. \A i, j \in 1 .. Len(rows'[stage]) : i < j => Precedes(rows'[stage][i], rows'[stage][j])
    <3>. SUFFICES ASSUME NEW i \in 1 .. Len(rows'[stage]), NEW j \in 1 .. Len(rows'[stage]), i < j
                  PROVE  Precedes(rows'[stage][i], rows'[stage][j])
      OBVIOUS
    <3>1. i \in 1 .. Len(rows[stage]) /\ rows'[stage][i] = rows[stage][i]
      BY <1>4
    <3>2. CASE j \in 1 .. Len(rows[stage])
      BY <1>0, <1>4, <3>1, <3>2 DEF IInv, Sorted
    <3>3. CASE j = Len(rows[stage]) + 1
      BY <1>4, <1>11, <3>1, <3>3
    <3>. QED  BY <1>4, <3>2, <3>3
  <2>2. \A s \in Stages : \A i, j \in 1 .. Len(rows'[s]) : i < j => Precedes(rows'[s][i], rows'[s][j])
    BY <1>3, <2>1 DEF IInv, Sorted
  <2>. QED  BY <2>2 DEF Sorted, Precedes
<1>13. Ahead'
  <2>. SUFFICES ASSUME pc' \in {"open", "episode"}, NEW i \in 1 .. Len(rows'[stage])
                PROVE  \/ rows'[stage][i].replicate < replicate'
                       \/ rows'[stage][i].replicate = replicate' /\ rows'[stage][i].episode < episode'
    BY <1>0, <1>5 DEF Ahead, Precedes, Now
  <2>1. replicate < replicate' \/ (replicate' = replicate /\ episode < episode')
    BY <1>5
  <2>2. CASE i \in 1 .. Len(rows[stage])
    <3>1. rows[stage][i] \in Row
      BY <1>2, <2>2
    <3>2. /\ rows[stage][i].replicate \in Nat /\ rows[stage][i].episode \in Nat
      BY <3>1 DEF Row
    <3>3. \/ rows[stage][i].replicate < replicate
          \/ rows[stage][i].replicate = replicate /\ rows[stage][i].episode < episode
      BY <1>11, <2>2 DEF Precedes
    <3>. QED  BY <1>0, <1>4, <1>5, <2>1, <2>2, <3>2, <3>3
  <2>3. CASE i = Len(rows[stage]) + 1
    BY <1>4, <2>1, <2>3
  <2>. QED  BY <1>4, <2>2, <2>3
<1>. QED  BY <1>7, <1>8, <1>9, <1>10, <1>12, <1>13 DEF IInv

LEMMA FinishStageIInv == IInv /\ FinishStage => IInv'
<1>. SUFFICES ASSUME IInv, FinishStage  PROVE IInv'
  OBVIOUS
<1>0. /\ pc = "ledger" /\ plan \in Plans /\ stage \in Stages
      /\ UNCHANGED <<half, recorded, committed, rows, plan, processes, kills>>
      /\ files' = files \cup {Ledger[stage]}
  BY DEF IInv, TypeOK, Planned, FinishStage
<1>1. files' \subseteq Names
  BY <1>0, FilesAre DEF IInv, TypeOK
<1>2. Filed' /\ OneProcess' /\ Sorted'
  BY <1>0, RowsStay
<1>3. CASE stage = "frozen"
  <2>1. Open("positive_only") /\ "positive_only" \in Stages
    BY <1>3 DEF FinishStage, Stages
  <2>2. rows["positive_only"] = <<>> /\ rows["online"] = <<>>
    BY <1>0, <1>3 DEF IInv, Emptied, ToCome, InStage, Stages
  <2>3. /\ Ahead' /\ replicate' <= plan'.replicates /\ pc' = "open" /\ stage' = "positive_only"
        /\ replicate' \in Nat \ {0} /\ episode' \in 1 .. Episodes
    BY <1>0, <2>1, <2>2, OpenIs
  <2>4. Planned' /\ Emptied'
    BY <1>0, <2>2, <2>3 DEF IInv, Planned, Emptied, ToCome
  <2>5. TypeOK'
    BY <1>0, <1>1, <2>1, <2>3, TypesStay DEF IInv
  <2>. QED  BY <1>2, <2>3, <2>4, <2>5 DEF IInv
<1>4. CASE stage = "positive_only"
  <2>1. pc' = "factorial" /\ UNCHANGED <<stage, replicate, episode>>
    BY <1>4 DEF FinishStage, counters
  <2>2. Planned' /\ Ahead' /\ Emptied'
    BY <1>0, <1>4, <2>1 DEF IInv, Planned, InStage, Ahead, Emptied, ToCome
  <2>3. TypeOK'
    BY <1>0, <1>1, <2>1, TypesStay DEF IInv, TypeOK
  <2>. QED  BY <1>2, <2>2, <2>3 DEF IInv
<1>5. CASE stage = "online"
  <2>1. pc' = "summary" /\ UNCHANGED <<stage, replicate, episode>>
    BY <1>5 DEF FinishStage, counters
  <2>2. Planned' /\ Ahead' /\ Emptied'
    BY <1>0, <1>5, <2>1 DEF IInv, Planned, InStage, Ahead, Emptied, ToCome
  <2>3. TypeOK'
    BY <1>0, <1>1, <2>1, TypesStay DEF IInv, TypeOK
  <2>. QED  BY <1>2, <2>2, <2>3 DEF IInv
<1>. QED  BY <1>0, <1>3, <1>4, <1>5 DEF Stages

LEMMA WriteReportIInv == IInv /\ WriteReport => IInv'
<1>. SUFFICES ASSUME IInv, WriteReport  PROVE IInv'
  OBVIOUS
<1>0. /\ pc = "report" /\ plan \in Plans /\ stage = "positive_only" /\ OnlineOrSummary
      /\ UNCHANGED <<half, recorded, committed, rows, plan, processes, kills>>
      /\ files' = files \cup {"report"} /\ files' \subseteq Names
  BY FilesAre DEF IInv, TypeOK, Planned, WriteReport
<1>1. Filed' /\ OneProcess' /\ Sorted'
  BY <1>0, RowsStay
<1>2. rows["online"] = <<>>
  BY <1>0 DEF IInv, Emptied, ToCome, Stages
<1>3. /\ Ahead' /\ Planned' /\ Emptied' /\ pc' \in {"open", "summary"} /\ stage' \in Stages
      /\ replicate' \in Nat \ {0} /\ episode' \in 1 .. Episodes
  BY <1>0, <1>2, OnlineOrSummaryIs
<1>4. TypeOK'
  BY <1>0, <1>3, TypesStay DEF IInv
<1>. QED  BY <1>1, <1>3, <1>4 DEF IInv

(* The writes that only move the process on.                                *)
LEMMA WritesIInv == IInv /\ (WriteFactorial \/ WriteSummary \/ WriteText) => IInv'
<1>. SUFFICES ASSUME IInv, WriteFactorial \/ WriteSummary \/ WriteText  PROVE IInv'
  OBVIOUS
<1>0. /\ UNCHANGED <<half, recorded, committed, rows, plan, processes, kills, stage, replicate, episode>>
      /\ files \subseteq files' /\ files' \subseteq Names
      /\ (pc = "factorial" /\ pc' = "report") \/ pc' \in {"text", "finished"}
      /\ plan \in Plans
  BY FilesAre DEF IInv, TypeOK, Planned, WriteFactorial, WriteSummary, WriteText, counters
<1>1. Filed' /\ OneProcess' /\ Sorted'
  BY <1>0, RowsStay
<1>2. TypeOK'
  BY <1>0, TypesStay DEF IInv, TypeOK
<1>3. Planned' /\ Ahead' /\ Emptied'
  BY <1>0 DEF IInv, Planned, InStage, Ahead, Emptied, ToCome
<1>. QED  BY <1>1, <1>2, <1>3 DEF IInv

LEMMA KillsIInv == IInv /\ (Kill \/ KillInWrite) => IInv'
<1>. SUFFICES ASSUME IInv, Kill \/ KillInWrite  PROVE IInv'
  OBVIOUS
<1>0. /\ UNCHANGED <<recorded, committed, rows, plan, processes, stage, replicate, episode>>
      /\ pc' = "down" /\ kills < MaxKills /\ kills' = kills + 1 /\ pc # "none"
      /\ \/ UNCHANGED <<files, half>>
         \/ files' = files \cup {"plan.json"} /\ half' = half \cup {"plan.json"}
         \/ files' = files \cup {"summary.json"} /\ half' = half \cup {"summary.json"}
  BY DEF Kill, KillInWrite, Running, disk, counters
<1>1. Filed' /\ OneProcess' /\ Sorted'
  BY <1>0, RowsStay
<1>2. files' \subseteq Names /\ half' \subseteq files' /\ half' \subseteq {"plan.json", "summary.json"}
  BY <1>0, FilesAre DEF IInv, TypeOK, Planned
<1>3. kills' \in 0 .. MaxKills
  BY <1>0, BoundsAre DEF IInv, TypeOK
<1>4. TypeOK'
  BY <1>0, <1>2, <1>3 DEF IInv, TypeOK
<1>5. Planned' /\ Ahead' /\ Emptied'
  BY <1>0, <1>2 DEF IInv, Planned, InStage, Ahead, Emptied, ToCome
<1>. QED  BY <1>1, <1>4, <1>5 DEF IInv

LEMMA EmptyIsSeq == \A S : <<>> \in Seq(S)
  OBVIOUS

(* A run that may be resumed has measured nothing yet.                      *)
LEMMA NothingMeasured ==
    ASSUME IInv, NEW p, MayResume(p)
    PROVE  /\ files \cap MeasuredFiles = {}
           /\ \A s \in Stages : rows[s] = <<>> /\ Len(rows[s]) = 0
<1>1. files \subseteq BuildFiles \cup PairLevel
  BY DEF MayResume
<1>2. files \cap MeasuredFiles = {}
  BY <1>1, FilesAre
<1>3. \A s \in Stages : rows[s] = <<>>
  BY <1>1, FilesAre DEF IInv, Filed
<1>. QED  BY <1>2, <1>3

LEMMA ResumeIInv == ASSUME NEW p \in Plans PROVE IInv /\ Resume(p) => IInv'
<1>. SUFFICES ASSUME IInv, Resume(p)  PROVE IInv'
  OBVIOUS
<1>0. /\ UNCHANGED <<half, recorded, committed, kills, stage, replicate, episode>>
      /\ files' = files \cap BuildFiles /\ plan' = p /\ pc' = "build" /\ processes' = processes + 1
      /\ "plan.json" \in files \ half /\ "summary.json" \notin files
  BY DEF Resume, MayResume, counters
<1>1. \A s \in Stages : rows[s] = <<>> /\ Len(rows[s]) = 0
  BY NothingMeasured DEF Resume
<1>2. \A s \in Stages : rows'[s] = <<>> /\ Len(rows'[s]) = 0
  BY <1>1 DEF Resume
<1>3. DOMAIN rows' = Stages
  BY DEF Resume
<1>4. half' \subseteq files'
  BY <1>0 DEF IInv, TypeOK, Planned
<1>5. TypeOK'
  <2>1. \A s \in Stages : rows'[s] \in Seq([replicate : Nat, episode : 1 .. Episodes, process : Nat])
    BY <1>2, EmptyIsSeq
  <2>2. files' \subseteq Names
    BY <1>0, FilesAre
  <2>3. processes' \in Nat /\ plan' \in Plans
    BY <1>0 DEF IInv, TypeOK
  <2>. QED  BY <1>0, <1>3, <1>4, <2>1, <2>2, <2>3 DEF IInv, TypeOK
<1>6. Planned' /\ Ahead' /\ Emptied'
  BY <1>0, <1>2 DEF IInv, Planned, InStage, Ahead, Emptied
<1>7. Filed' /\ OneProcess' /\ Sorted'
  BY <1>2 DEF Filed, OneProcess, Sorted
<1>. QED  BY <1>5, <1>6, <1>7 DEF IInv

LEMMA StutterIInv == IInv /\ UNCHANGED vars => IInv'
<1>. SUFFICES ASSUME IInv, UNCHANGED vars  PROVE IInv'
  OBVIOUS
<1>1. UNCHANGED <<files, half, recorded, committed, rows, pc, plan, stage, replicate, episode, processes, kills>>
  BY DEF vars, disk, counters
<1>2. TypeOK'
  BY <1>1 DEF IInv, TypeOK
<1>3. Filed' /\ OneProcess' /\ Sorted'
  BY <1>1, RowsStay
<1>4. Planned' /\ Ahead' /\ Emptied'
  BY <1>1 DEF IInv, Planned, Ahead, Precedes, Now, Emptied, ToCome
<1>. QED  BY <1>2, <1>3, <1>4 DEF IInv

LEMMA NextIInv == IInv /\ [Next]_vars => IInv'
<1>. SUFFICES ASSUME IInv, [Next]_vars  PROVE IInv'
  OBVIOUS
<1>1. ASSUME NEW p \in Plans, Start(p) \/ Resume(p)  PROVE IInv'
  BY <1>1, StartIInv, ResumeIInv
<1>2. CASE Step
  BY <1>2, WritePlanIInv, BuildEpisodeIInv, FinishBuildIInv, MeasurePairsIInv, OpenReplicateIInv,
     RunEpisodeIInv, AppendRowIInv, FinishStageIInv, WriteReportIInv, WritesIInv DEF Step
<1>3. CASE Kill \/ KillInWrite
  BY <1>3, KillsIInv
<1>4. CASE UNCHANGED vars
  BY <1>4, StutterIInv
<1>. QED  BY <1>1, <1>2, <1>3, <1>4 DEF Next

LEMMA Invariance == Spec => []IInv
  BY InitIInv, NextIInv, PTL DEF Spec

-----------------------------------------------------------------------------

(* The run's files, counters, rows and plan stay what they are: a program   *)
(* counter the code has, counters in bounds, rows of an episode each.       *)
THEOREM TypeCorrect == Spec => []TypeOK
<1>1. IInv => TypeOK
  BY DEF IInv
<1>. QED  BY <1>1, Invariance, PTL

(* live.py's promise that a resumed run stitches no measurement together:   *)
(* all rows of all episode stages are one process's, and no episode of a    *)
(* replicate has two, wherever and however often the run was killed.        *)
THEOREM NeverStitchedHolds == Spec => []NeverStitched
<1>1. IInv => NeverStitched
  <2>. SUFFICES ASSUME IInv, NEW s \in Stages, NEW t \in Stages,
                       NEW i \in 1 .. Len(rows[s]), NEW j \in 1 .. Len(rows[t])
                PROVE  /\ rows[s][i].process = rows[t][j].process
                       /\ s = t /\ rows[s][i] = rows[t][j] => i = j
    BY DEF NeverStitched
  <2>1. rows[s][i].process = rows[t][j].process
    BY DEF IInv, OneProcess
  <2>2. ASSUME s = t, rows[s][i] = rows[t][j], i # j  PROVE FALSE
    <3>1. Precedes(rows[s][i], rows[s][j]) \/ Precedes(rows[s][j], rows[s][i])
      <4>1. i < j \/ j < i
        BY <2>2
      <4>. QED  BY <2>2, <4>1 DEF IInv, Sorted
    <3>2. rows[s] \in Seq(Row)
      BY DEF IInv, TypeOK, Row
    <3>3. rows[s][i] \in Row
      BY <3>2
    <3>4. rows[s][i].replicate \in Nat /\ rows[s][i].episode \in Nat
      BY <3>3 DEF Row
    <3>. QED  BY <2>2, <3>1, <3>4 DEF Precedes
  <2>. QED  BY <2>1, <2>2
<1>. QED  BY <1>1, Invariance, PTL

(* _check_resumable's promise: what a resume removes and what it starts     *)
(* from anew is never a measurement; no step loses a row or a file of one.  *)
THEOREM MeasurementsKeptHolds == Spec => MeasurementsKept
<1>. DEFINE Kept == /\ files \cap MeasuredFiles \subseteq files'
                    /\ \A s \in Stages : rows[s] = SubSeq(rows'[s], 1, Len(rows[s]))
<1>1. IInv /\ [Next]_vars => [Kept]_vars
  <2>. SUFFICES ASSUME IInv, [Next]_vars  PROVE Kept
    OBVIOUS
  <2>0. \A s \in Stages : rows[s] \in Seq(Row)
    BY DEF IInv, TypeOK, Row
  <2>1. \A s \in Stages : rows[s] = SubSeq(rows[s], 1, Len(rows[s]))
    BY <2>0
  <2>2. CASE files \subseteq files' /\ UNCHANGED rows
    BY <2>1, <2>2
  <2>3. CASE AppendRow
    <3>1. /\ files \subseteq files' /\ stage \in Stages /\ DOMAIN rows = Stages
          /\ rows' = [rows EXCEPT ![stage] = Append(rows[stage],
                 [replicate |-> replicate, episode |-> episode, process |-> processes])]
      BY <2>3 DEF IInv, TypeOK, AppendRow
    <3>2. [replicate |-> replicate, episode |-> episode, process |-> processes] \in Row
      BY DEF IInv, TypeOK, Row
    <3>3. \A s \in Stages \ {stage} : rows'[s] = rows[s]
      BY <3>1
    <3>4. rows[stage] = SubSeq(rows'[stage], 1, Len(rows[stage]))
      BY <2>0, <3>1, <3>2
    <3>. QED  BY <2>1, <3>1, <3>3, <3>4
  <2>4. ASSUME NEW p \in Plans, Resume(p)  PROVE Kept
    <3>1. MayResume(p)
      BY <2>4 DEF Resume
    <3>2. files \cap MeasuredFiles = {} /\ \A s \in Stages : rows[s] = <<>> /\ Len(rows[s]) = 0
      BY <3>1, NothingMeasured
    <3>3. \A s \in Stages : rows'[s] = <<>>
      BY <2>4, <3>2 DEF Resume
    <3>. QED  BY <2>1, <3>2, <3>3
  <2>5. CASE UNCHANGED vars
    BY <2>2, <2>5 DEF vars, disk
  <2>6. ASSUME NEW p \in Plans, Start(p)  PROVE Kept
    BY <2>2, <2>6 DEF Start, disk
  <2>7. CASE Kill \/ KillInWrite
    BY <2>2, <2>7 DEF Kill, KillInWrite, disk
  <2>8. CASE Step /\ ~AppendRow
    BY <2>2, <2>8 DEF Step, WritePlan, BuildEpisode, FinishBuild, MeasurePairs, OpenReplicate, RunEpisode,
       FinishStage, WriteFactorial, WriteReport, WriteSummary, WriteText, disk
  <2>. QED  BY <2>3, <2>4, <2>5, <2>6, <2>7, <2>8 DEF Next
<1>. QED  BY <1>1, Invariance, PTL DEF Spec, MeasurementsKept

-----------------------------------------------------------------------------
(* What a complete summary stands for, strengthened to be inductive.        *)

(* The replicates and episodes of a stage that have a row, all a plan has,  *)
(* and those before a place.                                                *)
Seen(s) == {<<rows[s][i].replicate, rows[s][i].episode>> : i \in 1 .. Len(rows[s])}

AllOf(p) == (1 .. p.replicates) \X (1 .. Episodes)

Before(r, e) == {x \in AllOf(plan) : x[1] < r \/ (x[1] = r /\ x[2] < e)}

(* Past the build the process runs the recorded plan on a whole build, and  *)
(* a library that admitted something is measured at the pair level.         *)
Built ==
    /\ pc \notin {"none", "plan", "down"} => recorded = plan
    /\ pc \notin {"none", "plan", "build", "down"} => Len(committed) = BuildEpisodes
    /\ pc \notin {"none", "plan", "build", "pair", "down"} /\ Admits("two_sided") =>
           "primary" \in files
    /\ pc = "pair" => Admits("two_sided")

(* The stage that runs is one of the plan's, and has a row of each episode  *)
(* before this one.                                                         *)
Current ==
    /\ pc \in InStage => stage \in StagesOf(plan)
    /\ pc \in {"factorial", "report"} => "frozen" \in StagesOf(plan)
    /\ pc \in {"open", "episode", "row"} => Seen(stage) = Before(replicate, episode)
    /\ pc = "ledger" => Seen(stage) = AllOf(plan)

(* A stage the process has left behind is whole, or is none of the plan's.  *)
LeftBehind(s) ==
    \/ pc \in {"summary", "text", "finished"}
    \/ pc \in InStage /\ stage = "online" /\ s # "online"
    \/ pc \in InStage /\ stage = "positive_only" /\ s = "frozen"
    \/ pc \in {"factorial", "report"} /\ s # "online"

WholeStage(s) ==
    IF s \in StagesOf(plan) THEN Seen(s) = AllOf(plan) /\ Ledger[s] \in files ELSE rows[s] = <<>>

Behind == \A s \in Stages : LeftBehind(s) => WholeStage(s)

(* The report on the frozen arms is there before anything that follows it.  *)
Reported ==
    /\ pc = "report" => "factorial.jsonl" \in files
    /\ LeftBehind("positive_only") /\ pc \notin {"factorial", "report"}
           /\ "frozen" \in StagesOf(plan) => {"factorial.jsonl", "report"} \subseteq files

(* There is no going on from a summary.                                     *)
Summed == "summary.json" \in files => pc \in {"text", "finished", "down"}

WholeInv == IInv /\ Built /\ Current /\ Behind /\ Reported /\ Summed /\ SummaryIsWhole


(* The places of a plan are numbers, in the order of the replicates.        *)
LEMMA BeforeIs ==
    ASSUME plan \in Plans
    PROVE  /\ Before(1, 1) = {}
           /\ \A r, e : \A x : x \in Before(r, e) <=>
                  /\ x \in (1 .. plan.replicates) \X (1 .. Episodes)
                  /\ x[1] < r \/ (x[1] = r /\ x[2] < e)
<1>1. plan.replicates \in Nat \ {0} /\ Episodes \in Nat \ {0}
  BY BoundsAre
<1>2. \A x \in (1 .. plan.replicates) \X (1 .. Episodes) :
          x[1] \in 1 .. plan.replicates /\ x[2] \in 1 .. Episodes
  OBVIOUS
<1>. QED  BY <1>1, <1>2 DEF Before, AllOf

LEMMA SeenNone == ASSUME NEW s, rows[s] = <<>>  PROVE Seen(s) = {}
  BY DEF Seen

(* What stays as it was while no row, commit or plan changes and no file    *)
(* goes.                                                                    *)
LEMMA StandsStill ==
    ASSUME UNCHANGED <<rows, committed, plan>>, files \subseteq files'
    PROVE  /\ \A s \in Stages : WholeStage(s) => WholeStage(s)'
           /\ \A s : Seen(s)' = Seen(s)
           /\ \A r, e : Before(r, e)' = Before(r, e)
           /\ AllOf(plan)' = AllOf(plan)
           /\ StagesOf(plan)' = StagesOf(plan)
           /\ Admits("two_sided") <=> Admits("two_sided")'
<1>1. StagesOf(plan)' = StagesOf(plan) /\ AllOf(plan)' = AllOf(plan)
      /\ (Admits("two_sided") <=> Admits("two_sided")')
  BY DEF StagesOf, AllOf, Admits
<1>2. \A s : Seen(s)' = Seen(s)
  BY DEF Seen
<1>3. \A r, e : Before(r, e)' = Before(r, e)
  BY DEF Before, AllOf
<1>4. ASSUME NEW s \in Stages, WholeStage(s)  PROVE WholeStage(s)'
  BY <1>1, <1>2, <1>4 DEF WholeStage
<1>. QED  BY <1>1, <1>2, <1>3, <1>4

LEMMA InitWholeInv == Init => WholeInv
<1>. SUFFICES ASSUME Init  PROVE WholeInv
  OBVIOUS
<1>1. pc = "none" /\ files = {}
  BY DEF Init
<1>2. Built /\ Current /\ Behind /\ Reported /\ Summed /\ SummaryIsWhole
  BY <1>1 DEF Built, Current, Behind, LeftBehind, InStage, Reported, Summed, SummaryIsWhole
<1>. QED  BY <1>2, InitIInv DEF WholeInv

(* Before a summary is written, a step that opens no stage and finishes     *)
(* none has nothing to show.                                                *)
LEMMA NoSummaryYet ==
    ASSUME IInv', "summary.json" \notin files', Built',
           pc' \in {"none", "plan", "build", "pair", "down"}
    PROVE  WholeInv'
  BY DEF WholeInv, Current, Behind, LeftBehind, InStage, Reported, Summed, SummaryIsWhole

LEMMA NoSummaryIs ==
    ASSUME WholeInv, pc \notin {"text", "finished", "down"}
    PROVE  "summary.json" \notin files
  BY DEF WholeInv, Summed

LEMMA StartWhole == ASSUME NEW p \in Plans PROVE WholeInv /\ Start(p) => WholeInv'
<1>. SUFFICES ASSUME WholeInv, Start(p)  PROVE WholeInv'
  OBVIOUS
<1>1. pc = "none" /\ pc' = "plan" /\ files' = files /\ IInv'
  BY StartIInv DEF WholeInv, Start, disk
<1>2. Built'
  BY <1>1 DEF Built
<1>. QED  BY <1>1, <1>2, NoSummaryIs, NoSummaryYet

LEMMA WritePlanWhole == WholeInv /\ WritePlan => WholeInv'
<1>. SUFFICES ASSUME WholeInv, WritePlan  PROVE WholeInv'
  OBVIOUS
<1>1. /\ pc = "plan" /\ pc' = "build" /\ files' = files \cup {"plan.json"} /\ IInv'
      /\ recorded' = plan /\ plan' = plan
  BY WritePlanIInv DEF WholeInv, WritePlan
<1>2. Built'
  BY <1>1 DEF Built
<1>. QED  BY <1>1, <1>2, NoSummaryIs, NoSummaryYet

LEMMA BuildEpisodeWhole ==
    ASSUME NEW admitted \in Gates PROVE WholeInv /\ BuildEpisode(admitted) => WholeInv'
<1>. SUFFICES ASSUME WholeInv, BuildEpisode(admitted)  PROVE WholeInv'
  OBVIOUS
<1>1. /\ pc = "build" /\ pc' = "build" /\ files' = files \cup {"build"} /\ IInv'
      /\ recorded' = recorded /\ plan' = plan
  BY BuildEpisodeIInv DEF WholeInv, BuildEpisode
<1>2. Built'
  BY <1>1 DEF WholeInv, Built
<1>. QED  BY <1>1, <1>2, NoSummaryIs, NoSummaryYet

(* The online arms, or the summary, once the frozen arms are behind or not  *)
(* of the plan.                                                             *)
LEMMA OnlineOrSummaryWhole ==
    ASSUME WholeInv, IInv', OnlineOrSummary, UNCHANGED <<rows, committed, recorded, plan>>,
           plan \in Plans, recorded = plan, Len(committed) = BuildEpisodes,
           files \subseteq files', "summary.json" \notin files', rows["online"] = <<>>,
           WholeStage("frozen")', WholeStage("positive_only")',
           Admits("two_sided") => "primary" \in files',
           "frozen" \in StagesOf(plan) => {"factorial.jsonl", "report"} \subseteq files'
    PROVE  WholeInv'
<1>0. /\ StagesOf(plan)' = StagesOf(plan) /\ (Admits("two_sided") <=> Admits("two_sided")')
      /\ \A r, e : Before(r, e)' = Before(r, e)
      /\ Seen("online")' = Seen("online")
  BY StandsStill
<1>1. Seen("online") = {} /\ Before(1, 1) = {}
  BY SeenNone, BeforeIs
<1>2. "online" \in StagesOf(plan) <=> plan.online
  BY DEF StagesOf, Stages
<1>3. pc' \in {"open", "summary"} /\ recorded' = plan' /\ Len(committed') = BuildEpisodes
      /\ plan' = plan
  BY DEF OnlineOrSummary, Open
<1>4. Built' /\ Summed' /\ SummaryIsWhole'
  BY <1>0, <1>3 DEF Built, Summed, SummaryIsWhole
<1>5. Current'
  <2>1. CASE plan.online
    <3>1. pc' = "open" /\ stage' = "online" /\ replicate' = 1 /\ episode' = 1
      BY <2>1 DEF OnlineOrSummary, Open
    <3>2. Seen(stage)' = Before(replicate, episode)'
      <4>1. Seen("online")' = {} /\ Before(1, 1)' = {}
        BY <1>0, <1>1
      <4>. QED  BY <3>1, <4>1 DEF Seen, Before, AllOf
    <3>3. (stage \in StagesOf(plan))'
      BY <1>0, <1>2, <2>1, <3>1
    <3>. QED  BY <3>1, <3>2, <3>3 DEF Current
  <2>2. CASE ~plan.online
    BY <2>2 DEF OnlineOrSummary, Current, InStage
  <2>. QED  BY <2>1, <2>2
<1>6. Behind'
  <2>1. ASSUME ~plan.online  PROVE WholeStage("online")'
    <3>1. "online" \notin StagesOf(plan)' /\ rows'["online"] = <<>>
      BY <1>0, <1>2, <2>1
    <3>. QED  BY <3>1 DEF WholeStage
  <2>2. \A s \in Stages : s = "frozen" \/ s = "positive_only" \/ s = "online"
    BY DEF Stages
  <2>3. ASSUME plan.online  PROVE ~LeftBehind("online")'
    BY <2>3 DEF OnlineOrSummary, Open, LeftBehind, InStage
  <2>4. \A s \in Stages : LeftBehind(s)' => WholeStage(s)'
    BY <2>1, <2>2, <2>3
  <2>. QED  BY <2>4 DEF Behind
<1>7. Reported'
  <2>1. "frozen" \in StagesOf(plan)' => {"factorial.jsonl", "report"} \subseteq files'
    BY <1>0
  <2>. QED  BY <1>3, <2>1 DEF Reported
<1>. QED  BY <1>4, <1>5, <1>6, <1>7 DEF WholeInv

LEMMA FinishBuildWhole == WholeInv /\ FinishBuild => WholeInv'
<1>. SUFFICES ASSUME WholeInv, FinishBuild  PROVE WholeInv'
  OBVIOUS
<1>0. /\ pc = "build" /\ plan \in Plans /\ Len(committed) = BuildEpisodes /\ recorded = plan
      /\ UNCHANGED <<files, half, recorded, committed, rows, plan>> /\ IInv'
  BY FinishBuildIInv DEF WholeInv, Built, IInv, Planned, FinishBuild, disk
<1>1. \A s \in Stages : rows[s] = <<>>
  BY <1>0 DEF WholeInv, IInv, Emptied, ToCome
<1>2. "summary.json" \notin files'
  BY <1>0, NoSummaryIs
<1>3. CASE Admits("two_sided")
  <2>1. pc' = "pair" /\ Admits("two_sided")'
    BY <1>0, <1>3, StandsStill DEF FinishBuild
  <2>2. Built'
    BY <1>0, <2>1 DEF Built
  <2>. QED  BY <1>0, <1>2, <2>1, <2>2, NoSummaryYet
<1>4. CASE ~Admits("two_sided")
  <2>1. OnlineOrSummary
    BY <1>4 DEF FinishBuild
  <2>2. "frozen" \notin StagesOf(plan) /\ "positive_only" \notin StagesOf(plan)
    BY <1>4 DEF StagesOf, Stages
  <2>3. WholeStage("frozen")' /\ WholeStage("positive_only")'
    <3>1. StagesOf(plan)' = StagesOf(plan)
      BY <1>0, StandsStill
    <3>2. rows'["frozen"] = <<>> /\ rows'["positive_only"] = <<>>
      BY <1>0, <1>1 DEF Stages
    <3>. QED  BY <2>2, <3>1, <3>2 DEF WholeStage
  <2>4. rows["online"] = <<>>
    BY <1>1 DEF Stages
  <2>. QED  BY <1>0, <1>2, <1>4, <2>1, <2>2, <2>3, <2>4, OnlineOrSummaryWhole
<1>. QED  BY <1>3, <1>4

(* A stage of the plan is opened: none of it has a row.                     *)
LEMMA OpenWhole ==
    ASSUME WholeInv, IInv', UNCHANGED <<rows, committed, recorded, plan>>,
           plan \in Plans, recorded = plan, Len(committed) = BuildEpisodes,
           files \subseteq files', "summary.json" \notin files',
           NEW s \in {"frozen", "positive_only"}, Open(s), rows[s] = <<>>, s \in StagesOf(plan),
           s = "positive_only" => WholeStage("frozen")',
           Admits("two_sided") => "primary" \in files'
    PROVE  WholeInv'
<1>0. /\ StagesOf(plan)' = StagesOf(plan) /\ (Admits("two_sided") <=> Admits("two_sided")')
      /\ \A r, e : Before(r, e)' = Before(r, e)
      /\ Seen(s)' = Seen(s)
  BY StandsStill
<1>1. pc' = "open" /\ stage' = s /\ replicate' = 1 /\ episode' = 1
  BY DEF Open
<1>2. Built' /\ Summed' /\ SummaryIsWhole'
  BY <1>0, <1>1 DEF Built, Summed, SummaryIsWhole
<1>3. Current'
  <2>1. Seen(s)' = {} /\ Before(1, 1)' = {}
    BY <1>0, SeenNone, BeforeIs
  <2>2. Seen(stage)' = Before(replicate, episode)'
    BY <1>1, <2>1 DEF Seen, Before, AllOf
  <2>. QED  BY <1>0, <1>1, <2>2 DEF Current
<1>4. Behind' /\ Reported'
  BY <1>1 DEF Behind, Reported, LeftBehind, InStage
<1>. QED  BY <1>2, <1>3, <1>4 DEF WholeInv

LEMMA MeasurePairsWhole == WholeInv /\ MeasurePairs => WholeInv'
<1>. SUFFICES ASSUME WholeInv, MeasurePairs  PROVE WholeInv'
  OBVIOUS
<1>0. /\ pc = "pair" /\ plan \in Plans /\ Len(committed) = BuildEpisodes /\ recorded = plan
      /\ UNCHANGED <<half, recorded, committed, rows, plan>> /\ IInv'
      /\ files' = files \cup {"primary"} /\ Admits("two_sided")
  BY MeasurePairsIInv DEF WholeInv, Built, IInv, Planned, MeasurePairs
<1>1. rows["frozen"] = <<>> /\ rows["positive_only"] = <<>> /\ rows["online"] = <<>>
  BY <1>0 DEF WholeInv, IInv, Emptied, ToCome, Stages
<1>2. "summary.json" \notin files' /\ files \subseteq files' /\ "primary" \in files'
  BY <1>0, NoSummaryIs
<1>3. CASE plan.episodes
  <2>1. Open("frozen")
    BY <1>3 DEF MeasurePairs
  <2>2. "frozen" \in StagesOf(plan)
    BY <1>0, <1>3 DEF StagesOf, Stages
  <2>. QED  BY <1>0, <1>1, <1>2, <2>1, <2>2, OpenWhole
<1>4. CASE ~plan.episodes
  <2>1. OnlineOrSummary
    BY <1>4 DEF MeasurePairs
  <2>2. "frozen" \notin StagesOf(plan) /\ "positive_only" \notin StagesOf(plan)
    BY <1>4 DEF StagesOf, Stages
  <2>3. WholeStage("frozen")' /\ WholeStage("positive_only")'
    <3>1. StagesOf(plan)' = StagesOf(plan)
      BY <1>0, <1>2, StandsStill
    <3>2. rows'["frozen"] = <<>> /\ rows'["positive_only"] = <<>>
      BY <1>0, <1>1
    <3>. QED  BY <2>2, <3>1, <3>2 DEF WholeStage
  <2>. QED  BY <1>0, <1>1, <1>2, <2>1, <2>2, <2>3, OnlineOrSummaryWhole
<1>. QED  BY <1>3, <1>4

(* A step inside a stage that adds no row: to its episodes, or to a row, or *)
(* away from it.                                                            *)
LEMMA WithinStage ==
    ASSUME WholeInv, IInv', UNCHANGED <<half, rows, committed, recorded, plan, stage, replicate, episode>>,
           files \subseteq files', "summary.json" \notin files',
           pc \in {"open", "episode"}, pc' \in {"episode", "row", "down"}
    PROVE  WholeInv'
<1>0. /\ \A s \in Stages : WholeStage(s) => WholeStage(s)'
      /\ Seen(stage)' = Seen(stage)
      /\ StagesOf(plan)' = StagesOf(plan)
      /\ (Admits("two_sided") <=> Admits("two_sided")')
  BY StandsStill DEF Seen
<1>1. Built' /\ Summed' /\ SummaryIsWhole'
  BY <1>0 DEF WholeInv, Built, Summed, SummaryIsWhole
<1>2. Current'
  <2>1. pc' # "down" => Seen(stage)' = Before(replicate, episode)'
    <3>1. Seen(stage) = Before(replicate, episode)
      BY DEF WholeInv, Current
    <3>2. Before(replicate, episode)' = Before(replicate, episode)
      BY DEF Before, AllOf
    <3>. QED  BY <1>0, <3>1, <3>2
  <2>2. stage' \in StagesOf(plan)'
    BY <1>0 DEF WholeInv, Current, InStage
  <2>. QED  BY <2>1, <2>2 DEF Current, InStage
<1>3. \A s : LeftBehind(s)' => LeftBehind(s)
  BY DEF LeftBehind, InStage
<1>4. Behind' /\ Reported'
  BY <1>0, <1>3 DEF WholeInv, Behind, Reported
<1>. QED  BY <1>1, <1>2, <1>4 DEF WholeInv

LEMMA OpenReplicateWhole == WholeInv /\ OpenReplicate => WholeInv'
<1>. SUFFICES ASSUME WholeInv, OpenReplicate  PROVE WholeInv'
  OBVIOUS
<1>1. /\ pc = "open" /\ pc' \in {"episode", "down"} /\ IInv' /\ stage \in Stages
      /\ files' = IF plan.replicates = 1 THEN files ELSE files \cup {Directory[stage]}
      /\ UNCHANGED <<half, recorded, committed, rows, plan, stage, replicate, episode>>
  BY OpenReplicateIInv DEF WholeInv, IInv, TypeOK, OpenReplicate, counters
<1>2. "summary.json" \notin files' /\ files \subseteq files'
  BY <1>1, NoSummaryIs DEF Directory, Stages
<1>. QED  BY <1>1, <1>2, WithinStage

LEMMA RunEpisodeWhole ==
    ASSUME NEW solved \in BOOLEAN PROVE WholeInv /\ RunEpisode(solved) => WholeInv'
<1>. SUFFICES ASSUME WholeInv, RunEpisode(solved)  PROVE WholeInv'
  OBVIOUS
<1>1. /\ pc = "episode" /\ pc' = "row" /\ IInv' /\ stage \in Stages
      /\ files' = IF solved THEN files \cup {In(stage, Transcripts[stage])} ELSE files
      /\ UNCHANGED <<half, recorded, committed, rows, plan, stage, replicate, episode>>
  BY RunEpisodeIInv DEF WholeInv, IInv, TypeOK, RunEpisode, counters
<1>2. "summary.json" \notin files' /\ files \subseteq files'
  BY <1>1, NoSummaryIs DEF In, Transcripts, Directory, Stages
<1>. QED  BY <1>1, <1>2, WithinStage

(* The episode's row is the one that was to come.                           *)
LEMMA AppendRowWhole == WholeInv /\ AppendRow => WholeInv'
<1>. SUFFICES ASSUME WholeInv, AppendRow  PROVE WholeInv'
  OBVIOUS
<1>. DEFINE new == [replicate |-> replicate, episode |-> episode, process |-> processes]
            R == plan.replicates
<1>0. /\ pc = "row" /\ stage \in Stages /\ plan \in Plans /\ IInv' /\ IInv
      /\ UNCHANGED <<half, recorded, committed, plan, stage>>
      /\ files' = files \cup {In(stage, Ledger[stage])}
      /\ rows' = [rows EXCEPT ![stage] = Append(rows[stage], new)]
      /\ replicate \in 1 .. R /\ R \in Nat \ {0}
      /\ episode \in 1 .. Episodes /\ processes \in Nat /\ Episodes \in Nat \ {0}
  <2>1. /\ pc = "row" /\ stage \in Stages /\ plan \in Plans /\ IInv' /\ IInv
        /\ UNCHANGED <<half, recorded, committed, plan, stage>>
        /\ files' = files \cup {In(stage, Ledger[stage])}
        /\ rows' = [rows EXCEPT ![stage] = Append(rows[stage], new)]
    BY AppendRowIInv DEF WholeInv, IInv, TypeOK, Planned, AppendRow, counters
  <2>2. R \in Nat \ {0} /\ Episodes \in Nat \ {0}
    BY <2>1, BoundsAre
  <2>3. replicate \in Nat \ {0} /\ replicate <= R /\ episode \in 1 .. Episodes /\ processes \in Nat
    BY <2>1 DEF IInv, TypeOK, Planned, InStage
  <2>. QED  BY <2>1, <2>2, <2>3
<1>1. DOMAIN rows = Stages /\ rows[stage] \in Seq(Row) /\ new \in Row
  BY <1>0 DEF IInv, TypeOK, Row
<1>2. /\ \A s \in Stages \ {stage} : rows'[s] = rows[s]
      /\ rows'[stage] = Append(rows[stage], new)
  BY <1>0, <1>1
<1>3. "summary.json" \notin files' /\ files \subseteq files'
  BY <1>0, NoSummaryIs DEF In, Ledger, Directory, Stages
<1>4. StagesOf(plan)' = StagesOf(plan) /\ (Admits("two_sided") <=> Admits("two_sided")')
  BY <1>0 DEF StagesOf, Admits
<1>5. Seen(stage)' = Before(replicate, episode) \cup {<<replicate, episode>>}
  <2>1. Seen(stage) = Before(replicate, episode)
    BY <1>0 DEF WholeInv, Current
  <2>2. /\ Len(rows'[stage]) = Len(rows[stage]) + 1 /\ Len(rows[stage]) \in Nat
        /\ \A i \in 1 .. Len(rows[stage]) : rows'[stage][i] = rows[stage][i]
        /\ rows'[stage][Len(rows[stage]) + 1] = new
    BY <1>1, <1>2
  <2>3. 1 .. Len(rows'[stage]) = 1 .. Len(rows[stage]) \cup {Len(rows[stage]) + 1}
    BY <2>2
  <2>4. Seen(stage)' = {<<rows'[stage][i].replicate, rows'[stage][i].episode>> :
                            i \in 1 .. Len(rows'[stage])}
    BY <1>0 DEF Seen
  <2>. DEFINE Place(i) == <<rows'[stage][i].replicate, rows'[stage][i].episode>>
  <2>5. Seen(stage) = {Place(i) : i \in 1 .. Len(rows[stage])}
    BY <2>2 DEF Seen
  <2>6. Place(Len(rows[stage]) + 1) = <<replicate, episode>>
    BY <2>2
  <2>7. Seen(stage)' = {Place(i) : i \in 1 .. Len(rows'[stage])}
    BY <2>4
  <2>. HIDE DEF Place
  <2>8. {Place(i) : i \in 1 .. Len(rows'[stage])} =
            {Place(i) : i \in 1 .. Len(rows[stage])} \cup {Place(Len(rows[stage]) + 1)}
    BY <2>3
  <2>. QED  BY <2>1, <2>5, <2>6, <2>7, <2>8
<1>6. \/ /\ pc' = "episode" /\ episode < Episodes
         /\ episode' = episode + 1 /\ replicate' = replicate
      \/ /\ pc' = "open" /\ ~(episode < Episodes) /\ replicate < R
         /\ replicate' = replicate + 1 /\ episode' = 1
      \/ pc' = "ledger" /\ ~(episode < Episodes) /\ ~(replicate < R)
  BY <1>0 DEF AppendRow
<1>7. \A x \in (1 .. R) \X (1 .. Episodes) :
          /\ x[1] \in 1 .. R /\ x[2] \in 1 .. Episodes /\ x = <<x[1], x[2]>>
  OBVIOUS
<1>8. <<replicate, episode>> \in (1 .. R) \X (1 .. Episodes)
  BY <1>0
<1>9. pc' \in {"episode", "open"} => Seen(stage)' = Before(replicate', episode')
  <2>1. ASSUME pc' \in {"episode", "open"}, NEW x \in (1 .. R) \X (1 .. Episodes)
        PROVE  (x[1] < replicate' \/ (x[1] = replicate' /\ x[2] < episode')) <=>
                   ((x[1] < replicate \/ (x[1] = replicate /\ x[2] < episode))
                        \/ x = <<replicate, episode>>)
    <3>1. x[1] \in 1 .. R /\ x[2] \in 1 .. Episodes
      BY <1>7
    <3>2. x = <<replicate, episode>> <=> x[1] = replicate /\ x[2] = episode
      BY <1>7
    <3>. QED  BY <1>0, <1>6, <2>1, <3>1, <3>2
  <2>. QED  BY <1>0, <1>5, <1>8, <2>1, BeforeIs
<1>10. pc' = "ledger" => Seen(stage)' = AllOf(plan)
  <2>1. ASSUME pc' = "ledger", NEW x \in (1 .. R) \X (1 .. Episodes)
        PROVE  x[1] < replicate \/ (x[1] = replicate /\ x[2] < episode) \/ x = <<replicate, episode>>
    <3>1. x[1] \in 1 .. R /\ x[2] \in 1 .. Episodes
      BY <1>7
    <3>2. x = <<replicate, episode>> <=> x[1] = replicate /\ x[2] = episode
      BY <1>7
    <3>. QED  BY <1>0, <1>6, <2>1, <3>1, <3>2
  <2>. QED  BY <1>0, <1>5, <1>8, <2>1, BeforeIs DEF AllOf
<1>11. Built' /\ Summed' /\ SummaryIsWhole'
  BY <1>0, <1>3, <1>4, <1>6 DEF WholeInv, Built, Summed, SummaryIsWhole
<1>12. Current'
  <2>1. stage' \in StagesOf(plan)'
    BY <1>0, <1>4 DEF WholeInv, Current, InStage
  <2>2. Seen(stage)' = Before(replicate, episode)' \/ pc' \notin {"open", "episode"}
    <3>1. Before(replicate, episode)' = Before(replicate', episode')
      BY <1>0 DEF Before, AllOf
    <3>. QED  BY <1>9, <3>1
  <2>3. pc' = "ledger" => Seen(stage)' = AllOf(plan)'
    BY <1>0, <1>10 DEF AllOf
  <2>. QED  BY <1>6, <2>1, <2>2, <2>3 DEF Current, InStage
<1>13. \A s : LeftBehind(s)' => LeftBehind(s) /\ s # stage
  BY <1>0, <1>6 DEF LeftBehind, InStage
<1>14. Behind'
  <2>1. ASSUME NEW s \in Stages, s # stage, WholeStage(s)  PROVE WholeStage(s)'
    <3>1. Seen(s)' = Seen(s) /\ rows'[s] = rows[s] /\ AllOf(plan)' = AllOf(plan)
      BY <1>0, <1>2, <2>1 DEF Seen, AllOf
    <3>. QED  BY <1>3, <1>4, <2>1, <3>1 DEF WholeStage
  <2>. QED  BY <1>13, <2>1 DEF WholeInv, Behind
<1>15. Reported'
  <2>1. CASE LeftBehind("positive_only")' /\ "frozen" \in StagesOf(plan)'
    <3>1. LeftBehind("positive_only") /\ "frozen" \in StagesOf(plan) /\ pc \notin {"factorial", "report"}
      BY <1>0, <1>4, <1>13, <2>1
    <3>2. {"factorial.jsonl", "report"} \subseteq files
      BY <3>1 DEF WholeInv, Reported
    <3>. QED  BY <1>3, <1>6, <3>2 DEF Reported
  <2>2. CASE ~(LeftBehind("positive_only")' /\ "frozen" \in StagesOf(plan)')
    BY <1>6, <2>2 DEF Reported
  <2>. QED  BY <2>1, <2>2
<1>. QED  BY <1>0, <1>11, <1>12, <1>14, <1>15 DEF WholeInv

(* With the ledger written the stage is whole, and is left behind.          *)
LEMMA FinishStageWhole == WholeInv /\ FinishStage => WholeInv'
<1>. SUFFICES ASSUME WholeInv, FinishStage  PROVE WholeInv'
  OBVIOUS
<1>0. /\ pc = "ledger" /\ stage \in Stages /\ plan \in Plans /\ IInv' /\ IInv
      /\ UNCHANGED <<half, recorded, committed, rows, plan>>
      /\ files' = files \cup {Ledger[stage]}
      /\ recorded = plan /\ Len(committed) = BuildEpisodes
      /\ stage \in StagesOf(plan) /\ Seen(stage) = AllOf(plan)
      /\ Admits("two_sided") => "primary" \in files
  BY FinishStageIInv DEF WholeInv, IInv, TypeOK, Planned, Built, Current, InStage, FinishStage
<1>1. "summary.json" \notin files' /\ files \subseteq files'
  BY <1>0, NoSummaryIs DEF Ledger, Stages
<1>2. /\ \A s \in Stages : WholeStage(s) => WholeStage(s)'
      /\ \A s : Seen(s)' = Seen(s)
      /\ AllOf(plan)' = AllOf(plan) /\ StagesOf(plan)' = StagesOf(plan)
      /\ (Admits("two_sided") <=> Admits("two_sided")')
  BY <1>0, <1>1, StandsStill
<1>3. ASSUME NEW s \in Stages, s = stage  PROVE WholeStage(s)'
  <2>1. s \in StagesOf(plan)' /\ Seen(s)' = AllOf(plan)' /\ Ledger[s] \in files'
    BY <1>0, <1>2, <1>3
  <2>. QED  BY <2>1 DEF WholeStage
<1>4. CASE stage = "frozen"
  <2>1. Open("positive_only")
    BY <1>4 DEF FinishStage
  <2>2. rows["positive_only"] = <<>>
    BY <1>0, <1>4 DEF IInv, Emptied, ToCome, InStage, Stages
  <2>3. "positive_only" \in StagesOf(plan) /\ WholeStage("frozen")'
    BY <1>0, <1>3, <1>4 DEF StagesOf, Stages
  <2>. QED  BY <1>0, <1>1, <2>1, <2>2, <2>3, OpenWhole
<1>5. CASE stage = "positive_only"
  <2>1. pc' = "factorial" /\ stage' = stage
    BY <1>5 DEF FinishStage, counters
  <2>2. WholeStage("frozen")' /\ WholeStage("positive_only")'
    <3>1. "frozen" \in Stages /\ LeftBehind("frozen")
      BY <1>0, <1>5 DEF LeftBehind, InStage, Stages
    <3>2. WholeStage("frozen")
      BY <3>1 DEF WholeInv, Behind
    <3>. QED  BY <1>0, <1>2, <1>3, <1>5, <3>1, <3>2
  <2>3. \A s \in Stages : LeftBehind(s)' => s = "frozen" \/ s = "positive_only"
    BY <2>1 DEF LeftBehind, InStage, Stages
  <2>4. Behind'
    BY <2>2, <2>3 DEF Behind
  <2>5. "frozen" \in StagesOf(plan)'
    BY <1>0, <1>2, <1>5 DEF StagesOf, Stages
  <2>6. Built' /\ Current' /\ Reported' /\ Summed' /\ SummaryIsWhole'
    BY <1>0, <1>1, <1>2, <2>1, <2>5 DEF Built, Current, InStage, Reported, Summed, SummaryIsWhole
  <2>. QED  BY <1>0, <2>4, <2>6 DEF WholeInv
<1>6. CASE stage = "online"
  <2>1. pc' = "summary" /\ stage' = stage
    BY <1>6 DEF FinishStage, counters
  <2>2. \A s \in Stages : s # stage => LeftBehind(s)
    BY <1>0, <1>6 DEF LeftBehind, InStage
  <2>3. \A s \in Stages : WholeStage(s)'
    BY <1>2, <1>3, <2>2 DEF WholeInv, Behind
  <2>4. "frozen" \in StagesOf(plan)' => {"factorial.jsonl", "report"} \subseteq files
    <3>1. LeftBehind("positive_only")
      BY <1>0, <1>6 DEF LeftBehind, InStage
    <3>. QED  BY <1>0, <1>2, <3>1 DEF WholeInv, Reported
  <2>5. Behind'
    BY <2>3 DEF Behind
  <2>6. Reported'
    BY <1>1, <2>1, <2>4 DEF Reported
  <2>7. Built' /\ Current' /\ Summed' /\ SummaryIsWhole'
    BY <1>0, <1>1, <1>2, <2>1 DEF Built, Current, InStage, Summed, SummaryIsWhole
  <2>. QED  BY <1>0, <2>5, <2>6, <2>7 DEF WholeInv
<1>. QED  BY <1>0, <1>4, <1>5, <1>6 DEF Stages

LEMMA WriteFactorialWhole == WholeInv /\ WriteFactorial => WholeInv'
<1>. SUFFICES ASSUME WholeInv, WriteFactorial  PROVE WholeInv'
  OBVIOUS
<1>0. /\ pc = "factorial" /\ pc' = "report" /\ IInv' /\ stage' = stage
      /\ UNCHANGED <<half, recorded, committed, rows, plan>>
      /\ files' = files \cup {"factorial.jsonl"}
  BY WritesIInv DEF WholeInv, WriteFactorial, counters
<1>1. "summary.json" \notin files' /\ files \subseteq files'
  BY <1>0, NoSummaryIs
<1>2. /\ \A s \in Stages : WholeStage(s) => WholeStage(s)'
      /\ StagesOf(plan)' = StagesOf(plan)
      /\ (Admits("two_sided") <=> Admits("two_sided")')
  BY <1>0, <1>1, StandsStill
<1>3. \A s \in Stages : LeftBehind(s)' => LeftBehind(s)
  BY <1>0 DEF LeftBehind, InStage
<1>4. Behind'
  BY <1>2, <1>3 DEF WholeInv, Behind
<1>5. Built' /\ Current' /\ Reported' /\ Summed' /\ SummaryIsWhole'
  BY <1>0, <1>1, <1>2 DEF WholeInv, Built, Current, InStage, Reported, Summed, SummaryIsWhole
<1>. QED  BY <1>0, <1>4, <1>5 DEF WholeInv

LEMMA WriteReportWhole == WholeInv /\ WriteReport => WholeInv'
<1>. SUFFICES ASSUME WholeInv, WriteReport  PROVE WholeInv'
  OBVIOUS
<1>0. /\ pc = "report" /\ IInv' /\ IInv /\ OnlineOrSummary /\ plan \in Plans
      /\ UNCHANGED <<half, recorded, committed, rows, plan>>
      /\ files' = files \cup {"report"}
      /\ recorded = plan /\ Len(committed) = BuildEpisodes /\ "factorial.jsonl" \in files
      /\ Admits("two_sided") => "primary" \in files
  BY WriteReportIInv DEF WholeInv, IInv, Planned, Built, Reported, WriteReport
<1>1. "summary.json" \notin files' /\ files \subseteq files'
  BY <1>0, NoSummaryIs
<1>2. WholeStage("frozen") /\ WholeStage("positive_only") /\ rows["online"] = <<>>
  BY <1>0 DEF WholeInv, Behind, LeftBehind, Stages, IInv, Emptied, ToCome, Planned, InStage
<1>3. WholeStage("frozen")' /\ WholeStage("positive_only")'
  BY <1>0, <1>1, <1>2, StandsStill DEF Stages
<1>. QED  BY <1>0, <1>1, <1>2, <1>3, OnlineOrSummaryWhole

(* Past the last stage, everything that a summary stands for is there.      *)
LEMMA SummaryStandsFor ==
    ASSUME WholeInv, pc = "summary"
    PROVE  /\ recorded = plan /\ Len(committed) = BuildEpisodes
           /\ \A s \in Stages : Seen(s) = IF s \in StagesOf(plan) THEN AllOf(plan) ELSE {}
           /\ {Ledger[s] : s \in StagesOf(plan)} \subseteq files
           /\ "frozen" \in StagesOf(plan) => {"factorial.jsonl", "report"} \subseteq files
           /\ Admits("two_sided") => "primary" \in files
<1>1. \A s \in Stages : WholeStage(s)
  BY DEF WholeInv, Behind, LeftBehind
<1>2. \A s \in Stages : Seen(s) = IF s \in StagesOf(plan) THEN AllOf(plan) ELSE {}
  BY <1>1, SeenNone DEF WholeStage
<1>3. StagesOf(plan) \subseteq Stages
  BY DEF StagesOf
<1>4. {Ledger[s] : s \in StagesOf(plan)} \subseteq files
  BY <1>1, <1>3 DEF WholeStage
<1>5. LeftBehind("positive_only")
  BY DEF LeftBehind
<1>. QED  BY <1>2, <1>4, <1>5 DEF WholeInv, Built, Reported

LEMMA WriteSummaryWhole == WholeInv /\ WriteSummary => WholeInv'
<1>. SUFFICES ASSUME WholeInv, WriteSummary  PROVE WholeInv'
  OBVIOUS
<1>0. /\ pc = "summary" /\ pc' = "text" /\ IInv'
      /\ UNCHANGED <<half, recorded, committed, rows, plan>>
      /\ files' = files \cup {"summary.json"} /\ files \subseteq files'
  BY WritesIInv DEF WholeInv, WriteSummary
<1>1. /\ \A s \in Stages : WholeStage(s) => WholeStage(s)'
      /\ \A s : Seen(s)' = Seen(s)
      /\ AllOf(plan)' = AllOf(plan) /\ StagesOf(plan)' = StagesOf(plan)
      /\ (Admits("two_sided") <=> Admits("two_sided")')
  BY <1>0, StandsStill
<1>2. \A s \in Stages : LeftBehind(s)
  BY <1>0 DEF LeftBehind
<1>3. Behind'
  BY <1>1, <1>2 DEF WholeInv, Behind
<1>4. Built' /\ Current' /\ Summed'
  BY <1>0, <1>1 DEF WholeInv, Built, Current, InStage, Summed
<1>5. Reported'
  <2>1. "frozen" \in StagesOf(plan)' => {"factorial.jsonl", "report"} \subseteq files'
    BY <1>0, <1>1, SummaryStandsFor
  <2>. QED  BY <1>0, <2>1 DEF Reported
<1>6. SummaryIsWhole'
  <2>1. recorded' = plan /\ Len(committed') = BuildEpisodes
    BY <1>0, SummaryStandsFor
  <2>2. StagesOf(recorded)' = StagesOf(plan)
    BY <1>0, <2>1 DEF StagesOf, Admits
  <2>3. \A s \in Stages :
            {<<rows'[s][i].replicate, rows'[s][i].episode>> : i \in 1 .. Len(rows'[s])} =
                IF s \in StagesOf(plan)
                THEN (1 .. plan.replicates) \X (1 .. Episodes) ELSE {}
    BY <1>0, SummaryStandsFor DEF Seen, AllOf
  <2>4. {Ledger[s] : s \in StagesOf(plan)} \subseteq files'
    BY <1>0, SummaryStandsFor
  <2>. QED  BY <1>0, <1>1, <2>1, <2>2, <2>3, <2>4, SummaryStandsFor DEF SummaryIsWhole
<1>. QED  BY <1>0, <1>3, <1>4, <1>5, <1>6 DEF WholeInv

(* A step of the process away from its summary, or that of a kill.          *)
LEMMA AfterSummary ==
    ASSUME WholeInv, IInv', UNCHANGED <<half, recorded, committed, rows, plan>>,
           files \subseteq files', "summary.json" \in files' => "summary.json" \in files,
           \/ pc = "text" /\ pc' \in {"finished", "down"}
           \/ pc' = "down"
    PROVE  WholeInv'
<1>1. /\ \A s \in Stages : WholeStage(s) => WholeStage(s)'
      /\ \A s : Seen(s)' = Seen(s)
      /\ AllOf(plan)' = AllOf(plan) /\ StagesOf(plan)' = StagesOf(plan)
      /\ (Admits("two_sided") <=> Admits("two_sided")')
  BY StandsStill
<1>2. \A s \in Stages : LeftBehind(s)' => LeftBehind(s)
  BY DEF LeftBehind, InStage
<1>3. Behind'
  BY <1>1, <1>2 DEF WholeInv, Behind
<1>4. Built' /\ Current' /\ Summed'
  BY <1>1 DEF WholeInv, Built, Current, InStage, Summed
<1>5. Reported'
  <2>1. CASE pc' = "down"
    BY <2>1 DEF Reported, LeftBehind, InStage
  <2>2. CASE pc = "text" /\ pc' = "finished"
    <3>1. LeftBehind("positive_only")
      BY <2>2 DEF LeftBehind
    <3>2. "frozen" \in StagesOf(plan)' => {"factorial.jsonl", "report"} \subseteq files'
      BY <1>1, <2>2, <3>1 DEF WholeInv, Reported
    <3>. QED  BY <2>2, <3>2 DEF Reported
  <2>. QED  BY <2>1, <2>2
<1>6. SummaryIsWhole'
  <2>1. StagesOf(recorded)' = StagesOf(recorded)
    BY DEF StagesOf, Admits
  <2>2. CASE "summary.json" \notin files \ half
    BY <2>2 DEF SummaryIsWhole
  <2>3. CASE "summary.json" \in files \ half
    <3>1. /\ Len(committed) = BuildEpisodes
          /\ \A s \in Stages :
                 {<<rows[s][i].replicate, rows[s][i].episode>> : i \in 1 .. Len(rows[s])} =
                     IF s \in StagesOf(recorded)
                     THEN (1 .. recorded.replicates) \X (1 .. Episodes) ELSE {}
          /\ {Ledger[s] : s \in StagesOf(recorded)} \subseteq files
          /\ "frozen" \in StagesOf(recorded) => {"factorial.jsonl", "report"} \subseteq files
          /\ Admits("two_sided") => "primary" \in files
      BY <2>3 DEF WholeInv, SummaryIsWhole
    <3>. QED  BY <1>1, <2>1, <3>1 DEF SummaryIsWhole
  <2>. QED  BY <2>2, <2>3
<1>. QED  BY <1>3, <1>4, <1>5, <1>6 DEF WholeInv

LEMMA WriteTextWhole == WholeInv /\ WriteText => WholeInv'
  BY WritesIInv, AfterSummary DEF WholeInv, WriteText

(* A summary cut off in its writing is no complete one.                     *)
LEMMA KillsWhole == WholeInv /\ (Kill \/ KillInWrite) => WholeInv'
<1>. SUFFICES ASSUME WholeInv, Kill \/ KillInWrite  PROVE WholeInv'
  OBVIOUS
<1>0. /\ pc' = "down" /\ IInv' /\ UNCHANGED <<recorded, committed, rows, plan>>
      /\ \/ UNCHANGED <<files, half>>
         \/ /\ pc = "plan" /\ files' = files \cup {"plan.json"} /\ half' = half \cup {"plan.json"}
         \/ /\ pc = "summary" /\ files' = files \cup {"summary.json"}
            /\ half' = half \cup {"summary.json"}
  BY KillsIInv DEF WholeInv, Kill, KillInWrite, disk
<1>1. CASE UNCHANGED <<files, half>>
  BY <1>0, <1>1, AfterSummary
<1>2. CASE ~UNCHANGED <<files, half>>
  <2>1. "summary.json" \notin files' \ half'
    BY <1>0, <1>2, NoSummaryIs
  <2>2. SummaryIsWhole'
    BY <2>1 DEF SummaryIsWhole
  <2>. QED  BY <1>0, <2>2 DEF WholeInv, Built, Current, Behind, LeftBehind, InStage, Reported, Summed
<1>. QED  BY <1>1, <1>2

LEMMA ResumeWhole == ASSUME NEW p \in Plans PROVE WholeInv /\ Resume(p) => WholeInv'
<1>. SUFFICES ASSUME WholeInv, Resume(p)  PROVE WholeInv'
  OBVIOUS
<1>1. /\ pc' = "build" /\ plan' = p /\ recorded = p /\ recorded' = recorded /\ IInv'
      /\ "summary.json" \notin files /\ files' \subseteq files
  BY ResumeIInv DEF WholeInv, Resume, MayResume
<1>2. Built'
  BY <1>1 DEF Built
<1>. QED  BY <1>1, <1>2, NoSummaryYet

LEMMA StutterWhole == WholeInv /\ UNCHANGED vars => WholeInv'
<1>. SUFFICES ASSUME WholeInv, UNCHANGED vars  PROVE WholeInv'
  OBVIOUS
<1>1. UNCHANGED <<files, half, recorded, committed, rows, pc, plan, stage, replicate, episode>> /\ IInv'
  BY StutterIInv DEF vars, disk, counters, WholeInv
<1>2. Built' /\ Current' /\ Behind' /\ Reported' /\ Summed'
  BY <1>1 DEF WholeInv, Built, Current, Behind, Reported, Summed, Seen, Before, AllOf, StagesOf, Admits,
              LeftBehind, WholeStage
<1>3. SummaryIsWhole'
  BY <1>1 DEF WholeInv, SummaryIsWhole, StagesOf, Admits
<1>. QED  BY <1>1, <1>2, <1>3 DEF WholeInv

LEMMA NextWhole == WholeInv /\ [Next]_vars => WholeInv'
<1>. SUFFICES ASSUME WholeInv, [Next]_vars  PROVE WholeInv'
  OBVIOUS
<1>1. ASSUME NEW p \in Plans, Start(p) \/ Resume(p)  PROVE WholeInv'
  BY <1>1, StartWhole, ResumeWhole
<1>2. CASE Step
  BY <1>2, WritePlanWhole, BuildEpisodeWhole, FinishBuildWhole, MeasurePairsWhole,
     OpenReplicateWhole, RunEpisodeWhole, AppendRowWhole, FinishStageWhole, WriteFactorialWhole,
     WriteReportWhole, WriteSummaryWhole, WriteTextWhole DEF Step
<1>3. CASE Kill \/ KillInWrite
  BY <1>3, KillsWhole
<1>4. CASE UNCHANGED vars
  BY <1>4, StutterWhole
<1>. QED  BY <1>1, <1>2, <1>3, <1>4 DEF Next

(* A summary that is complete stands for a complete run of the plan on      *)
(* record, for any plans and any number of build episodes and episodes per  *)
(* replicate, wherever and however often the run was killed and resumed:    *)
(* the whole build, one row of each episode of each replicate of the plan's *)
(* stages and of no other, and the files the summary lists.                 *)
THEOREM SummaryIsWholeHolds == Spec => []SummaryIsWhole
<1>1. WholeInv => SummaryIsWhole
  BY DEF WholeInv
<1>. QED  BY <1>1, InitWholeInv, NextWhole, PTL DEF Spec

-----------------------------------------------------------------------------
(* What a stage dispatches against.  The process that comes to the frozen    *)
(* stage has seen the two-sided library admit something, and the build is    *)
(* over by then; nothing looks at the positive-only one.                     *)

InStages == {"open", "episode", "row", "ledger"}

LibraryInv ==
    pc = "pair" \/ (pc \in InStages /\ stage = "frozen") => Admits("two_sided")

MeasuredUnlessPositiveOnly == stage # "positive_only" => MeasuredLibraryAdmitted

LEMMA NextLibrary == IInv /\ LibraryInv /\ [Next]_vars => LibraryInv'
<1>. SUFFICES ASSUME IInv, LibraryInv, [Next]_vars  PROVE LibraryInv'
  OBVIOUS
<1>. USE DEF LibraryInv, InStages
<1>1. committed' = committed => (Admits("two_sided") => Admits("two_sided")')
  BY DEF Admits
<1>2. ASSUME NEW p \in Plans, Start(p) \/ Resume(p)  PROVE LibraryInv'
  BY <1>2 DEF Start, Resume
<1>3. ASSUME NEW admitted \in Gates, BuildEpisode(admitted)  PROVE LibraryInv'
  BY <1>3 DEF BuildEpisode
<1>4. CASE WritePlan \/ WriteFactorial \/ WriteSummary \/ WriteText \/ Kill \/ KillInWrite
  BY <1>4 DEF WritePlan, WriteFactorial, WriteSummary, WriteText, Kill, KillInWrite
<1>5. CASE FinishBuild
  BY <1>1, <1>5 DEF FinishBuild, OnlineOrSummary, Open, disk
<1>6. CASE MeasurePairs
  BY <1>1, <1>6 DEF MeasurePairs, OnlineOrSummary, Open
<1>7. CASE OpenReplicate
  BY <1>1, <1>7 DEF OpenReplicate, counters
<1>8. ASSUME NEW solved \in BOOLEAN, RunEpisode(solved)  PROVE LibraryInv'
  BY <1>1, <1>8 DEF RunEpisode, counters
<1>9. CASE AppendRow
  BY <1>1, <1>9 DEF AppendRow, counters
<1>10. CASE FinishStage
  <2>1. stage \in Stages
    BY DEF IInv, TypeOK
  <2>. QED  BY <1>10, <2>1 DEF FinishStage, Open, Stages
<1>11. CASE WriteReport
  BY <1>11 DEF WriteReport, OnlineOrSummary, Open
<1>12. CASE UNCHANGED vars
  BY <1>1, <1>12 DEF vars, disk, counters
<1>. QED  BY <1>2, <1>3, <1>4, <1>5, <1>6, <1>7, <1>8, <1>9, <1>10, <1>11, <1>12 DEF Next, Step

(* _measure's "a library that admitted something": of the three episode      *)
(* stages only the positive-only one can be opened without.                  *)
THEOREM OnlyPositiveOnlyIsUngated == Spec => []MeasuredUnlessPositiveOnly
<1>1. Init => LibraryInv
  BY DEF Init, LibraryInv, InStages
<1>2. IInv /\ LibraryInv /\ [Next]_vars => LibraryInv'
  BY NextLibrary
<1>3. LibraryInv => MeasuredUnlessPositiveOnly
  BY DEF LibraryInv, InStages, MeasuredUnlessPositiveOnly, MeasuredLibraryAdmitted, HasLibrary
<1>. QED  BY <1>1, <1>2, <1>3, Invariance, PTL DEF Spec

=============================================================================
