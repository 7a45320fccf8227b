------------------------- MODULE Population_proofs -------------------------
(***************************************************************************)
(* Theorems about Population, for every set of configurations, orders and  *)
(* replacements, every number of workers, runs and interruptions: a place  *)
(* of the study is held by a build that finished, or that used all of its  *)
(* runs and has its one replacement.                                       *)
(***************************************************************************)
EXTENDS Population, WellFoundedInduction, TLAPS

(* A set of naturals that is not empty has a smallest element.              *)
LEMMA MinIs ==
    ASSUME NEW S \in SUBSET Nat, S # {}
    PROVE  Min(S) \in S
<1>. DEFINE Less == {pair \in Nat \X Nat : pair[1] < pair[2]}
<1>1. OpToRel(<, Nat) = Less
  BY DEF OpToRel
<1>2. IsWellFoundedOn(Less, Nat)
  BY <1>1, NatLessThanWellFounded
<1>3. PICK x \in S : \A y \in S : ~(<<y, x>> \in Less)
  <2>. HIDE DEF Less
  <2>. QED  BY <1>2, WFMin
<1>4. \A y \in S : ~(y < x)
  BY <1>3
<1>5. \A y \in S : x <= y
  BY <1>4
<1>. QED  BY <1>5 DEF Min

(* The bounds.                                                              *)
LEMMA BoundsAre == RESUMES \in Nat /\ MaxKills \in Nat
  BY PopulationAssumption

(* An index to replace a build is a build of the configuration that is not  *)
(* an attempt of the record yet.                                            *)
LEMMA ReplacementIs ==
    ASSUME NEW b \in Builds, Unused(b) # {}
    PROVE  /\ Min(Unused(b)) \in Replacements
           /\ <<b[1], Min(Unused(b))>> \in Builds
           /\ status[<<b[1], Min(Unused(b))>>] = "unlisted"
<1>1. Unused(b) \in SUBSET Nat
  BY PopulationAssumption DEF Unused
<1>2. Min(Unused(b)) \in Unused(b)
  BY <1>1, MinIs
<1>. QED  BY <1>2 DEF Unused, Builds

-----------------------------------------------------------------------------
(* The invariant.                                                           *)

(* No two workers have one build, and none has one that is to be taken.     *)
Apart ==
    /\ \A i, j \in Jobs : at[i] = at[j] /\ at[i] # NoBuild => i = j
    /\ \A j \in Jobs : at[j] \notin pending

(* What is to be taken, and what is built, is pending in the record.        *)
Open ==
    /\ \A b \in pending : status[b] = "pending"
    /\ \A j \in Jobs : at[j] # NoBuild => status[at[j]] = "pending"

(* A worker waits for a live run of its build, one that is still due.       *)
Waiting == \A j \in live : at[j] # NoBuild /\ runs[at[j]] <= RESUMES

(* Nothing of a process that is gone is left.                               *)
Gone == ~up => pending = {} /\ live = {} /\ \A j \in Jobs : at[j] = NoBuild

IInv == TypeOK /\ Apart /\ Open /\ Waiting /\ Gone

LEMMA InitIInv == Init => IInv
<1>. SUFFICES ASSUME Init  PROVE IInv
  OBVIOUS
<1>1. TypeOK
  <2>1. 0 \in 0 .. RESUMES + 1 /\ 0 \in 0 .. MaxKills
    BY BoundsAre
  <2>2. runs \in [Builds -> 0 .. RESUMES + 1] /\ kills \in 0 .. MaxKills
    BY <2>1 DEF Init
  <2>3. /\ status \in [Builds -> {"unlisted", "pending", "finished", "failed"}]
        /\ directory \in [Builds -> Directories]
    BY DEF Init, Directories
  <2>. QED  BY <2>2, <2>3 DEF Init, TypeOK
<1>2. Apart /\ Open /\ Waiting /\ Gone
  BY DEF Init, Apart, Open, Waiting, Gone
<1>. QED  BY <1>1, <1>2 DEF IInv

(* What a live run does to its directory and its log.                       *)
LEMMA EndsAre ==
    ASSUME NEW b \in Builds, NEW d \in Directories, NEW refused \in BOOLEAN,
           NEW long \in BOOLEAN, TypeOK, Ends(b, d, refused, long)
    PROVE  directory' \in [Builds -> Directories] /\ refusal' \subseteq Builds
  BY DEF Ends, TypeOK

LEMMA StartIInv == IInv /\ Start => IInv'
<1>. SUFFICES ASSUME IInv, Start  PROVE IInv'
  OBVIOUS
<1>. USE DEF IInv, Start, record, disk
<1>1. TypeOK'
  BY DEF TypeOK
<1>2. Apart'
  BY NoBuildAssumption DEF Apart, Gone
<1>3. Open' /\ Waiting' /\ Gone'
  BY DEF Open, Waiting, Gone
<1>. QED  BY <1>1, <1>2, <1>3

LEMMA TakeIInv == ASSUME NEW j \in Jobs, NEW b \in Builds PROVE IInv /\ Take(j, b) => IInv'
<1>. SUFFICES ASSUME IInv, Take(j, b)  PROVE IInv'
  OBVIOUS
<1>. USE DEF IInv, Take, record, disk
<1>1. TypeOK'
  BY DEF TypeOK
<1>2. \A i \in Jobs : at'[i] = IF i = j THEN b ELSE at[i]
  BY DEF TypeOK
<1>3. Apart'
  BY <1>2, NoBuildAssumption DEF Apart
<1>4. Open'
  BY <1>2 DEF Open
<1>5. Waiting'
  BY <1>2 DEF Waiting, TypeOK
<1>6. Gone'
  BY DEF Gone
<1>. QED  BY <1>1, <1>3, <1>4, <1>5, <1>6

(* A worker that leaves its build, whatever becomes of the build's status.  *)
LEMMA LeaveIInv ==
    ASSUME NEW j \in Jobs, IInv, up, at[j] \in Builds, j \notin live, Leave(j),
           \/ status' = status
           \/ \E s \in {"finished", "failed"} : status' = [status EXCEPT ![at[j]] = s],
           UNCHANGED <<runs, up, pending, live>>
    PROVE  /\ status' \in [Builds -> {"unlisted", "pending", "finished", "failed"}]
           /\ at' \in [Jobs -> Builds \cup {NoBuild}]
           /\ Apart' /\ Open' /\ Waiting' /\ Gone'
<1>. USE DEF IInv, Leave
<1>1. /\ status' \in [Builds -> {"unlisted", "pending", "finished", "failed"}]
      /\ at' \in [Jobs -> Builds \cup {NoBuild}]
  BY DEF TypeOK
<1>2. \A i \in Jobs : at'[i] = IF i = j THEN NoBuild ELSE at[i]
  BY DEF TypeOK
<1>3. \A b \in Builds : b # at[j] => status'[b] = status[b]
  BY DEF TypeOK
<1>4. Apart'
  BY <1>2, NoBuildAssumption DEF Apart, TypeOK
<1>5. Open'
  BY <1>2, <1>3 DEF Open, Apart, TypeOK
<1>6. Waiting'
  BY <1>2 DEF Waiting, TypeOK
<1>7. Gone'
  BY DEF Gone
<1>. QED  BY <1>1, <1>4, <1>5, <1>6, <1>7

LEMMA GiveUpIInv == ASSUME NEW j \in Jobs PROVE IInv /\ GiveUp(j) => IInv'
<1>. SUFFICES ASSUME IInv, GiveUp(j)  PROVE IInv'
  OBVIOUS
<1>. USE DEF IInv, GiveUp, record, disk
<1>1. at[j] \in Builds
  BY DEF TypeOK
<1>2. at' \in [Jobs -> Builds \cup {NoBuild}] /\ Apart' /\ Open' /\ Waiting' /\ Gone'
  BY <1>1, LeaveIInv
<1>3. TypeOK'
  BY <1>2 DEF TypeOK
<1>. QED  BY <1>2, <1>3

LEMMA FinishIInv == ASSUME NEW j \in Jobs PROVE IInv /\ Finish(j) => IInv'
<1>. SUFFICES ASSUME IInv, Finish(j)  PROVE IInv'
  OBVIOUS
<1>. USE DEF IInv, Finish, Deciding, record, disk
<1>1. at[j] \in Builds
  BY DEF TypeOK
<1>2. /\ status' \in [Builds -> {"unlisted", "pending", "finished", "failed"}]
      /\ at' \in [Jobs -> Builds \cup {NoBuild}]
      /\ Apart' /\ Open' /\ Waiting' /\ Gone'
  BY <1>1, LeaveIInv
<1>3. TypeOK'
  BY <1>2 DEF TypeOK
<1>. QED  BY <1>2, <1>3

LEMMA FailIInv == ASSUME NEW j \in Jobs PROVE IInv /\ Fail(j) => IInv'
<1>. SUFFICES ASSUME IInv, Fail(j)  PROVE IInv'
  OBVIOUS
<1>. USE DEF IInv, Deciding, record, disk
<1>1. at[j] \in Builds /\ j \notin live /\ up /\ up' /\ runs[at[j]] > RESUMES
  BY DEF Fail, TypeOK, Exhausted
<1>2. UNCHANGED <<runs, torn, directory, refusal, up, stopped, pending, live, orphans, kills>>
  BY DEF Fail
<1>3. CASE Unused(at[j]) = {}
  <2>1. Leave(j) /\ status' = [status EXCEPT ![at[j]] = "failed"] /\ replaces' = replaces
    BY <1>3 DEF Fail
  <2>2. /\ status' \in [Builds -> {"unlisted", "pending", "finished", "failed"}]
        /\ at' \in [Jobs -> Builds \cup {NoBuild}]
        /\ Apart' /\ Open' /\ Waiting' /\ Gone'
    BY <1>1, <1>2, <2>1, LeaveIInv
  <2>3. TypeOK'
    BY <1>2, <2>1, <2>2 DEF TypeOK
  <2>. QED  BY <2>2, <2>3
<1>4. CASE Unused(at[j]) # {}
  <2>. DEFINE r == <<at[j][1], Min(Unused(at[j]))>>
  <2>1. r \in Builds /\ status[r] = "unlisted"
    BY <1>1, <1>4, ReplacementIs
  <2>2. /\ status' = [status EXCEPT ![at[j]] = "failed", ![r] = "pending"]
        /\ replaces' = [replaces EXCEPT ![r] = at[j]]
        /\ at' = [at EXCEPT ![j] = r]
    BY <1>4 DEF Fail
  <2>. HIDE DEF r
  <2>3. status[at[j]] = "pending" /\ r # at[j]
    BY <1>1, <2>1, NoBuildAssumption DEF Open
  <2>4. \A i \in Jobs : at'[i] = IF i = j THEN r ELSE at[i]
    BY <2>2 DEF TypeOK
  <2>5. \A b \in Builds :
           status'[b] = IF b = r THEN "pending" ELSE IF b = at[j] THEN "failed" ELSE status[b]
    BY <1>1, <2>1, <2>2, <2>3 DEF TypeOK
  <2>6. TypeOK'
    <3>1. status' \in [Builds -> {"unlisted", "pending", "finished", "failed"}]
      BY <2>2 DEF TypeOK
    <3>2. replaces' \in [Builds -> Builds \cup {NoBuild}] /\ at' \in [Jobs -> Builds \cup {NoBuild}]
      BY <1>1, <2>1, <2>2 DEF TypeOK
    <3>. QED  BY <1>2, <3>1, <3>2 DEF TypeOK
  <2>7. \A i \in Jobs : at[i] # r
    BY <2>1, NoBuildAssumption DEF Open
  <2>8. Apart'
    BY <1>2, <2>1, <2>4, <2>7 DEF Apart, Open
  <2>9. Open'
    <3>1. \A b \in pending : b # at[j] /\ b \in Builds
      BY DEF Apart, TypeOK
    <3>2. \A i \in Jobs : i # j => at[i] # at[j]
      BY <1>1, NoBuildAssumption DEF Apart
    <3>. QED  BY <1>2, <2>1, <2>4, <2>5, <3>1, <3>2 DEF Open, TypeOK
  <2>10. Waiting' /\ Gone'
    BY <1>1, <1>2, <2>4 DEF Waiting, Gone, TypeOK
  <2>. QED  BY <2>6, <2>8, <2>9, <2>10
<1>. QED  BY <1>3, <1>4

LEMMA LaunchIInv == ASSUME NEW j \in Jobs PROVE IInv /\ Launch(j) => IInv'
<1>. SUFFICES ASSUME IInv, Launch(j)  PROVE IInv'
  OBVIOUS
<1>. USE DEF IInv, Launch, Deciding, record, disk
<1>1. TypeOK'
  BY DEF TypeOK
<1>2. Apart' /\ Open' /\ Gone'
  BY DEF Apart, Open, Gone
<1>3. runs[at[j]] <= RESUMES
  BY BoundsAre DEF Exhausted, TypeOK
<1>4. Waiting'
  BY <1>3 DEF Waiting
<1>. QED  BY <1>1, <1>2, <1>4

LEMMA ReturnIInv ==
    ASSUME NEW j \in Jobs, NEW d \in Directories, NEW refused \in BOOLEAN, NEW long \in BOOLEAN
    PROVE  IInv /\ Return(j, d, refused, long) => IInv'
<1>. SUFFICES ASSUME IInv, Return(j, d, refused, long)  PROVE IInv'
  OBVIOUS
<1>. USE DEF IInv, Return, record, disk
<1>1. at[j] \in Builds /\ runs[at[j]] \in 0 .. RESUMES
  BY BoundsAre DEF Waiting, TypeOK
<1>2. directory' \in [Builds -> Directories] /\ refusal' \subseteq Builds
  BY <1>1, EndsAre
<1>3. runs[at[j]] + 1 \in 0 .. RESUMES + 1
  BY <1>1, BoundsAre
<1>4. runs' \in [Builds -> 0 .. RESUMES + 1]
  BY <1>3 DEF TypeOK
<1>5. TypeOK'
  BY <1>1, <1>2, <1>4 DEF TypeOK
<1>6. Apart' /\ Open' /\ Gone'
  BY DEF Apart, Open, Gone
<1>7. ASSUME NEW i \in live'  PROVE at[i] # NoBuild /\ runs'[at[i]] <= RESUMES
  <2>1. i \in live /\ i # j /\ i \in Jobs
    BY <1>7 DEF TypeOK
  <2>2. at[i] # NoBuild /\ runs[at[i]] <= RESUMES /\ at[i] # at[j]
    BY <2>1, <1>1, NoBuildAssumption DEF Waiting, Apart
  <2>. QED  BY <2>1, <2>2 DEF TypeOK
<1>8. Waiting'
  BY <1>7 DEF Waiting
<1>. QED  BY <1>5, <1>6, <1>8

LEMMA OrphanEndsIInv ==
    ASSUME NEW b \in Builds, NEW d \in Directories, NEW refused \in BOOLEAN, NEW long \in BOOLEAN
    PROVE  IInv /\ OrphanEnds(b, d, refused, long) => IInv'
<1>. SUFFICES ASSUME IInv, OrphanEnds(b, d, refused, long)  PROVE IInv'
  OBVIOUS
<1>. USE DEF IInv, OrphanEnds, record
<1>1. directory' \in [Builds -> Directories] /\ refusal' \subseteq Builds
  BY EndsAre
<1>2. TypeOK'
  BY <1>1 DEF TypeOK
<1>3. Apart' /\ Open' /\ Waiting' /\ Gone'
  BY DEF Apart, Open, Waiting, Gone
<1>. QED  BY <1>2, <1>3

LEMMA EndIInv == IInv /\ End => IInv'
<1>. SUFFICES ASSUME IInv, End  PROVE IInv'
  OBVIOUS
<1>. USE DEF IInv, End, record, disk
<1>1. TypeOK'
  BY DEF TypeOK
<1>2. Apart' /\ Open' /\ Waiting'
  BY DEF Apart, Open, Waiting
<1>3. live = {}
  BY DEF Waiting, TypeOK
<1>4. Gone'
  BY <1>3 DEF Gone
<1>. QED  BY <1>1, <1>2, <1>4

(* Whatever a death leaves of a file, a directory or a live run.            *)
LEMMA DieIInv ==
    ASSUME IInv, Die, torn' \in BOOLEAN, directory' \in [Builds -> Directories],
           refusal' = refusal, orphans' \subseteq Builds
    PROVE  IInv'
<1>. USE DEF IInv, Die
<1>1. kills + 1 \in 0 .. MaxKills
  BY BoundsAre DEF TypeOK
<1>2. TypeOK'
  BY <1>1 DEF TypeOK
<1>3. Apart' /\ Open' /\ Waiting' /\ Gone'
  BY NoBuildAssumption DEF Apart, Open, Waiting, Gone
<1>. QED  BY <1>2, <1>3

(* What the dead process waited for is a build, and so is what runs on.     *)
LEMMA AtLive ==
    ASSUME IInv  PROVE {at[j] : j \in live} \subseteq Builds
  BY DEF IInv, TypeOK, Waiting

LEMMA KillIInv == IInv /\ Kill => IInv'
<1>. SUFFICES ASSUME IInv, Kill  PROVE IInv'
  OBVIOUS
<1>1. directory' \in [Builds -> Directories] /\ orphans' \subseteq Builds
  BY AtLive DEF Kill, Directories, IInv, TypeOK
<1>. QED  BY <1>1, DieIInv DEF Kill, IInv, TypeOK

LEMMA KillInSaveIInv == IInv /\ KillInSave => IInv'
<1>. SUFFICES ASSUME IInv, KillInSave  PROVE IInv'
  OBVIOUS
<1>1. orphans' \subseteq Builds
  BY AtLive DEF KillInSave, IInv, TypeOK
<1>. QED  BY <1>1, DieIInv DEF KillInSave, IInv, TypeOK, disk

LEMMA StutterIInv == IInv /\ UNCHANGED vars => IInv'
  BY DEF IInv, TypeOK, Apart, Open, Waiting, Gone, vars, record, disk

LEMMA NextIInv == IInv /\ [Next]_vars => IInv'
<1>. SUFFICES ASSUME IInv, [Next]_vars  PROVE IInv'
  OBVIOUS
<1>1. ASSUME NEW j \in Jobs, Work(j)  PROVE IInv'
  BY <1>1, TakeIInv, GiveUpIInv, FinishIInv, FailIInv, LaunchIInv, ReturnIInv DEF Work
<1>. QED  BY <1>1, StartIInv, OrphanEndsIInv, EndIInv, KillIInv, KillInSaveIInv, StutterIInv DEF Next

LEMMA Invariant == Spec => []IInv
  BY InitIInv, NextIInv, PTL DEF Spec

(* Every reachable state of a population is well-typed, for any number of   *)
(* builds, workers, runs and interruptions: no build is ever run once more  *)
(* than it may be (population.py:157).                                      *)
THEOREM TypeCorrect == Spec => []TypeOK
  BY Invariant, PTL DEF IInv

(* No two workers build one build, none builds what is still to be taken,    *)
(* and what is built or to be taken is pending in the record -- also after a *)
(* worker goes on to the replacement of the build it gave up, and whatever   *)
(* was killed and started again (population.py:148-180).                     *)
THEOREM BuildsApart == Spec => [](Apart /\ Open)
  BY Invariant, PTL DEF IInv

-----------------------------------------------------------------------------
(* The study's places.                                                      *)

(* Only an attempt of the record replaces anything.                         *)
Given == \A b \in Builds : status[b] = "unlisted" => replaces[b] = NoBuild

(* What is replaced was given up, in the same configuration.                *)
Stands ==
    \A r \in Builds : replaces[r] # NoBuild =>
        replaces[r][1] = r[1] /\ status[replaces[r]] = "failed"

One == \A b, c \in Builds : replaces[b] = replaces[c] /\ replaces[b] # NoBuild => b = c

Replacing ==
    \A b \in Builds : b[2] \in Replacements /\ status[b] # "unlisted" => replaces[b] \in Builds

Succeeded(b) ==
    \/ \E r \in Builds : replaces[r] = b
    \/ \A i \in Replacements : status[<<b[1], i>>] # "unlisted"

Spent == \A b \in Builds : status[b] = "failed" => runs[b] = RESUMES + 1 /\ Succeeded(b)

PInv == Given /\ Stands /\ One /\ Replacing /\ Spent

LEMMA PlacesFollow == TypeOK /\ PInv => PlacesHeld
  BY NoBuildAssumption DEF TypeOK, PInv, Stands, One, Replacing, Spent, Succeeded, PlacesHeld

LEMMA InitPInv == Init => PInv
<1>. SUFFICES ASSUME Init  PROVE PInv
  OBVIOUS
<1>1. \A b \in Builds : replaces[b] = NoBuild /\ status[b] # "failed"
  BY DEF Init
<1>2. \A b \in Builds : b[2] \in Replacements => status[b] = "unlisted"
  BY PopulationAssumption DEF Init
<1>. QED  BY <1>1, <1>2 DEF PInv, Given, Stands, One, Replacing, Spent

(* An index of a build's configuration is a build.                          *)
LEMMA IndexIs ==
    ASSUME NEW b \in Builds, NEW i \in Replacements  PROVE <<b[1], i>> \in Builds
  BY DEF Builds

LEMMA FinishPInv == ASSUME NEW j \in Jobs PROVE IInv /\ PInv /\ Finish(j) => PInv'
<1>. SUFFICES ASSUME IInv, PInv, Finish(j)  PROVE PInv'
  OBVIOUS
<1>. USE DEF IInv, PInv, Finish, Deciding
<1>1. at[j] \in Builds /\ status[at[j]] = "pending"
  BY DEF TypeOK, Open
<1>2. \A b \in Builds : status'[b] = IF b = at[j] THEN "finished" ELSE status[b]
  BY DEF TypeOK
<1>3. Given' /\ Replacing'
  BY <1>1, <1>2 DEF Given, Replacing
<1>4. Stands' /\ One'
  BY <1>1, <1>2 DEF Stands, One, TypeOK
<1>5. \A b \in Builds : Succeeded(b) => Succeeded(b)'
  BY <1>2, IndexIs DEF Succeeded
<1>6. Spent'
  BY <1>2, <1>5 DEF Spent
<1>. QED  BY <1>3, <1>4, <1>6

LEMMA FailPInv == ASSUME NEW j \in Jobs PROVE IInv /\ PInv /\ Fail(j) => PInv'
<1>. SUFFICES ASSUME IInv, PInv, Fail(j)  PROVE PInv'
  OBVIOUS
<1>. USE DEF IInv, PInv, Deciding
<1>1. at[j] \in Builds /\ status[at[j]] = "pending" /\ runs' = runs
  BY DEF Fail, TypeOK, Open
<1>2. runs[at[j]] = RESUMES + 1
  BY <1>1, BoundsAre DEF Fail, Exhausted, TypeOK
<1>3. CASE Unused(at[j]) = {}
  <2>1. replaces' = replaces
    BY <1>3 DEF Fail
  <2>2. \A b \in Builds : status'[b] = IF b = at[j] THEN "failed" ELSE status[b]
    BY <1>3 DEF Fail, TypeOK
  <2>3. Given' /\ Replacing' /\ Stands' /\ One'
    BY <1>1, <2>1, <2>2 DEF Given, Replacing, Stands, One, TypeOK
  <2>4. \A b \in Builds : Succeeded(b) => Succeeded(b)'
    BY <2>1, <2>2, IndexIs DEF Succeeded
  <2>5. \A b \in Builds : b = at[j] => Succeeded(b)'
    BY <1>1, <1>3, <2>2, IndexIs DEF Succeeded, Unused
  <2>6. Spent'
    BY <1>1, <1>2, <2>2, <2>4, <2>5 DEF Spent
  <2>. QED  BY <2>3, <2>6
<1>4. CASE Unused(at[j]) # {}
  <2>. DEFINE r == <<at[j][1], Min(Unused(at[j]))>>
  <2>1. r \in Builds /\ status[r] = "unlisted" /\ r[1] = at[j][1]
    BY <1>1, <1>4, ReplacementIs
  <2>2. /\ status' = [status EXCEPT ![at[j]] = "failed", ![r] = "pending"]
        /\ replaces' = [replaces EXCEPT ![r] = at[j]]
    BY <1>4 DEF Fail
  <2>. HIDE DEF r
  <2>3. \A b \in Builds :
           status'[b] = IF b = r THEN "pending" ELSE IF b = at[j] THEN "failed" ELSE status[b]
    BY <1>1, <2>1, <2>2 DEF TypeOK
  <2>4. \A b \in Builds : replaces'[b] = IF b = r THEN at[j] ELSE replaces[b]
    BY <2>1, <2>2 DEF TypeOK
  <2>5. replaces[r] = NoBuild /\ r # at[j]
    BY <1>1, <2>1 DEF Given
  <2>6. \A b \in Builds : replaces[b] # at[j] /\ replaces[b] # r
    BY <1>1, <2>1, NoBuildAssumption DEF Stands
  <2>7. Given' /\ Replacing'
    BY <1>1, <2>3, <2>4 DEF Given, Replacing
  <2>8. Stands'
    BY <1>1, <2>1, <2>3, <2>4, <2>5, <2>6 DEF Stands, TypeOK
  <2>9. One'
    BY <2>4, <2>6 DEF One
  <2>10. ASSUME NEW b \in Builds, Succeeded(b)  PROVE Succeeded(b)'
    <3>1. CASE \E x \in Builds : replaces[x] = b
      BY <3>1, <2>4, <2>5, NoBuildAssumption DEF Succeeded
    <3>2. CASE \A i \in Replacements : status[<<b[1], i>>] # "unlisted"
      BY <3>2, <2>3, IndexIs DEF Succeeded
    <3>. QED  BY <2>10, <3>1, <3>2 DEF Succeeded
  <2>11. \A b \in Builds : b = at[j] => Succeeded(b)'
    BY <2>1, <2>4 DEF Succeeded
  <2>12. Spent'
    BY <1>1, <1>2, <2>3, <2>10, <2>11 DEF Spent
  <2>. QED  BY <2>7, <2>8, <2>9, <2>12
<1>. QED  BY <1>3, <1>4

LEMMA ReturnPInv ==
    ASSUME NEW j \in Jobs, NEW d \in Directories, NEW refused \in BOOLEAN, NEW long \in BOOLEAN
    PROVE  IInv /\ PInv /\ Return(j, d, refused, long) => PInv'
<1>. SUFFICES ASSUME IInv, PInv, Return(j, d, refused, long)  PROVE PInv'
  OBVIOUS
<1>. USE DEF IInv, PInv, Return
<1>1. at[j] \in Builds /\ status[at[j]] = "pending" /\ UNCHANGED <<status, replaces>>
  BY DEF TypeOK, Open, Waiting
<1>2. \A b \in Builds : b # at[j] => runs'[b] = runs[b]
  BY DEF TypeOK
<1>3. Given' /\ Stands' /\ One' /\ Replacing'
  BY <1>1 DEF Given, Stands, One, Replacing
<1>4. Spent'
  BY <1>1, <1>2 DEF Spent, Succeeded
<1>. QED  BY <1>3, <1>4

(* Everything else leaves the attempts as they are.                         *)
LEMMA OtherPInv == PInv /\ UNCHANGED <<status, runs, replaces>> => PInv'
  BY DEF PInv, Given, Stands, One, Replacing, Spent, Succeeded

LEMMA NextPInv == IInv /\ PInv /\ [Next]_vars => PInv'
<1>. SUFFICES ASSUME IInv, PInv, [Next]_vars  PROVE PInv'
  OBVIOUS
<1>1. ASSUME NEW j \in Jobs, Work(j)  PROVE PInv'
  <2>1. ASSUME NEW b \in Builds, Take(j, b)  PROVE PInv'
    BY <2>1, OtherPInv DEF Take, record
  <2>2. ASSUME GiveUp(j) \/ Launch(j)  PROVE PInv'
    BY <2>2, OtherPInv DEF GiveUp, Launch, record
  <2>. QED  BY <1>1, <2>1, <2>2, FinishPInv, FailPInv, ReturnPInv DEF Work
<1>2. ASSUME Start \/ End \/ Kill \/ KillInSave  PROVE PInv'
  BY <1>2, OtherPInv DEF Start, End, Kill, KillInSave, Die, record
<1>3. ASSUME NEW b \in Builds, NEW d \in Directories, NEW refused \in BOOLEAN,
             NEW long \in BOOLEAN, OrphanEnds(b, d, refused, long)
      PROVE  PInv'
  BY <1>3, OtherPInv DEF OrphanEnds, record
<1>4. ASSUME UNCHANGED vars  PROVE PInv'
  BY <1>4, OtherPInv DEF vars, record
<1>. QED  BY <1>1, <1>2, <1>3, <1>4 DEF Next

(* A build is given up only after all its runs, and has exactly one         *)
(* replacement of its own configuration while there are any, however often  *)
(* the study is killed, refused and started again (population.py:157, 186). *)
THEOREM PlacesHeldAlways == Spec => []PlacesHeld
<1>2. Spec => []PInv
  BY Invariant, InitPInv, NextPInv, PTL DEF Spec
<1>3. IInv /\ PInv => PlacesHeld
  BY PlacesFollow DEF IInv
<1>. QED  BY Invariant, <1>2, <1>3, PTL

=============================================================================
