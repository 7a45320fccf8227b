----------------------------- MODULE Population -----------------------------
(***************************************************************************)
(* bench/population.py: the builds of a study, each a live run in a        *)
(* directory of its own, run by several workers at a time.  A build that   *)
(* stops is resumed, one that never finishes gives its place to a          *)
(* replacement, a refused account stops every worker, and the process may  *)
(* be killed and started again on its record.                              *)
(*                                                                         *)
(* What a live run makes of its directory is LiveRun's; here a directory   *)
(* is absent, "bare" (made, without a whole plan.json: no run goes on with *)
(* it), "begun" or "finished".  Every change of the record is saved under  *)
(* the same lock, so the record on disk is the one in memory.              *)
(***************************************************************************)
EXTENDS Naturals, FiniteSets, FiniteSetsExt

CONSTANTS
    Configurations,
    Orders,         \* ORDERS
    Replacements,   \* REPLACEMENTS, taken in increasing order
    RESUMES,        \* runs of a build after its first
    Jobs,           \* the pool's workers
    NoBuild,
    MaxKills        \* bound on interruptions

ASSUME PopulationAssumption ==
    /\ Orders \subseteq Nat /\ Replacements \subseteq Nat
    /\ Orders \cap Replacements = {}
    /\ RESUMES \in Nat
    /\ MaxKills \in Nat

Builds == Configurations \X (Orders \cup Replacements)

ASSUME NoBuildAssumption == NoBuild \notin Builds

VARIABLES
    (* on disk: population.json, the directories and the logs *)
    status,         \* per build, "unlisted" until it is an attempt of the record
    runs,           \* per build, the runs counted
    replaces,       \* per build, the one it replaces, or NoBuild
    torn,           \* a kill cut population.json off
    directory,
    refusal,        \* the builds whose log's last 2000 characters tell of a refused account
    (* in the process *)
    up,
    stopped,        \* the build at which the account was refused, or NoBuild
    pending,        \* not yet taken by a worker
    at,             \* per worker, its build or NoBuild
    live,           \* the workers that wait for their live run
    (* besides *)
    orphans,        \* live runs that outlived the process which started them
    kills

record == <<status, runs, replaces, torn>>
disk == <<directory, refusal>>
vars == <<record, disk, up, stopped, pending, at, live, orphans, kills>>

-----------------------------------------------------------------------------

Listed == {b \in Builds : status[b] # "unlisted"}

(* Whether a worker is at the head of build's loop, with the stop unset.    *)
Deciding(j) == up /\ at[j] # NoBuild /\ j \notin live /\ stopped = NoBuild

(* As bugs would have it, one run later, or one run earlier.                *)
ExhaustedLate(b) == runs[b] > RESUMES + 1

ExhaustedEarly(b) == runs[b] >= RESUMES

Exhausted(b) == runs[b] > RESUMES

(* _load and the list of pending builds; a fresh record lists them all.     *)
Start ==
    /\ ~up
    /\ ~torn
    /\ up' = TRUE
    /\ stopped' = NoBuild
    /\ pending' = {b \in Builds : status[b] = "pending"}
    /\ UNCHANGED <<record, disk, at, live, orphans, kills>>

(* pool.map.  Builds are taken in the record's order; any order is allowed. *)
Take(j, b) ==
    /\ up
    /\ at[j] = NoBuild
    /\ b \in pending
    /\ pending' = pending \ {b}
    /\ at' = [at EXCEPT ![j] = b]
    /\ UNCHANGED <<record, disk, up, stopped, live, orphans, kills>>

Leave(j) == at' = [at EXCEPT ![j] = NoBuild]

(* build: the stop is set.                                                  *)
GiveUp(j) ==
    /\ up /\ at[j] # NoBuild /\ j \notin live
    /\ stopped # NoBuild
    /\ Leave(j)
    /\ UNCHANGED <<record, disk, up, stopped, pending, live, orphans, kills>>

Finish(j) ==
    /\ Deciding(j)
    /\ directory[at[j]] = "finished"
    /\ status' = [status EXCEPT ![at[j]] = "finished"]
    /\ Leave(j)
    /\ UNCHANGED <<runs, replaces, torn, disk, up, stopped, pending, live, orphans, kills>>

(* The configuration's indexes without an attempt.                          *)
Unused(b) == {i \in Replacements : status[<<b[1], i>>] = "unlisted"}

(* _replace: the next index, pending, and the same worker builds it.        *)
Fail(j) ==
    LET b == at[j]
    IN  /\ Deciding(j)
        /\ directory[b] # "finished"
        /\ Exhausted(b)
        /\ IF Unused(b) = {}
           THEN /\ status' = [status EXCEPT ![b] = "failed"]
                /\ Leave(j)
                /\ UNCHANGED replaces
           ELSE LET replacement == <<b[1], Min(Unused(b))>>
                IN  /\ status' = [status EXCEPT ![b] = "failed", ![replacement] = "pending"]
                    /\ replaces' = [replaces EXCEPT ![replacement] = b]
                    /\ at' = [at EXCEPT ![j] = replacement]
        /\ UNCHANGED <<runs, torn, disk, up, stopped, pending, live, orphans, kills>>

Launch(j) ==
    /\ Deciding(j)
    /\ directory[at[j]] # "finished"
    /\ ~Exhausted(at[j])
    /\ live' = live \cup {j}
    /\ UNCHANGED <<record, disk, up, stopped, pending, at, orphans, kills>>

-----------------------------------------------------------------------------
(* A live run.                                                              *)

(* What a run, resumed if there is a plan, may leave of a directory.        *)
Outcomes(d) ==
    CASE d = "absent" -> {"absent", "bare", "begun", "finished"}
      [] d = "begun" -> {"begun", "finished"}
      [] OTHER -> {d}

(* A run that called the provider may have met a refusal, and says so last. *)
(* The log is appended to: what an earlier run said last stays in its tail  *)
(* unless this run says enough.                                             *)
Ends(b, d, refused, long) ==
    /\ d \in Outcomes(directory[b])
    /\ refused => d = "begun"
    /\ directory' = [directory EXCEPT ![b] = d]
    /\ refusal' = IF refused THEN refusal \cup {b} ELSE IF long THEN refusal \ {b} ELSE refusal

(* As a bug would have it, a run that met a refusal does not count.         *)
ReturnUncounted(j, d, refused, long) ==
    /\ up
    /\ j \in live
    /\ Ends(at[j], d, refused, long)
    /\ runs' = IF at[j] \in refusal' THEN runs ELSE [runs EXCEPT ![at[j]] = @ + 1]
    /\ stopped' = IF at[j] \in refusal' THEN at[j] ELSE stopped
    /\ live' = live \ {j}
    /\ UNCHANGED <<status, replaces, torn, up, pending, at, orphans, kills>>

(* The runner returns: the run is counted, and the tail of its log read.    *)
Return(j, d, refused, long) ==
    /\ up
    /\ j \in live
    /\ Ends(at[j], d, refused, long)
    /\ runs' = [runs EXCEPT ![at[j]] = @ + 1]
    /\ stopped' = IF at[j] \in refusal' THEN at[j] ELSE stopped
    /\ live' = live \ {j}
    /\ UNCHANGED <<status, replaces, torn, up, pending, at, orphans, kills>>

(* Nobody waits for it, and nobody counts it.                               *)
OrphanEnds(b, d, refused, long) ==
    /\ b \in orphans
    /\ Ends(b, d, refused, long)
    /\ orphans' = orphans \ {b}
    /\ UNCHANGED <<record, up, stopped, pending, at, live, kills>>

-----------------------------------------------------------------------------

(* Every worker is done: the record is saved once more.                     *)
End ==
    /\ up
    /\ pending = {}
    /\ \A j \in Jobs : at[j] = NoBuild
    /\ up' = FALSE
    /\ UNCHANGED <<record, disk, stopped, pending, at, live, orphans, kills>>

(* The process dies.  A live run it waited for may go on without it.        *)
Die ==
    /\ up
    /\ kills < MaxKills
    /\ kills' = kills + 1
    /\ up' = FALSE
    /\ pending' = {}
    /\ at' = [j \in Jobs |-> NoBuild]
    /\ live' = {}
    /\ UNCHANGED <<status, runs, replaces, stopped>>

(* A live run that dies with it leaves what a run may leave.                *)
Kill ==
    /\ Die
    /\ \E dead \in SUBSET {at[j] : j \in live} :
           /\ orphans' = orphans \cup ({at[j] : j \in live} \ dead)
           /\ directory' \in [Builds -> {"absent", "bare", "begun", "finished"}]
           /\ \A b \in Builds :
                  directory'[b] \in IF b \in dead THEN Outcomes(directory[b]) ELSE {directory[b]}
    /\ UNCHANGED <<torn, refusal>>

(* ... while it writes the record.                                          *)
KillInSave ==
    /\ Die
    /\ \E j \in Jobs : Deciding(j) /\ (directory[at[j]] = "finished" \/ Exhausted(at[j]))
    /\ torn' = TRUE
    /\ orphans' = orphans \cup {at[j] : j \in live}
    /\ UNCHANGED disk

-----------------------------------------------------------------------------

Init ==
    /\ status = [b \in Builds |-> IF b[2] \in Orders THEN "pending" ELSE "unlisted"]
    /\ runs = [b \in Builds |-> 0]
    /\ replaces = [b \in Builds |-> NoBuild]
    /\ torn = FALSE
    /\ directory = [b \in Builds |-> "absent"]
    /\ refusal = {}
    /\ up = FALSE
    /\ stopped = NoBuild
    /\ pending = {}
    /\ at = [j \in Jobs |-> NoBuild]
    /\ live = {}
    /\ orphans = {}
    /\ kills = 0

Directories == {"absent", "bare", "begun", "finished"}

Work(j) ==
    \/ \E b \in Builds : Take(j, b)
    \/ GiveUp(j)
    \/ Finish(j)
    \/ Fail(j)
    \/ Launch(j)
    \/ \E d \in Directories, refused, long \in BOOLEAN : Return(j, d, refused, long)

Next ==
    \/ Start
    \/ \E j \in Jobs : Work(j)
    \/ \E b \in Builds, d \in Directories, refused, long \in BOOLEAN :
           OrphanEnds(b, d, refused, long)
    \/ End
    \/ Kill
    \/ KillInSave

Spec == Init /\ [][Next]_vars

(* The workers of a live process run on, a run ends, and a population that  *)
(* ended or died is started again.                                          *)
FairSpec == Spec /\ WF_vars(Start) /\ WF_vars(\E j \in Jobs : Work(j)) /\ WF_vars(End)

-----------------------------------------------------------------------------

TypeOK ==
    /\ status \in [Builds -> {"unlisted", "pending", "finished", "failed"}]
    /\ runs \in [Builds -> 0 .. RESUMES + 1]
    /\ replaces \in [Builds -> Builds \cup {NoBuild}]
    /\ torn \in BOOLEAN
    /\ directory \in [Builds -> Directories]
    /\ refusal \subseteq Builds
    /\ up \in BOOLEAN
    /\ stopped \in Builds \cup {NoBuild}
    /\ pending \subseteq Builds
    /\ at \in [Jobs -> Builds \cup {NoBuild}]
    /\ live \subseteq Jobs
    /\ orphans \subseteq Builds
    /\ kills \in 0 .. MaxKills

(* The study has as many builds as it registered, whatever was interrupted: *)
(* a build is given up only after all its runs, every one given up has      *)
(* exactly one replacement until the three are used, and a replacement      *)
(* stands for a build of its own configuration that was given up.           *)
PlacesHeld ==
    \A b \in Builds :
        /\ status[b] = "failed" =>
               /\ runs[b] = RESUMES + 1
               /\ \/ \E r \in Builds : replaces[r] = b
                  \/ \A i \in Replacements : status[<<b[1], i>>] # "unlisted"
        /\ b[2] \in Replacements /\ status[b] # "unlisted" =>
               /\ replaces[b] \in Builds
               /\ replaces[b][1] = b[1]
               /\ status[replaces[b]] = "failed"
        /\ \A c \in Builds : replaces[b] = replaces[c] /\ replaces[b] # NoBuild => b = c

(* Running the population again and again settles every build, however many *)
(* times the account is refused, unless a kill tore its record.             *)
EventuallySettled == <>[](torn \/ \A b \in Builds : status[b] # "pending")

=============================================================================
