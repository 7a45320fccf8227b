------------------------ MODULE ProgramLibrary_proofs -----------------------
(***************************************************************************)
(* Theorems about ProgramLibrary for every set of programs: the type       *)
(* invariant, and what crashes and half-finished writes cannot undo.       *)
(***************************************************************************)
EXTENDS ProgramLibrary, SequenceTheorems, TLAPS

(* The table sends every status to statuses, each of a higher rank.         *)
LEMMA TransitionsRaise ==
    ASSUME NEW s \in Status, NEW t \in Transitions[s]
    PROVE  t \in Status /\ Rank[s] < Rank[t] /\ s # "quarantined"
  BY DEF Status, Transitions, Rank

(* What a load returns is a status, and "none" exactly where there is no    *)
(* file.                                                                    *)
LEMMA ViewType ==
    ASSUME TypeOK, NEW p \in Programs
    PROVE  /\ View(p) \in Status \cup {None}
           /\ View(p) = None <=> stored[p] = None
  BY DEF TypeOK, View, Status, None

-----------------------------------------------------------------------------
(* Every step keeps the types.                                              *)
LEMMA TypeStep == TypeOK /\ [Next]_vars => TypeOK'
<1> SUFFICES ASSUME TypeOK, [Next]_vars PROVE TypeOK'
  OBVIOUS
<1> USE DEF TypeOK, Job
<1>1. ASSUME NEW p \in Programs, Add(p) PROVE TypeOK'
  BY <1>1 DEF Add, disk, ghosts, Status
<1>2. ASSUME NEW p \in Programs, NEW status \in Status, SetStatus(p, status)
      PROVE  TypeOK'
  BY <1>2, ViewType DEF SetStatus, Move, disk, ghosts
<1>3. ASSUME NEW p \in Programs, RecordMismatch(p) PROVE TypeOK'
  <2>1. /\ mismatches' = [mismatches EXCEPT ![p] = @ + 1]
        /\ UNCHANGED <<dirs, stored, torn, moves, revised, sweeping, cut, byHand>>
        /\ owed' \subseteq owed
    BY <1>3 DEF RecordMismatch
  <2>2. pc' \in {"idle", "mkdir", "truncate", "write", "append"} /\ job' \in Job
    <3>1. CASE pc' = "truncate" /\ job' = Move(p, "quarantined")
      BY <3>1, ViewType DEF Move, Status
    <3>2. CASE UNCHANGED <<pc, job>>
      BY <3>2
    <3> QED
      BY <1>3, <3>1, <3>2 DEF RecordMismatch
  <2>3. mismatches' \in [Programs -> Nat]
    BY <2>1
  <2> HIDE DEF Job
  <2> QED
    BY <2>1, <2>2, <2>3
<1>4. ASSUME NEW p \in Programs, RecordRevision(p) PROVE TypeOK'
  BY <1>4 DEF RecordRevision, process, ghosts
<1>5. CASE Sweep
  BY <1>5 DEF Sweep, disk, ghosts
<1>6. ASSUME NEW p \in Programs, SweepNext(p) PROVE TypeOK'
  BY <1>6 DEF SweepNext, disk, ghosts, Status
<1>7. CASE SweepEnd
  BY <1>7 DEF SweepEnd, disk, ghosts
<1>8. CASE MakeDirectory
  BY <1>8 DEF MakeDirectory, ghosts
<1>9. CASE Truncate
  BY <1>9 DEF Truncate, ghosts
<1>10. CASE Write
  BY <1>10 DEF Write, ghosts
<1>11. CASE AppendHistory
  <2> DEFINE Entries == [from : Status \cup {None}, to : Status]
             e == [from |-> job.from, to |-> job.to]
  <2>1. e \in Entries /\ moves[job.p] \in Seq(Entries)
    OBVIOUS
  <2> HIDE DEF Entries, e
  <2>2. Append(moves[job.p], e) \in Seq(Entries)
    BY <2>1, AppendProperties
  <2> QED
    BY <1>11, <2>2 DEF AppendHistory, ghosts, Entries, e
<1>12. CASE Crash
  BY <1>12 DEF Crash, disk
<1>13. ASSUME NEW p \in Programs, NEW status \in Status, WriteByHand(p, status)
       PROVE  TypeOK'
  BY <1>13 DEF WriteByHand, process
<1>14. CASE UNCHANGED vars
  BY <1>14 DEF vars, disk, process, ghosts
<1> QED
  BY <1>1, <1>2, <1>3, <1>4, <1>5, <1>6, <1>7, <1>8, <1>9, <1>10, <1>11, <1>12,
     <1>13, <1>14 DEF Next, Operation, DiskWrite

LEMMA InitType == Init => TypeOK
<1> DEFINE Entries == [from : Status \cup {None}, to : Status]
<1> SUFFICES ASSUME Init PROVE TypeOK
  OBVIOUS
<1>1. moves \in [Programs -> Seq(Entries)]
  <2> HIDE DEF Entries
  <2>1. <<>> \in Seq(Entries)
    OBVIOUS
  <2> QED
    BY <2>1 DEF Init
<1> QED
  BY <1>1 DEF Init, TypeOK

(* Every variable keeps its type, whatever runs and wherever it dies.       *)
THEOREM TypeCorrect == Spec => []TypeOK
<1>1. Init => TypeOK
  BY InitType
<1> QED
  BY <1>1, TypeStep, PTL DEF Spec


-----------------------------------------------------------------------------
(* The inductive invariant.                                                 *)

(* The operation under way was decided on the status still in the file, and *)
(* raises it.  A new program's directory has not been made before mkdir.    *)
JobCurrent ==
    /\ pc # "idle" => Rank[job.from] < Rank[job.to]
    /\ pc \in {"mkdir", "truncate", "write"} => stored[job.p] = job.from
    /\ pc = "mkdir" => job.p \notin dirs
    /\ pc \in {"truncate", "write", "append"} => job.p \in dirs
    /\ pc = "append" => stored[job.p] = job.to

(* A program without a file has no record either.                           *)
NothingBeforeFile ==
    \A p \in Programs :
        /\ p \notin dirs => stored[p] = None
        /\ stored[p] = None => mismatches[p] = 0 /\ moves[p] = <<>>

TornExactly == torn \subseteq cut \cup {p \in Programs : pc = "write" /\ job.p = p}

(* The cap is either acted on or being acted on.                            *)
Withdrawing(p) == pc \in {"truncate", "write"} /\ job.p = p /\ job.to = "quarantined"

CapActedOn ==
    \A p \in Programs :
        mismatches[p] >= 2 => View(p) = "quarantined" \/ Withdrawing(p) \/ p \in owed

StateInv == TypeOK /\ JobCurrent /\ NothingBeforeFile /\ TornExactly /\ CapActedOn

(* What the history should tell of a program: the move under way counts     *)
(* once its entry is written.                                               *)
Known(p) == IF pc = "append" /\ job.p = p THEN job.from ELSE stored[p]

Ascending(m) ==
    /\ \A i \in 1 .. Len(m) : Rank[m[i].from] < Rank[m[i].to]
    /\ \A i \in 1 .. Len(m) - 1 : Rank[m[i].to] <= Rank[m[i + 1].from]

Joined(m) == \A i \in 1 .. Len(m) - 1 : m[i].to = m[i + 1].from

HistoryInv ==
    /\ \A p \in Programs :
           /\ Ascending(moves[p])
           /\ moves[p] # <<>> => Rank[Recorded(p)] <= Rank[Known(p)]
    /\ \A p \in Programs \ cut :
           /\ Joined(moves[p])
           /\ IF moves[p] = <<>> THEN p \in byHand \/ Known(p) = None
                                 ELSE Recorded(p) = Known(p)


-----------------------------------------------------------------------------
(* An operation that has decided on a move leaves the invariant true: it    *)
(* has only picked a job, and the job is current.                           *)
LEMMA StartStep ==
    ASSUME StateInv, pc = "idle", NEW p \in Programs,
           job' = [p |-> p, from |-> stored[p], to |-> job'.to],
           pc' = "truncate",
           Rank[stored[p]] < Rank[job'.to],
           p \in dirs,
           UNCHANGED <<dirs, stored, torn, moves, cut>>,
           owed \ {p} \subseteq owed',
           \A q \in Programs \ {p} : mismatches'[q] = mismatches[q],
           stored[p] = None => mismatches'[p] = 0,
           mismatches'[p] >= 2 => \/ mismatches[p] >= 2 /\ (p \in owed => p \in owed')
                                  \/ View(p) = "quarantined"
                                  \/ job'.to = "quarantined"
    PROVE  (JobCurrent /\ NothingBeforeFile /\ TornExactly /\ CapActedOn)'
<1> USE DEF StateInv
<1>1. JobCurrent'
  BY DEF JobCurrent
<1>2. NothingBeforeFile'
  BY DEF NothingBeforeFile
<1>3. TornExactly'
  BY DEF TornExactly
<1>4. CapActedOn'
  BY DEF CapActedOn, Withdrawing, View
<1> QED
  BY <1>1, <1>2, <1>3, <1>4

(* A set_status or a withdrawal decides on the status in the file: what the *)
(* variant check withdraws may not move at all.                             *)
LEMMA MoveFromStored ==
    ASSUME TypeOK, NEW p \in Programs, Readable(p),
           NEW status, status \in Transitions[View(p)]
    PROVE  /\ View(p) = stored[p]
           /\ status \in Status
           /\ Rank[stored[p]] < Rank[status]
<1>1. View(p) \in Status
  BY ViewType DEF Readable
<1>2. View(p) # "quarantined" /\ status \in Status /\ Rank[View(p)] < Rank[status]
  BY <1>1, TransitionsRaise
<1>3. View(p) = stored[p]
  BY <1>2 DEF View
<1> QED
  BY <1>2, <1>3

LEMMA StateStep == StateInv /\ [Next]_vars => StateInv'
<1> SUFFICES ASSUME StateInv, [Next]_vars
             PROVE  (JobCurrent /\ NothingBeforeFile /\ TornExactly /\ CapActedOn)'
  BY TypeStep DEF StateInv
<1> USE DEF StateInv
<1>1. ASSUME NEW p \in Programs, Add(p)
      PROVE  (JobCurrent /\ NothingBeforeFile /\ TornExactly /\ CapActedOn)'
  <2> USE <1>1 DEF Add, Idle, disk, ghosts
  <2>1. JobCurrent'
    BY DEF JobCurrent, NothingBeforeFile, Rank, None
  <2>2. NothingBeforeFile' /\ TornExactly'
    BY DEF NothingBeforeFile, TornExactly
  <2>3. CapActedOn'
    BY DEF CapActedOn, Withdrawing, View
  <2> QED
    BY <2>1, <2>2, <2>3
<1>2. ASSUME NEW p \in Programs, NEW status \in Status, SetStatus(p, status)
      PROVE  (JobCurrent /\ NothingBeforeFile /\ TornExactly /\ CapActedOn)'
  <2>1. View(p) = stored[p] /\ Rank[stored[p]] < Rank[status]
    BY <1>2, MoveFromStored DEF SetStatus
  <2> QED
    BY <1>2, <2>1, StartStep
    DEF SetStatus, Move, Idle, Readable, disk, ghosts, NothingBeforeFile
<1>3. ASSUME NEW p \in Programs, RecordMismatch(p)
      PROVE  (JobCurrent /\ NothingBeforeFile /\ TornExactly /\ CapActedOn)'
  <2>0. /\ pc = "idle"
        /\ stored[p] # None
        /\ mismatches' = [mismatches EXCEPT ![p] = @ + 1]
        /\ owed' = owed \ {p}
        /\ UNCHANGED <<dirs, stored, torn, moves, cut>>
    BY <1>3 DEF RecordMismatch, Idle, Readable
  <2>1. CASE CapReached(p) /\ "quarantined" \in Transitions[View(p)]
    <3>1. View(p) = stored[p] /\ Rank[stored[p]] < Rank["quarantined"]
      BY <1>3, <2>1, MoveFromStored DEF RecordMismatch
    <3>2. job' = [p |-> p, from |-> stored[p], to |-> "quarantined"] /\ pc' = "truncate"
      BY <1>3, <2>1, <3>1 DEF RecordMismatch, Move
    <3> QED
      BY <2>0, <3>1, <3>2, StartStep DEF TypeOK, NothingBeforeFile
  <2>2. CASE ~(CapReached(p) /\ "quarantined" \in Transitions[View(p)])
    <3>1. UNCHANGED <<pc, job>>
      BY <1>3, <2>2 DEF RecordMismatch
    <3>2. View(p) = "quarantined" \/ mismatches[p] + 1 < 2
      <4>1. View(p) \in Status
        BY <2>0, ViewType
      <4> QED
        BY <2>2, <4>1
        DEF CapReached, Transitions, Status, TypeOK, MISMATCHES_BEFORE_QUARANTINE
    <3>3. JobCurrent' /\ NothingBeforeFile' /\ TornExactly'
      BY <2>0, <3>1 DEF JobCurrent, NothingBeforeFile, TornExactly, TypeOK
    <3>4. CapActedOn'
      BY <2>0, <3>1, <3>2 DEF CapActedOn, Withdrawing, View, TypeOK
    <3> QED
      BY <3>3, <3>4
  <2> QED
    BY <2>1, <2>2
<1>4. ASSUME NEW p \in Programs, RecordRevision(p)
      PROVE  (JobCurrent /\ NothingBeforeFile /\ TornExactly /\ CapActedOn)'
  BY <1>4 DEF RecordRevision, process, ghosts, JobCurrent, NothingBeforeFile,
              TornExactly, CapActedOn, Withdrawing, View
<1>5. CASE Sweep \/ SweepEnd
  BY <1>5 DEF Sweep, SweepEnd, disk, ghosts, JobCurrent, NothingBeforeFile,
              TornExactly, CapActedOn, Withdrawing, View
<1>6. ASSUME NEW p \in Programs, SweepNext(p)
      PROVE  (JobCurrent /\ NothingBeforeFile /\ TornExactly /\ CapActedOn)'
  <2>1. Rank[stored[p]] < Rank["quarantined"]
    BY <1>6 DEF SweepNext, Unsettled, Readable, TypeOK, Status, Rank
  <2> QED
    BY <1>6, <2>1, StartStep DEF SweepNext, Unsettled, Readable, disk, ghosts, NothingBeforeFile
<1>7. CASE MakeDirectory
  <2> USE <1>7 DEF MakeDirectory, ghosts
  <2>1. JobCurrent' /\ TornExactly' /\ NothingBeforeFile'
    BY DEF JobCurrent, TornExactly, NothingBeforeFile, TypeOK, Job
  <2>2. CapActedOn'
    BY DEF CapActedOn, Withdrawing, View
  <2> QED
    BY <2>1, <2>2
<1>8. CASE Truncate
  <2> USE <1>8 DEF Truncate, ghosts
  <2>1. JobCurrent' /\ TornExactly' /\ NothingBeforeFile'
    BY DEF JobCurrent, TornExactly, NothingBeforeFile, TypeOK, Job
  <2>2. CapActedOn'
    BY DEF CapActedOn, Withdrawing, View
  <2> QED
    BY <2>1, <2>2
<1>9. CASE Write
  <2> USE <1>9 DEF Write, ghosts
  <2>0. job.p \in Programs /\ job.to \in Status /\ stored' = [stored EXCEPT ![job.p] = job.to]
    BY DEF TypeOK, Job
  <2>1. JobCurrent'
    BY <2>0 DEF JobCurrent, TypeOK
  <2>2. TornExactly'
    BY <2>0 DEF TornExactly
  <2>3. NothingBeforeFile'
    <3>1. job.p \in dirs
      BY DEF JobCurrent, NothingBeforeFile
    <3> QED
      BY <2>0, <3>1 DEF NothingBeforeFile, TypeOK, Status, None
  <2>4. CapActedOn'
    BY <2>0 DEF CapActedOn, Withdrawing, View, TypeOK, JobCurrent, Job, Rank, Status, None
  <2> QED
    BY <2>1, <2>2, <2>3, <2>4
<1>10. CASE AppendHistory
  <2> USE <1>10 DEF AppendHistory, ghosts
  <2>1. JobCurrent' /\ TornExactly'
    BY DEF JobCurrent, TornExactly
  <2>2. NothingBeforeFile'
    BY DEF NothingBeforeFile, JobCurrent, TypeOK, Job, Status, None
  <2>3. CapActedOn'
    BY DEF CapActedOn, Withdrawing, View
  <2> QED
    BY <2>1, <2>2, <2>3
<1>11. CASE Crash
  <2> USE <1>11 DEF Crash, disk
  <2>1. JobCurrent' /\ NothingBeforeFile'
    BY DEF JobCurrent, NothingBeforeFile
  <2>2. TornExactly'
    BY DEF TornExactly
  <2>3. CapActedOn'
    BY DEF CapActedOn, Withdrawing, View, MISMATCHES_BEFORE_QUARANTINE
  <2> QED
    BY <2>1, <2>2, <2>3
<1>12. ASSUME NEW p \in Programs, NEW status \in Status, WriteByHand(p, status)
       PROVE  (JobCurrent /\ NothingBeforeFile /\ TornExactly /\ CapActedOn)'
  <2> USE <1>12 DEF WriteByHand, Idle, process
  <2>1. JobCurrent' /\ TornExactly'
    BY DEF JobCurrent, TornExactly
  <2>2. NothingBeforeFile'
    BY DEF NothingBeforeFile, TypeOK, Status, None
  <2>3. CapActedOn'
    BY DEF CapActedOn, Withdrawing, View, NothingBeforeFile, TypeOK
  <2> QED
    BY <2>1, <2>2, <2>3
<1>13. CASE UNCHANGED vars
  BY <1>13 DEF vars, disk, process, ghosts, JobCurrent, NothingBeforeFile,
               TornExactly, CapActedOn, Withdrawing, View
<1> QED
  BY <1>1, <1>2, <1>3, <1>4, <1>5, <1>6, <1>7, <1>8, <1>9, <1>10, <1>11, <1>12, <1>13
  DEF Next, Operation, DiskWrite

LEMMA StateInvariant == Spec => []StateInv
<1>1. Init => StateInv
  <2> QED
    BY InitType DEF Init, StateInv, JobCurrent, NothingBeforeFile, TornExactly, CapActedOn,
                Withdrawing
<1> QED
  BY <1>1, StateStep, PTL DEF Spec

-----------------------------------------------------------------------------
(* A truncated program.yaml means a write under way or a crash.             *)
THEOREM TornOnlyByCrashHolds == Spec => []TornOnlyByCrash
<1>1. StateInv => TornOnlyByCrash
  BY DEF StateInv, TornExactly, TornOnlyByCrash, InFlight
<1> QED
  BY <1>1, StateInvariant, PTL

(* Two counted wrong fires withdraw a program, whatever ran in between; one  *)
(* a death got in the way of is withdrawn by the next (library.py 442-448).  *)
THEOREM MismatchWithdrawsHolds == Spec => []MismatchWithdraws
<1>1. StateInv => MismatchWithdraws
  BY DEF StateInv, CapActedOn, Withdrawing, MismatchWithdraws, InFlight
<1> QED
  BY <1>1, StateInvariant, PTL

(* A stored status only ever rises, through crashes included.               *)
THEOREM StatusOnlyForwardHolds == Spec => StatusOnlyForward
<1>1. StateInv /\ [Next]_vars =>
          [\A p \in Programs :
              stored'[p] = stored[p] \/ Rank[stored[p]] < Rank[stored'[p]]]_stored
  <2> SUFFICES ASSUME StateInv, [Next]_vars, NEW q \in Programs
               PROVE  stored'[q] = stored[q] \/ Rank[stored[q]] < Rank[stored'[q]]
    OBVIOUS
  <2>1. CASE Write
    BY <2>1 DEF Write, StateInv, TypeOK, JobCurrent
  <2>2. ASSUME NEW p \in Programs, NEW status \in Status, WriteByHand(p, status)
        PROVE  stored'[q] = stored[q] \/ Rank[stored[q]] < Rank[stored'[q]]
    BY <2>2 DEF WriteByHand, StateInv, TypeOK, NothingBeforeFile, Rank, Status, None
  <2>3. CASE UNCHANGED stored
    BY <2>3
  <2> QED
    BY <2>1, <2>2, <2>3
    DEF Next, Operation, DiskWrite, Add, SetStatus, RecordMismatch, RecordRevision,
        Sweep, SweepNext, SweepEnd, MakeDirectory, Truncate, AppendHistory, Crash,
        vars, disk
<1> QED
  BY <1>1, StateInvariant, PTL DEF Spec, StatusOnlyForward


(* quarantine_undeclared moves only what the variant check withdraws        *)
(* already, so no load returns anything new.                                *)
THEOREM SweepChangesNoVerdictHolds == Spec => SweepChangesNoVerdict
<1> DEFINE SweepInv == sweeping /\ pc # "idle" => job.p \in Undeclared /\ job.from # None
                                                    /\ pc # "mkdir"
<1>1. Init => SweepInv
  BY DEF Init
<1>2. SweepInv /\ [Next]_vars => SweepInv'
  <2> SUFFICES ASSUME SweepInv, [Next]_vars PROVE SweepInv'
    OBVIOUS
  <2>1. CASE Operation
    <3>1. CASE \E p \in Programs : SweepNext(p)
      BY <3>1 DEF SweepNext, Unsettled, Readable
    <3>2. CASE ~sweeping' \/ pc' = "idle"
      BY <3>2
    <3> QED
      BY <2>1, <3>1, <3>2
      DEF Operation, Add, SetStatus, RecordMismatch, RecordRevision, Sweep, SweepEnd, Idle,
          process
  <2>2. CASE DiskWrite
    BY <2>2 DEF DiskWrite, MakeDirectory, Truncate, Write, AppendHistory
  <2>3. CASE Crash
    BY <2>3 DEF Crash
  <2>4. CASE UNCHANGED process
    BY <2>4 DEF process
  <2> QED
    BY <2>1, <2>2, <2>3, <2>4 DEF Next, WriteByHand, vars
<1>3. StateInv /\ SweepInv /\ [Next]_vars =>
          [sweeping => \A p \in Programs : View(p)' = View(p)]_vars
  <2> SUFFICES ASSUME StateInv, SweepInv, [Next]_vars, sweeping, NEW q \in Programs
               PROVE  View(q)' = View(q)
    OBVIOUS
  <2>1. CASE Write
    <3>1. job.p \in Undeclared /\ job.to # None
      BY <2>1 DEF Write, StateInv, TypeOK, Job, Status, None
    <3>2. pc = "write" /\ stored' = [stored EXCEPT ![job.p] = job.to]
      BY <2>1 DEF Write
    <3>3. stored[job.p] # None
      BY <3>2 DEF StateInv, JobCurrent
    <3> QED
      BY <3>1, <3>2, <3>3 DEF View, StateInv, TypeOK
  <2>2. CASE UNCHANGED stored
    BY <2>2 DEF View
  <2> QED
    BY <2>1, <2>2
    DEF Next, Operation, DiskWrite, Add, SetStatus, RecordMismatch, RecordRevision,
        Sweep, SweepNext, SweepEnd, MakeDirectory, Truncate, AppendHistory, Crash,
        WriteByHand, Idle, vars, disk
<1> QED
  BY <1>1, <1>2, <1>3, StateInvariant, PTL DEF Spec, SweepChangesNoVerdict


-----------------------------------------------------------------------------
(* One program rises in rank, the others stay: a step of the pool, or none. *)
LEMMA RiseIsPoolStep ==
    ASSUME StateInv, NEW p \in Programs, NEW status \in Status,
           Rank[stored[p]] < Rank[status],
           stored' = [stored EXCEPT ![p] = status]
    PROVE  [Pool!Next]_poolPhase
<1> DEFINE ph == poolPhase
<1>0. /\ stored[p] \in Status \cup {None}
      /\ stored'[p] = status
      /\ \A q \in Programs \ {p} : stored'[q] = stored[q]
  BY DEF StateInv, TypeOK
<1>1. \A q \in Programs \ {p} : ph'[q] = ph[q]
  BY <1>0 DEF View, poolPhase
<1>2. ph' = [ph EXCEPT ![p] = ph'[p]]
  BY <1>1 DEF poolPhase
<1>3. \/ ph[p] = "absent" /\ ph'[p] \in {"waiting", "dispatchable", "withdrawn"}
      \/ ph[p] = "waiting" /\ ph'[p] \in {"dispatchable", "withdrawn"}
      \/ ph[p] = "dispatchable" /\ ph'[p] = "withdrawn"
      \/ ph[p] = ph'[p]
  <2>1. CASE p \in Undeclared
    BY <1>0, <2>1 DEF View, Phase, Status, None, Rank, poolPhase
  <2>2. CASE p \notin Undeclared
    BY <1>0, <2>2 DEF View, Phase, Status, None, Rank, poolPhase
  <2> QED
    BY <2>1, <2>2
<1> HIDE DEF ph
<1>4. CASE ph[p] = "absent" /\ ph'[p] \in {"waiting", "dispatchable", "withdrawn"}
  BY <1>2, <1>4 DEF Pool!Next, Pool!Appear, Pool!Phases, ph
<1>5. CASE ph[p] = "waiting" /\ ph'[p] = "dispatchable"
  BY <1>2, <1>5 DEF Pool!Next, Pool!Admit, ph
<1>6. CASE ph[p] \in {"waiting", "dispatchable"} /\ ph'[p] = "withdrawn"
  BY <1>2, <1>6 DEF Pool!Next, Pool!Withdraw, ph
<1>7. CASE ph[p] = ph'[p]
  BY <1>1, <1>7 DEF ph, poolPhase
<1> QED
  BY <1>3, <1>4, <1>5, <1>6, <1>7

(* Every load sees a program dispatchable over one stretch of its life at   *)
(* most: the library, with its crashes, implements DispatchPool.            *)
THEOREM LibraryImplementsPool == Spec => ImplementsPool
<1>1. Init => Pool!Init
  BY DEF Init, Pool!Init, View, Phase, None, poolPhase
<1>2. StateInv /\ [Next]_vars => [Pool!Next]_poolPhase
  <2> SUFFICES ASSUME StateInv, [Next]_vars PROVE [Pool!Next]_poolPhase
    OBVIOUS
  <2>1. CASE Write
    <3>1. /\ job.p \in Programs /\ job.to \in Status
          /\ Rank[stored[job.p]] < Rank[job.to]
          /\ stored' = [stored EXCEPT ![job.p] = job.to]
      BY <2>1 DEF Write, StateInv, TypeOK, JobCurrent, Job
    <3> QED
      BY <3>1, RiseIsPoolStep
  <2>2. ASSUME NEW p \in Programs, NEW status \in Status, WriteByHand(p, status)
        PROVE  [Pool!Next]_poolPhase
    <3>1. stored[p] = None /\ Rank[None] < Rank[status]
      BY <2>2 DEF WriteByHand, StateInv, NothingBeforeFile, Rank, Status, None
    <3> QED
      BY <2>2, <3>1, RiseIsPoolStep DEF WriteByHand
  <2>3. CASE UNCHANGED stored
    BY <2>3 DEF View, Phase, poolPhase
  <2> QED
    BY <2>1, <2>2, <2>3
    DEF Next, Operation, DiskWrite, Add, SetStatus, RecordMismatch, RecordRevision,
        Sweep, SweepNext, SweepEnd, MakeDirectory, Truncate, AppendHistory, Crash,
        vars, disk
<1> QED
  BY <1>1, <1>2, StateInvariant, PTL DEF Spec, ImplementsPool, Pool!Spec


-----------------------------------------------------------------------------
(* Histories.  An entry that starts no lower than the last one ended keeps  *)
(* a history ascending, one that starts where it ended keeps it joined.     *)
Entries == [from : Status \cup {None}, to : Status]

LEMMA AppendAscending ==
    ASSUME NEW m \in Seq(Entries), NEW e \in Entries, Ascending(m),
           Rank[e.from] < Rank[e.to],
           m # <<>> => Rank[m[Len(m)].to] <= Rank[e.from]
    PROVE  Ascending(Append(m, e))
<1> DEFINE n == Append(m, e)
<1>1. /\ Len(n) = Len(m) + 1
      /\ \A i \in 1 .. Len(m) : n[i] = m[i]
      /\ n[Len(m) + 1] = e
      /\ Len(m) \in Nat
      /\ Len(m) = 0 <=> m = <<>>
  BY AppendProperties, EmptySeq, LenProperties
<1> HIDE DEF n
<1>2. \A i \in 1 .. Len(n) : Rank[n[i].from] < Rank[n[i].to]
  BY <1>1 DEF Ascending
<1>3. \A i \in 1 .. Len(n) - 1 : Rank[n[i].to] <= Rank[n[i + 1].from]
  <2> SUFFICES ASSUME NEW i \in 1 .. Len(n) - 1
               PROVE  Rank[n[i].to] <= Rank[n[i + 1].from]
    OBVIOUS
  <2>1. CASE i = Len(m)
    BY <1>1, <2>1
  <2>2. CASE i < Len(m)
    BY <1>1, <2>2 DEF Ascending
  <2> QED
    BY <1>1, <2>1, <2>2
<1> QED
  BY <1>2, <1>3 DEF Ascending, n

LEMMA AppendJoined ==
    ASSUME NEW m \in Seq(Entries), NEW e \in Entries, Joined(m),
           m # <<>> => m[Len(m)].to = e.from
    PROVE  Joined(Append(m, e))
<1> DEFINE n == Append(m, e)
<1>1. /\ Len(n) = Len(m) + 1
      /\ \A i \in 1 .. Len(m) : n[i] = m[i]
      /\ n[Len(m) + 1] = e
      /\ Len(m) \in Nat
      /\ Len(m) = 0 <=> m = <<>>
  BY AppendProperties, EmptySeq, LenProperties
<1> HIDE DEF n
<1> SUFFICES ASSUME NEW i \in 1 .. Len(n) - 1
             PROVE  n[i].to = n[i + 1].from
  BY DEF Joined, n
<1>2. CASE i = Len(m)
  BY <1>1, <1>2
<1>3. CASE i < Len(m)
  BY <1>1, <1>3 DEF Joined
<1> QED
  BY <1>1, <1>2, <1>3

(* A step that adds no history, and leaves what it should tell as it was or *)
(* was cut off by a crash, keeps the invariant.                             *)
LEMMA HistoryUntouched ==
    ASSUME HistoryInv, moves' = moves, cut \subseteq cut', byHand' = byHand,
           \A p \in Programs \ cut' : Known(p)' = Known(p),
           \A p \in Programs : Rank[Known(p)] <= Rank[Known(p)'],
           \A p \in Programs : /\ Rank[Known(p)] \in Int
                               /\ Rank[Known(p)'] \in Int
                               /\ moves[p] # <<>> => Rank[Recorded(p)] \in Int
    PROVE  HistoryInv'
<1>1. \A p \in Programs : Recorded(p)' = Recorded(p)
  BY DEF Recorded
<1>2. \A p \in Programs : Rank[Known(p)'] = Rank[Known(p)]'
  BY DEF Rank
<1>3. ASSUME NEW p \in Programs
      PROVE  Ascending(moves'[p]) /\ (moves'[p] # <<>> => Rank[Recorded(p)'] <= Rank[Known(p)'])
  BY <1>1 DEF HistoryInv
<1>4. ASSUME NEW p \in Programs \ cut'
      PROVE  /\ Joined(moves'[p])
             /\ IF moves'[p] = <<>> THEN p \in byHand' \/ Known(p)' = None
                                    ELSE Recorded(p)' = Known(p)'
  BY <1>1 DEF HistoryInv
<1> QED
  BY <1>3, <1>4 DEF HistoryInv, Rank, Ascending, Joined


(* Ranks are numbers, wherever they are taken.                              *)
LEMMA RankType ==
    ASSUME StateInv, NEW p \in Programs
    PROVE  /\ Known(p) \in Status \cup {None}
           /\ Rank[Known(p)] \in Int
           /\ moves[p] # <<>> => Rank[Recorded(p)] \in Int
<1>1. Known(p) \in Status \cup {None}
  BY DEF StateInv, TypeOK, Known, Job
<1>2. ASSUME NEW s \in Status \cup {None} PROVE Rank[s] \in Int
  BY DEF Rank, Status, None
<1>3. ASSUME moves[p] # <<>> PROVE Recorded(p) \in Status
  <2>1. moves[p] \in Seq(Entries)
    BY DEF StateInv, TypeOK, Entries
  <2>2. Len(moves[p]) \in 1 .. Len(moves[p])
    BY <1>3, <2>1, EmptySeq, LenProperties
  <2>3. moves[p][Len(moves[p])] \in Entries
    BY <2>1, <2>2, ElementOfSeq
  <2> QED
    BY <2>3 DEF Recorded, Entries
<1> QED
  BY <1>1, <1>2, <1>3

LEMMA HistoryStep == StateInv /\ HistoryInv /\ [Next]_vars => HistoryInv'
<1> SUFFICES ASSUME StateInv, HistoryInv, [Next]_vars PROVE HistoryInv'
  OBVIOUS
<1>0. StateInv'
  BY StateStep
<1>r. \A p \in Programs : /\ Rank[Known(p)] \in Int
                          /\ Rank[Known(p)'] \in Int
                          /\ moves[p] # <<>> => Rank[Recorded(p)] \in Int
  <2>1. ASSUME NEW p \in Programs PROVE Known(p)' \in Status \cup {None}
    BY <1>0 DEF StateInv, TypeOK, Known, Job
  <2> QED
    BY <2>1, RankType DEF Rank, Status, None
<1>1. CASE AppendHistory
  <2> DEFINE e == [from |-> job.from, to |-> job.to]
  <2>1. /\ pc = "append" /\ pc' = "idle"
        /\ job.p \in Programs /\ e \in Entries
        /\ moves[job.p] \in Seq(Entries)
        /\ moves' = [moves EXCEPT ![job.p] = Append(moves[job.p], e)]
        /\ UNCHANGED <<stored, job, cut, byHand>>
        /\ Rank[e.from] < Rank[e.to]
        /\ stored[job.p] = e.to
    BY <1>1 DEF AppendHistory, StateInv, TypeOK, JobCurrent, Job, Entries, ghosts
  <2>2. Known(job.p) = e.from /\ Known(job.p)' = e.to
    BY <2>1 DEF Known
  <2> HIDE DEF e
  <2>3. moves'[job.p] = Append(moves[job.p], e)
    BY <2>1 DEF StateInv, TypeOK
  <2>4. moves'[job.p] # <<>> /\ Recorded(job.p)' = e.to
    BY <2>1, <2>3, AppendProperties DEF Recorded
  <2>5. Ascending(moves'[job.p])
    BY <2>1, <2>2, <2>3, AppendAscending DEF HistoryInv, Recorded
  <2>6. job.p \notin cut => Joined(moves'[job.p])
    BY <2>1, <2>2, <2>3, AppendJoined DEF HistoryInv, Recorded
  <2>7. ASSUME NEW q \in Programs \ {job.p}
        PROVE  moves'[q] = moves[q] /\ Known(q)' = Known(q) /\ Recorded(q)' = Recorded(q)
    BY <2>1 DEF StateInv, TypeOK, Known, Recorded
  <2>8. ASSUME NEW p \in Programs
        PROVE  /\ Ascending(moves'[p])
               /\ moves'[p] # <<>> => Rank[Recorded(p)'] <= Rank[Known(p)']
    <3>1. CASE p = job.p
      BY <1>r, <2>1, <2>2, <2>4, <2>5, <3>1
    <3>2. CASE p # job.p
      BY <2>7, <3>2 DEF HistoryInv
    <3> QED
      BY <3>1, <3>2
  <2>9. ASSUME NEW p \in Programs \ cut
        PROVE  /\ Joined(moves'[p])
               /\ IF moves'[p] = <<>> THEN p \in byHand' \/ Known(p)' = None
                                      ELSE Recorded(p)' = Known(p)'
    <3>1. CASE p = job.p
      BY <2>1, <2>2, <2>4, <2>6, <3>1
    <3>2. CASE p # job.p
      BY <2>1, <2>7, <3>2 DEF HistoryInv
    <3> QED
      BY <3>1, <3>2
  <2> QED
    BY <2>1, <2>8, <2>9 DEF HistoryInv, Rank, Ascending, Joined
<1>2. ASSUME NEW p \in Programs, NEW status \in Status, WriteByHand(p, status)
      PROVE  HistoryInv'
  <2>1. /\ stored[p] = None /\ moves[p] = <<>>
        /\ stored' = [stored EXCEPT ![p] = status]
        /\ byHand' = byHand \cup {p}
        /\ pc = "idle" /\ UNCHANGED <<moves, pc, job, cut>>
    BY <1>2 DEF WriteByHand, StateInv, NothingBeforeFile, Idle, process
  <2>2. ASSUME NEW q \in Programs \ {p}
        PROVE  Known(q)' = Known(q) /\ Recorded(q)' = Recorded(q)
    BY <2>1 DEF StateInv, TypeOK, Known, Recorded
  <2>3. \A q \in Programs : Recorded(q)' = Recorded(q)
    BY <2>1 DEF Recorded
  <2> QED
    BY <2>1, <2>2, <2>3 DEF HistoryInv, Ascending, Joined, Rank
<1>3. CASE Crash
  <2>1. ASSUME NEW p \in Programs
        PROVE  IF pc = "append" /\ job.p = p
               THEN p \in cut' /\ Known(p) = job.from /\ Known(p)' = job.to
               ELSE Known(p)' = Known(p)
    BY <1>3 DEF Crash, disk, Known, StateInv, JobCurrent
  <2>2. pc = "append" => Rank[job.from] < Rank[job.to]
    BY DEF StateInv, JobCurrent
  <2>3. moves' = moves /\ cut \subseteq cut' /\ byHand' = byHand
    BY <1>3 DEF Crash, disk
  <2>4. \A p \in Programs \ cut' : Known(p)' = Known(p)
    BY <2>1
  <2>5. \A p \in Programs : Rank[Known(p)] <= Rank[Known(p)']
    BY <1>r, <2>1, <2>2
  <2> QED
    BY <1>r, <2>3, <2>4, <2>5, HistoryUntouched
<1>4. CASE Write
  <2>1. \A p \in Programs : Known(p)' = Known(p)
    BY <1>4 DEF Write, Known, StateInv, TypeOK, JobCurrent, Job
  <2> QED
    BY <1>4, <1>r, <2>1, HistoryUntouched DEF Write, ghosts
<1>5. CASE /\ UNCHANGED <<moves, stored, cut, byHand>>
           /\ (pc # "append" /\ pc' # "append") \/ UNCHANGED <<pc, job>>
  <2>1. \A p \in Programs : Known(p)' = Known(p)
    BY <1>5 DEF Known
  <2> QED
    BY <1>5, <1>r, <2>1, HistoryUntouched
<1>6. CASE Operation
  <2>1. pc = "idle" /\ UNCHANGED <<moves, stored, cut, byHand>>
    BY <1>6 DEF Operation, Add, SetStatus, RecordMismatch, RecordRevision, Sweep, SweepNext,
                SweepEnd, Idle, disk, ghosts
  <2>2. pc' # "append"
    BY <1>6, <2>1 DEF Operation, Add, SetStatus, RecordMismatch, RecordRevision, Sweep,
                SweepNext, SweepEnd, process
  <2> QED
    BY <1>5, <2>1, <2>2
<1>7. CASE MakeDirectory \/ Truncate
  BY <1>5, <1>7 DEF MakeDirectory, Truncate, ghosts
<1>8. CASE UNCHANGED vars
  BY <1>5, <1>8 DEF vars, disk, process, ghosts
<1> QED
  BY <1>1, <1>2, <1>3, <1>4, <1>6, <1>7, <1>8 DEF Next, DiskWrite

LEMMA HistoryInvariant == Spec => []HistoryInv
<1>1. Init => HistoryInv
  BY DEF Init, HistoryInv, Ascending, Joined, Known, None
<1> QED
  BY <1>1, StateInvariant, HistoryStep, PTL DEF Spec

(* The history of a program no crash touched tells exactly how its file     *)
(* came to the status it holds.                                             *)
THEOREM HistoryExactHolds == Spec => []HistoryExact
<1>1. HistoryInv => HistoryExact
  BY DEF HistoryInv, HistoryExact, Joined, Known, InFlight
<1> QED
  BY <1>1, HistoryInvariant, PTL

(* No history, crashes included, claims a status the file has not reached.  *)
THEOREM HistoryNeverAheadHolds == Spec => []HistoryNeverAhead
<1>1. StateInv /\ HistoryInv => HistoryNeverAhead
  <2> SUFFICES ASSUME StateInv, HistoryInv, NEW p \in Programs
               PROVE  moves[p] # <<>> => Rank[Recorded(p)] <= Rank[stored[p]]
    BY DEF HistoryInv, HistoryNeverAhead, Ascending
  <2>1. Rank[Known(p)] <= Rank[stored[p]] /\ Rank[stored[p]] \in Int
    BY DEF Known, StateInv, JobCurrent, TypeOK, Job, Rank, Status, None
  <2> QED
    BY <2>1, RankType DEF HistoryInv
<1> QED
  BY <1>1, StateInvariant, HistoryInvariant, PTL

=============================================================================
