--------------------------- MODULE ProgramLibrary ---------------------------
(***************************************************************************)
(* The program library of library.py: one directory per program holding    *)
(* program.yaml and history.jsonl, and the operations that write them.     *)
(*                                                                         *)
(* The library is used by one process at a time, without a lock.  Every    *)
(* operation reads what it needs, then performs a fixed series of writes;  *)
(* a step here is one of those writes, and the process may die between any *)
(* two of them.  program.yaml is rewritten in place (write_text), so it is *)
(* first truncated and then filled: a program whose file is truncated is   *)
(* in torn, and stored keeps the status the file last held.  history.jsonl *)
(* is kept as what its readers extract from it: the status moves in order, *)
(* the number of mismatch events and whether a revision was recorded.      *)
(***************************************************************************)
EXTENDS LibraryStatus, Naturals, Sequences, FiniteSets

CONSTANTS
    Programs,       \* program ids
    Undeclared,     \* programs whose variant their fault's intent does not declare
    MismatchBound   \* bound on recorded mismatches per program

ASSUME LibraryAssumption ==
    /\ IsFiniteSet(Programs)
    /\ Undeclared \subseteq Programs
    /\ MismatchBound \in Nat

VARIABLES
    (* on disk *)
    dirs,           \* program directories that exist
    stored,         \* the status in each program.yaml, None where there is no file
    torn,           \* programs whose program.yaml is truncated and not yet rewritten
    moves,          \* the status changes in each history.jsonl
    mismatches,     \* the number of mismatch events in each history.jsonl
    revised,        \* programs whose history.jsonl holds a revision event
    (* in the process *)
    pc,             \* the next write of the operation under way
    job,            \* the program it moves, from which status to which
    sweeping,       \* quarantine_undeclared is iterating over the directories
    (* history variables *)
    cut,            \* programs whose operation a crash interrupted
    owed,           \* programs whose last counted mismatch a crash kept from withdrawing
    byHand          \* programs whose file was not written through the library

disk == <<dirs, stored, torn, moves, mismatches, revised>>
process == <<pc, job, sweeping>>
ghosts == <<cut, owed, byHand>>
vars == <<disk, process, ghosts>>

-----------------------------------------------------------------------------

Readable(p) == stored[p] # None /\ p \notin torn

(* What a load returns: the stored status, or quarantined when the variant  *)
(* check withdraws the program.  The verdict is applied in memory only.     *)
View(p) == IF p \in Undeclared /\ stored[p] # None THEN "quarantined" ELSE stored[p]

Job == [p : Programs, from : Status \cup {None}, to : Status]

(* A move not started yet, and the first write of its rewrite of the file. *)
Move(p, to) == [p |-> p, from |-> View(p), to |-> to]

Idle == pc = "idle" /\ ~sweeping

-----------------------------------------------------------------------------
(* Operations: what each one reads and decides before its first write.     *)

(* add: an existing file is a collision, and a directory without one makes  *)
(* mkdir raise; neither writes anything.                                    *)
Add(p) ==
    /\ Idle
    /\ p \notin dirs
    /\ pc' = "mkdir"
    /\ job' = [p |-> p, from |-> None, to |-> "candidate"]
    /\ UNCHANGED <<disk, sweeping, ghosts>>

(* set_status: the current status returns early and a move the table does   *)
(* not allow raises, so only an allowed move writes.  As a bug would have   *)
(* it in SetStatusUnchecked: the table is not consulted.                    *)
SetStatusUnchecked(p, status) ==
    /\ Idle
    /\ Readable(p)
    /\ status # View(p)
    /\ pc' = "truncate"
    /\ job' = Move(p, status)
    /\ UNCHANGED <<disk, sweeping, ghosts>>

SetStatus(p, status) ==
    /\ Idle
    /\ Readable(p)
    /\ status # View(p)
    /\ status \in Transitions[View(p)]
    /\ pc' = "truncate"
    /\ job' = Move(p, status)
    /\ UNCHANGED <<disk, sweeping, ghosts>>

(* record_mismatch appends the event, then withdraws the program when the   *)
(* count reaches the cap and the program may still be quarantined.  As a    *)
(* bug would have it in AtTheCap: only the mismatch that reaches the cap    *)
(* withdraws, and none after it.                                            *)
AtTheCap(p) == mismatches[p] + 1 = MISMATCHES_BEFORE_QUARANTINE

CapReached(p) == mismatches[p] + 1 >= MISMATCHES_BEFORE_QUARANTINE

RecordMismatch(p) ==
    /\ Idle
    /\ Readable(p)
    /\ mismatches[p] < MismatchBound
    /\ mismatches' = [mismatches EXCEPT ![p] = @ + 1]
    /\ IF CapReached(p) /\ "quarantined" \in Transitions[View(p)]
       THEN pc' = "truncate" /\ job' = Move(p, "quarantined")
       ELSE UNCHANGED <<pc, job>>
    /\ owed' = owed \ {p}
    /\ UNCHANGED <<dirs, stored, torn, moves, revised, sweeping, cut, byHand>>

RecordRevision(p) ==
    /\ Idle
    /\ Readable(p)
    /\ p \notin revised
    /\ revised' = revised \cup {p}
    /\ UNCHANGED <<dirs, stored, torn, moves, mismatches, process, ghosts>>

(* quarantine_undeclared: each directory in turn; a file the variant check  *)
(* withdraws and that does not say so yet is moved.  A truncated file       *)
(* raises out of the loop when its turn comes.  As a bug would have it in   *)
(* WithdrawEverything: the reason is not looked at.                         *)
WithdrawEverything(p) == Readable(p) /\ stored[p] # "quarantined"

Unsettled(p) == Readable(p) /\ p \in Undeclared /\ stored[p] # "quarantined"

Sweep ==
    /\ Idle
    /\ sweeping' = TRUE
    /\ UNCHANGED <<disk, pc, job, ghosts>>

SweepNext(p) ==
    /\ sweeping
    /\ pc = "idle"
    /\ Unsettled(p)
    /\ pc' = "truncate"
    /\ job' = [p |-> p, from |-> stored[p], to |-> "quarantined"]
    /\ UNCHANGED <<disk, sweeping, ghosts>>

SweepEnd ==
    /\ sweeping
    /\ pc = "idle"
    /\ torn # {} \/ \A p \in Programs : ~Unsettled(p)
    /\ sweeping' = FALSE
    /\ UNCHANGED <<disk, pc, job, ghosts>>

-----------------------------------------------------------------------------
(* Writes: one step each, in the order _write and _append_history make them. *)

MakeDirectory ==
    /\ pc = "mkdir"
    /\ dirs' = dirs \cup {job.p}
    /\ pc' = "truncate"
    /\ UNCHANGED <<stored, torn, moves, mismatches, revised, job, sweeping, ghosts>>

(* As a bug would have it: the move is recorded before it is made.          *)
HistoryBeforeFile ==
    /\ pc = "truncate"
    /\ torn' = torn \cup {job.p}
    /\ moves' = [moves EXCEPT ![job.p] = Append(@, [from |-> job.from, to |-> job.to])]
    /\ pc' = "write"
    /\ UNCHANGED <<dirs, stored, mismatches, revised, job, sweeping, ghosts>>

(* A file that did not exist is created empty, and is unreadable too.       *)
Truncate ==
    /\ pc = "truncate"
    /\ torn' = torn \cup {job.p}
    /\ pc' = "write"
    /\ UNCHANGED <<dirs, stored, moves, mismatches, revised, job, sweeping, ghosts>>

(* As a bug would have it: serialising fails after the file was opened.     *)
WriteRaises ==
    /\ pc = "write"
    /\ pc' = "idle"
    /\ UNCHANGED <<disk, job, sweeping, ghosts>>

Write ==
    /\ pc = "write"
    /\ stored' = [stored EXCEPT ![job.p] = job.to]
    /\ torn' = torn \ {job.p}
    /\ pc' = "append"
    /\ UNCHANGED <<dirs, moves, mismatches, revised, job, sweeping, ghosts>>

(* As bugs would have it: the move is written and never recorded; the entry *)
(* tells it the wrong way round.                                            *)
SkipHistory ==
    /\ pc = "append"
    /\ pc' = "idle"
    /\ UNCHANGED <<disk, job, sweeping, ghosts>>

SwappedHistory ==
    /\ pc = "append"
    /\ moves' = [moves EXCEPT ![job.p] = Append(@, [from |-> job.to, to |-> job.from])]
    /\ pc' = "idle"
    /\ UNCHANGED <<dirs, stored, torn, mismatches, revised, job, sweeping, ghosts>>

AppendHistory ==
    /\ pc = "append"
    /\ moves' = [moves EXCEPT ![job.p] = Append(@, [from |-> job.from, to |-> job.to])]
    /\ pc' = "idle"
    /\ UNCHANGED <<dirs, stored, torn, mismatches, revised, job, sweeping, ghosts>>

-----------------------------------------------------------------------------
(* The environment.                                                         *)

(* The process dies; what it had written stays.                             *)
Crash ==
    /\ pc # "idle" \/ sweeping
    /\ cut' = IF pc = "idle" THEN cut ELSE cut \cup {job.p}
    /\ owed' = IF /\ pc \in {"truncate", "write"} /\ job.to = "quarantined"
                  /\ mismatches[job.p] >= MISMATCHES_BEFORE_QUARANTINE
                  /\ View(job.p) # "quarantined"
               THEN owed \cup {job.p} ELSE owed
    /\ pc' = "idle"
    /\ sweeping' = FALSE
    /\ UNCHANGED <<disk, job, byHand>>

(* A program.yaml written straight to disk, with any status and no history. *)
WriteByHand(p, status) ==
    /\ Idle
    /\ p \notin dirs
    /\ dirs' = dirs \cup {p}
    /\ stored' = [stored EXCEPT ![p] = status]
    /\ byHand' = byHand \cup {p}
    /\ UNCHANGED <<torn, moves, mismatches, revised, process, cut, owed>>

-----------------------------------------------------------------------------

Init ==
    /\ dirs = {}
    /\ stored = [p \in Programs |-> None]
    /\ torn = {}
    /\ moves = [p \in Programs |-> <<>>]
    /\ mismatches = [p \in Programs |-> 0]
    /\ revised = {}
    /\ pc = "idle"
    /\ job \in Job
    /\ job.from = None /\ job.to = "candidate"
    /\ sweeping = FALSE
    /\ cut = {}
    /\ owed = {}
    /\ byHand = {}

Operation ==
    \/ \E p \in Programs : Add(p)
    \/ \E p \in Programs, status \in Status : SetStatus(p, status)
    \/ \E p \in Programs : RecordMismatch(p)
    \/ \E p \in Programs : RecordRevision(p)
    \/ Sweep
    \/ \E p \in Programs : SweepNext(p)
    \/ SweepEnd

DiskWrite == MakeDirectory \/ Truncate \/ Write \/ AppendHistory

Next ==
    \/ Operation
    \/ DiskWrite
    \/ Crash
    \/ \E p \in Programs, status \in Status : WriteByHand(p, status)

Spec == Init /\ [][Next]_vars

-----------------------------------------------------------------------------
(* Properties.                                                              *)

TypeOK ==
    /\ dirs \subseteq Programs
    /\ stored \in [Programs -> Status \cup {None}]
    /\ torn \subseteq Programs
    /\ moves \in [Programs -> Seq([from : Status \cup {None}, to : Status])]
    /\ mismatches \in [Programs -> Nat]
    /\ revised \subseteq Programs
    /\ pc \in {"idle", "mkdir", "truncate", "write", "append"}
    /\ job \in Job
    /\ sweeping \in BOOLEAN
    /\ cut \subseteq Programs
    /\ owed \subseteq Programs
    /\ byHand \subseteq Programs

-----------------------------------------------------------------------------
(* What goes on between the writes.                                         *)

InFlight(p) == pc # "idle" /\ job.p = p

Recorded(p) == moves[p][Len(moves[p])].to

(* A program whose program.yaml is truncated is one whose write is under    *)
(* way or was cut short by a crash: no operation that returned leaves a     *)
(* file behind that fails every later load of the library.                  *)
TornOnlyByCrash ==
    torn \subseteq cut \cup {p \in Programs : InFlight(p)}

(* record_mismatch: once two wrong fires are counted against a program, no  *)
(* load returns it dispatchable again.  A process that dies between the     *)
(* event and the rewrite of program.yaml leaves the withdrawal owed, and    *)
(* the next mismatch counted makes it, whatever was done in between.        *)
MismatchWithdraws ==
    \A p \in Programs :
        mismatches[p] >= 2 /\ ~InFlight(p) => View(p) = "quarantined" \/ p \in owed

(* history.jsonl read from the top tells how program.yaml came to its       *)
(* status: the moves join up and end where the file is.  Only a program the *)
(* process died over, or one written by hand, may lack moves.               *)
HistoryExact ==
    \A p \in Programs \ cut :
        /\ \A i \in 1 .. Len(moves[p]) - 1 : moves[p][i].to = moves[p][i + 1].from
        /\ ~InFlight(p) =>
               IF moves[p] = <<>> THEN p \in byHand \/ stored[p] = None
                                  ELSE Recorded(p) = stored[p]

(* Even for a program the process died over, the history never claims a     *)
(* status the file has not reached: it may miss moves, it invents none and  *)
(* keeps their order.                                                       *)
HistoryNeverAhead ==
    \A p \in Programs :
        /\ \A i \in 1 .. Len(moves[p]) : Rank[moves[p][i].from] < Rank[moves[p][i].to]
        /\ \A i \in 1 .. Len(moves[p]) - 1 :
               Rank[moves[p][i].to] <= Rank[moves[p][i + 1].from]
        /\ moves[p] # <<>> => Rank[Recorded(p)] <= Rank[stored[p]]

(* _TRANSITIONS: whatever operation runs and wherever it dies, the status   *)
(* in a program.yaml only moves forward, and a file never disappears.       *)
StatusOnlyForward ==
    [][\A p \in Programs :
           stored'[p] = stored[p] \/ Rank[stored[p]] < Rank[stored'[p]]]_stored

(* quarantine_undeclared: making the withdrawals durable changes no status  *)
(* a load returns, hence neither what dispatches nor the library_hash.      *)
SweepChangesNoVerdict ==
    [][sweeping => \A p \in Programs : View(p)' = View(p)]_vars

(* The pool as the matchers see it: every load goes through View.           *)
Phase(status) ==
    CASE status = None        -> "absent"
      [] status = "candidate" -> "waiting"
      [] status = "admitted"  -> "dispatchable"
      [] OTHER                -> "withdrawn"

poolPhase == [p \in Programs |-> Phase(View(p))]

Pool == INSTANCE DispatchPool WITH phase <- poolPhase

(* The library implements the pool: a program is dispatchable over one      *)
(* stretch of its life at most, crashes included.                           *)
ImplementsPool == Pool!Spec

=============================================================================
