---------------------------- MODULE DispatchPool ----------------------------
(***************************************************************************)
(* What the library promises the dispatchers, with everything a dispatcher *)
(* cannot see hidden: a program becomes dispatchable at most once and,     *)
(* once withdrawn, is never dispatchable again.  ProgramLibrary implements *)
(* this through crashes and half-finished writes, EpisodeRunner through    *)
(* the episodes of a benchmark run.                                        *)
(***************************************************************************)
CONSTANT Programs

VARIABLE phase      \* each program's place in the pool

Phases == {"absent", "waiting", "dispatchable", "withdrawn"}

Init == phase = [p \in Programs |-> "absent"]

(* A program is stored; one written straight to disk may claim any status.  *)
Appear(p, ph) ==
    /\ phase[p] = "absent"
    /\ phase' = [phase EXCEPT ![p] = ph]

(* Admission lets a waiting program be dispatched.                          *)
Admit(p) ==
    /\ phase[p] = "waiting"
    /\ phase' = [phase EXCEPT ![p] = "dispatchable"]

(* Demotion and quarantine take a program out for good.                     *)
Withdraw(p) ==
    /\ phase[p] \in {"waiting", "dispatchable"}
    /\ phase' = [phase EXCEPT ![p] = "withdrawn"]

Next ==
    \/ \E p \in Programs, ph \in Phases \ {"absent"} : Appear(p, ph)
    \/ \E p \in Programs : Admit(p) \/ Withdraw(p)

Spec == Init /\ [][Next]_phase

=============================================================================
