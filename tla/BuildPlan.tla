----------------------------- MODULE BuildPlan ------------------------------
(***************************************************************************)
(* One uninterrupted build, as build_library.py plans it: the episodes of  *)
(* a group -- a resolution's seeds -- run in order until one of them       *)
(* admits a program, and the groups run in order.  The log is what the     *)
(* build reports.  BuildLibrary implements it through crashes and resumes. *)
(***************************************************************************)
EXTENDS Naturals, Sequences

CONSTANTS
    Plan,       \* the groups, each a sequence of episodes (a fault and a seed)
    Results     \* what an episode may leave, each with the field admitted

VARIABLE log    \* the episodes run, with their results, in order

Ran(l) == {l[i].ep : i \in 1 .. Len(l)}

Admitting(l) == {l[i].ep : i \in {j \in 1 .. Len(l) : l[j].result.admitted}}

Seeds(group) == {group[k] : k \in 1 .. Len(group)}

(* A group is closed once a seed of it admitted a program, or all have run. *)
Closed(group, l) == Seeds(group) \cap Admitting(l) # {} \/ Seeds(group) \subseteq Ran(l)

(* The episode that runs next: the first seed not yet run of the first      *)
(* group that is not closed.                                                *)
Due(ep, l) ==
    \E g \in 1 .. Len(Plan) :
        /\ ~Closed(Plan[g], l)
        /\ \A h \in 1 .. g - 1 : Closed(Plan[h], l)
        /\ \E k \in 1 .. Len(Plan[g]) :
               /\ ep = Plan[g][k]
               /\ ep \notin Ran(l)
               /\ \A j \in 1 .. k - 1 : Plan[g][j] \in Ran(l)

Complete(l) == \A g \in 1 .. Len(Plan) : Closed(Plan[g], l)

Init == log = <<>>

Next ==
    \E g \in 1 .. Len(Plan) : \E k \in 1 .. Len(Plan[g]) :
        /\ Due(Plan[g][k], log)
        /\ \E r \in Results : log' = Append(log, [ep |-> Plan[g][k], result |-> r])

Spec == Init /\ [][Next]_log

=============================================================================
