--------------------------- MODULE LibraryStatus ---------------------------
(***************************************************************************)
(* The lifecycle table of library.py: what a stored program may be and     *)
(* which moves set_status allows.  It has no state of its own; every       *)
(* module whose state holds program statuses extends it.                   *)
(***************************************************************************)
EXTENDS Naturals

(* ProgramStatus, and None where no program.yaml has been written.          *)
None == "none"
Status == {"candidate", "admitted", "demoted", "quarantined"}

(* As a bug would have it: a demoted program may be admitted again.         *)
ReversibleTransitions ==
    [candidate   |-> {"admitted", "quarantined"},
     admitted    |-> {"demoted", "quarantined"},
     demoted     |-> {"admitted", "quarantined"},
     quarantined |-> {}]

(* _TRANSITIONS: the statuses each status may move to.                      *)
Transitions ==
    [candidate   |-> {"admitted", "quarantined"},
     admitted    |-> {"demoted", "quarantined"},
     demoted     |-> {"quarantined"},
     quarantined |-> {}]

(* How far along its life a status is; every legal move raises it.          *)
Rank == [none |-> 0, candidate |-> 1, admitted |-> 2, demoted |-> 3, quarantined |-> 4]

MISMATCHES_BEFORE_QUARANTINE == 2

=============================================================================
