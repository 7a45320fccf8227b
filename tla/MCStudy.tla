------------------------------ MODULE MCStudy ------------------------------
(* Three conflicts nothing can express in the first repository and a clean  *)
(* merge in the second; more cases are wanted than there are.               *)
EXTENDS Study

Inexpressible == [repo |-> "r1", kind |-> "positive", acceptable |-> {}]

Clean == [repo |-> "r2", kind |-> "negative", acceptable |-> {"merge"}]

MCEvaluation == <<"r1", "r2">>

MCMined == [r \in {"r1", "r2"} |->
               IF r = "r1" THEN <<Inexpressible, Inexpressible, Inexpressible>> ELSE <<Clean>>]

MCTarget == [inexpressible |-> 3, clean |-> 1, repositories |-> 2]

=============================================================================
