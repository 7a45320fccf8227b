----------------------------- MODULE MCLiveRun -----------------------------
(* The plans main() makes of its options, with one and with two replicates. *)
EXTENDS LiveRun, MCReportTables

MCPlans ==
    {[episodes |-> e, online |-> o, replicates |-> k] :
        e \in BOOLEAN, o \in BOOLEAN, k \in 1 .. 2} \
    {[episodes |-> FALSE, online |-> TRUE, replicates |-> k] : k \in 1 .. 2}

=============================================================================
