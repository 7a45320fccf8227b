---------------------------- MODULE MCPopulation ----------------------------
(* A configuration of two builds, which share one replacement.              *)
EXTENDS Population, MCStudies

=============================================================================
