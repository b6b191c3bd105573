------------------------------- MODULE MCApp --------------------------------
(* App with one or two processes for TLC. *)
EXTENDS App, FiniteSets

ASSUME BoundsAreSmall == Cardinality(Procs) <= 2 /\ MaxPending <= 3
=============================================================================
