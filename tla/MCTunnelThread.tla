--------------------------- MODULE MCTunnelThread ---------------------------
(* TunnelThread with two threads and descriptors for TLC.                  *)
EXTENDS TunnelThread

ASSUME BoundsAreSmall == Cardinality(Threads) <= 3 /\ Cardinality(Descriptors) <= 3
=============================================================================
