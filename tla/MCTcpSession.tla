---------------------------- MODULE MCTcpSession ----------------------------
(* TcpSession with small streams for TLC.                                  *)
EXTENDS TcpSession

ASSUME BoundsAreSmall == Modulus <= 64 /\ ClientBytes <= 4 /\ ServerBytes <= 4
=============================================================================
