--------------------------- MODULE MCSessionTable ---------------------------
(* SessionTable with few sessions for TLC.                                 *)
EXTENDS SessionTable

ASSUME BoundsAreSmall == Cardinality(Pointers) <= 6 /\ MaxAge <= 5
=============================================================================
