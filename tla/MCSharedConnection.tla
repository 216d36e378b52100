------------------------- MODULE MCSharedConnection -------------------------
(* Model-checking instances of SharedConnection.                           *)
EXTENDS SharedConnection

CONSTANTS o1, o2, o3
=============================================================================
