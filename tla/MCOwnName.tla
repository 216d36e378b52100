----------------------------- MODULE MCOwnName ------------------------------
(* Model-checking instances of OwnName.                                    *)
EXTENDS OwnName

CONSTANTS p1, p2
=============================================================================
