--------------------------- MODULE MCSpectrumTap ----------------------------
(* Model-checking instances of SpectrumTap.                                *)
EXTENDS SpectrumTap

CONSTANTS c1, c2, c3
=============================================================================
