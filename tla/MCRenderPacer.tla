--------------------------- MODULE MCRenderPacer ---------------------------
(* RenderPacer for three frames, two of which carry a panel.               *)
EXTENDS RenderPacer

CONSTANTS f1, f2, f3
=============================================================================
