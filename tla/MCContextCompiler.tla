------------------------- MODULE MCContextCompiler -------------------------
(***************************************************************************)
(* Six sections with the titles of the code: the two required texts, the   *)
(* current progress, decisions (capped, anchored), completed work (capped) *)
(* and issues (with a placeholder).                                        *)
(***************************************************************************)
EXTENDS ContextCompiler

MCTitle == <<18, 14, 16, 19, 14, 17>>
MCCap == <<1, 1, 1, 2, 2, 1>>
MCAnchors == <<0, 0, 0, 1, 0, 0>>
MCItems == <<1, 1, 1, 3, 3, 1>>
=============================================================================
