------------------------------ MODULE MCPlanner ------------------------------
(* Instances of Planner: a long and a short template, and a slider that can *)
(* be put too low for the minima, where rounding overshoots and where it    *)
(* loses some of the total.                                                 *)
EXTENDS Planner

TemplateShapes == {<<"head", "middle", "review">>, <<"head", "review">>}
SliderPositions == <<2000, 1500, 4500, 5500>>
=============================================================================
