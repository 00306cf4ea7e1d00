---------------------------- MODULE MCChartEditor ----------------------------
(***************************************************************************)
(* A page of two sections and room for a third, for ChartEditor.           *)
(***************************************************************************)
EXTENDS ChartEditor, TLC

CONSTANTS plain, bent, far

(* What is typed far out is stored at the bound, where a slider ends. *)
ToTheBound == [v \in Look |-> IF v = far THEN bent ELSE v]

Requests == Permutations(Slot)
=============================================================================
