---------------------------- MODULE MCFlowTable ----------------------------
(***************************************************************************)
(* Model checking the flow table on small limits.  Flow keys are           *)
(* interchangeable.                                                        *)
(***************************************************************************)
EXTENDS FlowTable, TLC

KeySymmetry == Permutations(Keys)
=============================================================================
