------------------------------ MODULE MCBodies ------------------------------
(* Three flows, two of which the window holds, with one body each. *)
EXTENDS Bodies, TLC

CONSTANTS f1, f2, f3

OneFlow == {f1}
TwoFlows == {f1, f2}
ThreeFlows == {f1, f2, f3}
OneSide == {"response"}
BothSides == {"request", "response"}
FlowSymmetry == Permutations(Ids)
==============================================================================
