----------------------------- MODULE MCInsights -----------------------------
(* The flow store with two callers, one more id than the window holds, and *)
(* a reader of the cached report.                                          *)
EXTENDS Insights, TLC

CONSTANTS f1, f2, f3, c1, c2, r1

ThreeFlows == {f1, f2, f3}
TwoCallers == {c1, c2}
OneReader == {r1}
InsightsSymmetry == Permutations(Ids) \union Permutations(Callers)
==============================================================================
