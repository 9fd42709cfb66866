--------------------------- MODULE MCBreakpoints ---------------------------
(* Two requests, of one engine or of two that gave them the same id; the   *)
(* user arms for both of them or for the first alone.                      *)
EXTENDS Breakpoints, TLC

CONSTANTS r1, r2

TwoRequests == {r1, r2}
TwoPatterns == {{r1, r2}, {r1}}

OneEngine == (r1 :> 0) @@ (r2 :> 1)
TwoEngines == (r1 :> 0) @@ (r2 :> 0)
==============================================================================
