--------------------------- MODULE MCSystemProxy ---------------------------
(* Two slots, all three platforms from one Init. *)
EXTENDS SystemProxy
TwoSlots == <<"first", "second">>
Everywhere == {"macos", "windows", "linux"}
=============================================================================
