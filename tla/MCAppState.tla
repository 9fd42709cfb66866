----------------------------- MODULE MCAppState -----------------------------
(* The rule matcher and list, the root certificate, the MCP endpoint and   *)
(* the engine's handle on small instances.  What they share in the code is *)
(* modelled in each, so a behaviour is of one of them; the matcher's is a  *)
(* pattern and a text.                                                     *)
EXTENDS Rules, McpEndpoint, Certificates, Engines, TLC

VARIABLE focus

Everywhere == {"macos", "windows", "linux"}
LowerCase  == [c \in {"a", "A", "b", "*"} |-> IF c = "A" THEN "a" ELSE c]
allVars    == <<focus, rulesVars, mcpVars, certVars, engineVars>>

Init == /\ focus \in {"matching", "rules", "mcp", "certificates", "engine"}
        /\ RulesInit /\ McpInit /\ CertInit /\ EnginesInit
        /\ focus # "matching" => sample = << <<>>, <<>> >>
        /\ focus # "certificates" => platform = "linux"

Next ==
  \/ focus = "rules" /\ RulesNext /\ UNCHANGED <<focus, mcpVars, certVars, engineVars>>
  \/ focus = "mcp" /\ McpNext /\ UNCHANGED <<focus, rulesVars, certVars, engineVars>>
  \/ focus = "certificates" /\ CertNext /\ UNCHANGED <<focus, rulesVars, mcpVars, engineVars>>
  \/ focus = "engine" /\ EnginesNext /\ UNCHANGED <<focus, rulesVars, mcpVars, certVars>>

Spec == Init /\ [][Next]_allVars
==============================================================================
