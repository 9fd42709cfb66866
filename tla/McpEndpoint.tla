----------------------------- MODULE McpEndpoint -----------------------------
(***************************************************************************)
(* The MCP endpoint's switch: set_mcp_enabled and the restore at launch    *)
(* (commands.rs, lib.rs) start and stop a listener (src-tauri mcp.rs), put *)
(* its handle and its port in two places, and save the choice for the next *)
(* launch.  Commands are async and may overlap: the settings card forgets  *)
(* that one is running when it is closed and opened again.                 *)
(***************************************************************************)
EXTENDS Integers, Sequences, FiniteSets

CONSTANTS Ports,        \* ports the user may ask for, numbers above 0
          DefaultPort,  \* DEFAULT_MCP_PORT
          Callers,      \* set_mcp_enabled calls in flight at once
          MaxStarts     \* bound: listeners bound, over every launch

ASSUME McpAssumption == Ports \subseteq Nat \ {0} /\ DefaultPort \in Ports

VARIABLES
  handle,     \* AppState.mcp: the listener it owns, 0 for none
  mcpPort,    \* AppState.mcp_port, what the engine takes for the endpoint
  listeners,  \* every listener ever bound: [port, state]
  mcpFile,    \* mcp.json: [running, port], or torn
  call,       \* what each call, and the restore, is about: [at, on, port, bound]
  overlap,    \* history: two of them ran at once since launch
  launched    \* whether the app is running

mcpVars == <<handle, mcpPort, listeners, mcpFile, call, overlap, launched>>

Tasks == Callers \union {"restore"}
Idle  == [at |-> "idle", on |-> FALSE, port |-> DefaultPort, bound |-> 0]
Off   == [running |-> FALSE, port |-> DefaultPort]
Torn  == [running |-> FALSE, port |-> 0]

McpInit ==
  /\ handle = 0 /\ mcpPort = 0 /\ listeners = <<>>
  /\ mcpFile = Off
  /\ call = [t \in Tasks |-> Idle]
  /\ overlap = FALSE
  /\ launched = FALSE

Calm(t)  == \A u \in Tasks \ {t} : call[u].at = "idle"
Step(t, at) == call' = [call EXCEPT ![t].at = at]
Stopped(l)  == IF l = 0 THEN listeners ELSE [listeners EXCEPT ![l].state = "stopping"]
PortOf(l)   == IF l = 0 THEN 0 ELSE listeners[l].port

------------------------------------------------------------------------------
(* lib.rs: the saved choice is restored by a task of its own. *)
McpLaunch ==
  /\ ~launched
  /\ launched' = TRUE
  /\ call' = IF mcpFile.running
               THEN [call EXCEPT !["restore"] = [Idle EXCEPT !.at = "bind", !.on = TRUE,
                                                             !.port = mcpFile.port]]
               ELSE call
  /\ UNCHANGED <<handle, mcpPort, listeners, mcpFile, overlap>>

(* set_mcp_enabled; an endpoint that is there already is left as it is. *)
SetEnabled(t, on, port) ==
  /\ launched
  /\ call[t].at = "idle"
  /\ ~(on /\ handle # 0 /\ PortOf(handle) = port)
  /\ call' = [call EXCEPT ![t] = [at |-> "stop", on |-> on, port |-> port, bound |-> 0]]
  /\ overlap' = (overlap \/ ~Calm(t))
  /\ UNCHANGED <<handle, mcpPort, listeners, mcpFile, launched>>

(* stop_mcp: the handle is taken and told to stop... *)
TakeHandle(t) ==
  /\ call[t].at = "stop"
  /\ listeners' = Stopped(handle)
  /\ handle' = 0
  /\ Step(t, "clear")
  /\ UNCHANGED <<mcpPort, mcpFile, overlap, launched>>

(* ...and then the port is cleared. *)
ClearPort(t) ==
  /\ call[t].at = "clear"
  /\ mcpPort' = 0
  /\ Step(t, IF call[t].on THEN "bind" ELSE "save")
  /\ UNCHANGED <<handle, listeners, mcpFile, overlap, launched>>

(* mcp::start binds the port, if no listener holds it still... *)
Bind(t) ==
  /\ call[t].at = "bind"
  /\ Len(listeners) < MaxStarts
  /\ \A l \in DOMAIN listeners :
       listeners[l].port = call[t].port => listeners[l].state = "closed"
  /\ listeners' = Append(listeners, [port |-> call[t].port, state |-> "open"])
  /\ call' = [call EXCEPT ![t].at = "tell", ![t].bound = Len(listeners) + 1]
  /\ UNCHANGED <<handle, mcpPort, mcpFile, overlap, launched>>

(* ...or fails, on that or another program's account; nothing is saved. *)
BindFails(t) ==
  /\ call[t].at = "bind"
  /\ call' = [call EXCEPT ![t] = Idle]
  /\ UNCHANGED <<handle, mcpPort, listeners, mcpFile, overlap, launched>>

TellPort(t) ==
  /\ call[t].at = "tell"
  /\ mcpPort' = PortOf(call[t].bound)
  /\ Step(t, "keep")
  /\ UNCHANGED <<handle, listeners, mcpFile, overlap, launched>>

(* Mutant: the handle that is replaced is not dropped. *)
KeepBoth(t) ==
  /\ call[t].at = "keep"
  /\ handle' = call[t].bound
  /\ call' = [call EXCEPT ![t] = IF t = "restore" THEN Idle ELSE [@ EXCEPT !.at = "save"]]
  /\ UNCHANGED <<mcpPort, listeners, mcpFile, overlap, launched>>

(* The new handle is stored, and one that is there dropped, which stops it. *)
KeepHandle(t) ==
  /\ call[t].at = "keep"
  /\ listeners' = Stopped(handle)
  /\ handle' = call[t].bound
  /\ call' = [call EXCEPT ![t] = IF t = "restore" THEN Idle ELSE [@ EXCEPT !.at = "save"]]
  /\ UNCHANGED <<mcpPort, mcpFile, overlap, launched>>

(* What is saved is the status of that moment; the write may fail half way. *)
Save(t) ==
  /\ call[t].at = "save"
  /\ mcpFile' \in {[running |-> handle # 0,
                    port |-> IF handle = 0 THEN DefaultPort ELSE PortOf(handle)],
                   mcpFile, Torn}
  /\ call' = [call EXCEPT ![t] = Idle]
  /\ UNCHANGED <<handle, mcpPort, listeners, overlap, launched>>

(* The accept loop hears of the stop and lets the listener go. *)
AcceptLoopEnds(l) ==
  /\ listeners[l].state = "stopping"
  /\ listeners' = [listeners EXCEPT ![l].state = "closed"]
  /\ UNCHANGED <<handle, mcpPort, mcpFile, call, overlap, launched>>

(* The app ends, by quitting or by a crash: only the file is left. *)
McpExit ==
  /\ launched
  /\ launched' = FALSE
  /\ handle' = 0 /\ mcpPort' = 0
  /\ listeners' = [l \in DOMAIN listeners |-> [listeners[l] EXCEPT !.state = "closed"]]
  /\ call' = [t \in Tasks |-> Idle]
  /\ overlap' = FALSE
  /\ UNCHANGED mcpFile

McpNext ==
  \/ McpLaunch \/ McpExit
  \/ \E t \in Callers, on \in BOOLEAN, port \in Ports : SetEnabled(t, on, port)
  \/ \E t \in Tasks : \/ TakeHandle(t) \/ ClearPort(t) \/ Bind(t) \/ BindFails(t)
                      \/ TellPort(t) \/ KeepHandle(t) \/ Save(t)
  \/ \E l \in DOMAIN listeners : AcceptLoopEnds(l)

McpSpec == McpInit /\ [][McpNext]_mcpVars

------------------------------------------------------------------------------
(* The endpoint answers to its switch: whatever calls overlap, a listener  *)
(* that has not been told to stop belongs to the handle, or to a call that *)
(* is about to store it, so none is left that no switch could turn off.    *)
(* And unless calls overlapped, the port by which the engine recognises    *)
(* the agents' own calls is the one listened on, whichever starts failed   *)
(* (mcp.rs McpHandle, commands.rs set_mcp_enabled and stop_mcp).           *)
EndpointOwned ==
  /\ \A l \in DOMAIN listeners : listeners[l].state = "open" =>
       \/ handle = l
       \/ \E t \in Tasks : call[t].at \in {"tell", "keep"} /\ call[t].bound = l
  /\ (~overlap /\ \A t \in Tasks : call[t].at = "idle") => mcpPort = PortOf(handle)
==============================================================================
