------------------------------ MODULE Engines ------------------------------
(***************************************************************************)
(* The proxy engine's handle.  ensure_engine (commands.rs) looks for it    *)
(* under one lock, starts an engine with no lock held, and stores the new  *)
(* handle under another; start (nova-core lib.rs) returns before the       *)
(* engine's own task has bound the port, and a bind that fails is only     *)
(* logged.  Replays, the agent's among them, and the system proxy's switch *)
(* call it and may overlap; the switch also stops the engine.              *)
(***************************************************************************)
EXTENDS Naturals, Sequences

CONSTANTS EngineCallers,  \* calls of ensure_engine in flight at once
          MaxEngines      \* bound: engines started

VARIABLES
  proxy,     \* AppState.engine: the engine whose handle it holds, 0 for none
  engines,   \* every engine started: [is, told], told once its handle is gone
  asked,     \* what each caller is about: [at, made]
  hasty,     \* history: an engine was started beside another
  foreign    \* history: another program held the port when one was to bind it

engineVars == <<proxy, engines, asked, hasty, foreign>>

NotAsking == [at |-> "idle", made |-> 0]

EnginesInit ==
  /\ proxy = 0
  /\ engines = <<>>
  /\ asked = [c \in EngineCallers |-> NotAsking]
  /\ hasty = FALSE /\ foreign = FALSE

Over(e)   == engines[e].is \in {"closed", "refused"}
Told(e)   == [x \in DOMAIN engines |->
                [engines[x] EXCEPT !.told = @ \/ x = e]]

------------------------------------------------------------------------------
(* ensure_engine: an engine that is there is used; otherwise the lock is   *)
(* let go...                                                               *)
Ensure(c) ==
  /\ asked[c].at = "idle"
  /\ proxy = 0
  /\ asked' = [asked EXCEPT ![c].at = "start"]
  /\ UNCHANGED <<proxy, engines, hasty, foreign>>

(* ...an engine is started, whose task has yet to run...                   *)
StartEngineTask(c) ==
  /\ asked[c].at = "start"
  /\ Len(engines) < MaxEngines
  /\ engines' = Append(engines, [is |-> "starting", told |-> FALSE])
  /\ asked' = [asked EXCEPT ![c] = [at |-> "keep", made |-> Len(engines) + 1]]
  /\ hasty' = (hasty \/ \E e \in DOMAIN engines : ~Over(e))
  /\ UNCHANGED <<proxy, foreign>>

(* ...or none is, for want of a certificate authority the engine can use... *)
StartRefused(c) ==
  /\ asked[c].at = "start"
  /\ asked' = [asked EXCEPT ![c] = NotAsking]
  /\ UNCHANGED <<proxy, engines, hasty, foreign>>

(* Mutant: the handle that is replaced does not stop its engine. *)
KeepOver(c) ==
  /\ asked[c].at = "keep"
  /\ proxy' = asked[c].made
  /\ asked' = [asked EXCEPT ![c] = NotAsking]
  /\ UNCHANGED <<engines, hasty, foreign>>

(* ...and its handle stored; one stored meanwhile is dropped, which tells  *)
(* its engine to stop.                                                     *)
KeepEngine(c) ==
  /\ asked[c].at = "keep"
  /\ engines' = Told(proxy)
  /\ proxy' = asked[c].made
  /\ asked' = [asked EXCEPT ![c] = NotAsking]
  /\ UNCHANGED <<hasty, foreign>>

(* set_system_proxy(false), stop_proxy and the quit: the handle is taken.  *)
StopEngine ==
  /\ proxy # 0
  /\ engines' = Told(proxy)
  /\ proxy' = 0
  /\ UNCHANGED <<asked, hasty, foreign>>

------------------------------------------------------------------------------
(* The engine's task binds the port, which no earlier engine may hold; the *)
(* error of a bind that fails ends the task, and the handle stays.         *)
BindEngine(e) ==
  /\ engines[e].is = "starting"
  /\ engines' = [engines EXCEPT ![e].is =
                   IF \E x \in DOMAIN engines : engines[x].is = "listening"
                     THEN "refused" ELSE "listening"]
  /\ UNCHANGED <<proxy, asked, hasty, foreign>>

ForeignPort(e) ==
  /\ engines[e].is = "starting"
  /\ engines' = [engines EXCEPT ![e].is = "refused"]
  /\ foreign' = TRUE
  /\ UNCHANGED <<proxy, asked, hasty>>

(* Once told, it shuts down in its own time and lets the port go. *)
EngineEnds(e) ==
  /\ engines[e].is = "listening"
  /\ engines[e].told
  /\ engines' = [engines EXCEPT ![e].is = "closed"]
  /\ UNCHANGED <<proxy, asked, hasty, foreign>>

EnginesNext ==
  \/ \E c \in EngineCallers : Ensure(c) \/ StartEngineTask(c) \/ StartRefused(c) \/ KeepEngine(c)
  \/ StopEngine
  \/ \E e \in DOMAIN engines : BindEngine(e) \/ ForeignPort(e) \/ EngineEnds(e)

EnginesSpec == EnginesInit /\ [][EnginesNext]_engineVars

------------------------------------------------------------------------------
(* make_status *)
ReportedRunning == proxy # 0

(* No engine is left that nothing can stop: whatever callers overlap, one  *)
(* that has not been told to stop is the handle's, or that of a caller     *)
(* about to store it.  And unless one was started before an earlier one    *)
(* had let the port go, or another program holds the port, an engine       *)
(* reported as running is one that listens or is about to (commands.rs     *)
(* ensure_engine and make_status, nova-core lib.rs EngineHandle).          *)
EngineOwned ==
  /\ \A e \in DOMAIN engines : ~engines[e].told =>
       proxy = e \/ \E c \in EngineCallers : asked[c].at = "keep" /\ asked[c].made = e
  /\ (ReportedRunning /\ ~hasty /\ ~foreign) => engines[proxy].is \in {"starting", "listening"}

(* What the status says (commands.rs make_status), and what it does not    *)
(* keep: the engine it calls running may be one whose port was refused.    *)
RunningIsListening == ReportedRunning => engines[proxy].is # "refused"
==============================================================================
