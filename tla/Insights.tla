------------------------------ MODULE Insights ------------------------------
(***************************************************************************)
(* The cached insight report (state.rs, AppState::insights) over the flow  *)
(* store.  A reader loads its key (store generation, added latency) before *)
(* it takes the cache lock, and reads the flows after; the store goes on   *)
(* changing in between.  What happens under the cache lock is one step:    *)
(* inside it the only shared state read is the flows, once.                *)
(***************************************************************************)
EXTENDS FlowStore

CONSTANTS Readers,      \* threads that ask for the report: the UI, MCP tools
          Latencies,    \* added latency in effect
          NoReport      \* an empty cache, and a reader that is not reading

VARIABLES
  latency,   \* net.latency_ms when enabled, else 0
  cache,     \* NoReport, or [key, report, racing]
  key        \* key a reader has loaded and not used yet, or NoReport

insightVars == <<latency, cache, key>>
vars == <<storeVars, insightVars>>

Inserting == \E c \in Callers : step[c] = "insert"

InsightsInit ==
  /\ Init
  /\ latency \in Latencies
  /\ cache = NoReport
  /\ key = [r \in Readers |-> NoReport]

SetLatency(l) ==
  /\ l # latency
  /\ latency' = l
  /\ UNCHANGED <<storeVars, cache, key>>

LoadKey(r) ==
  /\ key[r] = NoReport
  /\ key' = [key EXCEPT ![r] = [generation |-> generation, latency |-> latency]]
  /\ UNCHANGED <<storeVars, latency, cache>>

CacheHit(r) == cache # NoReport /\ cache.key = key[r]

(* The cached copy is returned. *)
Reuse(r) ==
  /\ key[r] # NoReport
  /\ CacheHit(r)
  /\ key' = [key EXCEPT ![r] = NoReport]
  /\ UNCHANGED <<storeVars, latency, cache>>

(* analyze(shells()): the flows as they are now, filed under the key as it *)
(* was loaded. racing is history: an insert was between its counters and   *)
(* the map when the flows were read.                                       *)
Recompute(r) ==
  /\ key[r] # NoReport
  /\ ~CacheHit(r)
  /\ cache' = [key    |-> key[r],
               report |-> [flows |-> Shells, latency |-> key[r].latency],
               racing |-> Inserting]
  /\ key' = [key EXCEPT ![r] = NoReport]
  /\ UNCHANGED <<storeVars, latency>>

InsightsNext ==
  \/ Next /\ UNCHANGED insightVars
  \/ \E l \in Latencies : SetLatency(l)
  \/ \E r \in Readers : LoadKey(r) \/ Reuse(r) \/ Recompute(r)

InsightsSpec == InsightsInit /\ [][InsightsNext]_vars

------------------------------------------------------------------------------
(* A reader that asked now would be given the cached report. *)
CacheIsCurrent ==
  /\ cache # NoReport
  /\ cache.key = [generation |-> generation, latency |-> latency]

(* Every change to the store or to the latency retires the cached report:  *)
(* while it is still handed out it is the report of the flows now          *)
(* retained, unless an insert was already counted but not yet stored when  *)
(* it was computed.                                                        *)
ReusedReportIsTrue ==
  (CacheIsCurrent /\ ~cache.racing /\ ~Inserting) =>
     cache.report = [flows |-> Shells, latency |-> latency]

------------------------------------------------------------------------------
(* What the repository's comments say and the code does not do: TLC finds  *)
(* a behaviour that breaks the property below.                           *)

(* What the comments promise: recomputed only when the store changed since *)
(* the last call, so between changes the copy is the report of the store   *)
(* (state.rs:410-412, flowstore.rs:37-38). No exception is made for a flow *)
(* that was on its way in.                                                 *)
InsightsNeverStale ==
  (CacheIsCurrent /\ ~Inserting) => cache.report = [flows |-> Shells, latency |-> latency]
==============================================================================
