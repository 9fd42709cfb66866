------------------------------ MODULE FlowStore ------------------------------
(***************************************************************************)
(* The retained flow store of nova-core (flowstore.rs).                    *)
(*                                                                         *)
(* Several threads call it at once: the handler of each connection, the    *)
(* tasks that finish bodies, the UI's commands.  A call is split where the *)
(* code gives up atomicity: insert counts the flow before it takes the     *)
(* locks, and both insert and clear delete spilled bodies after they let   *)
(* the locks go.  Everything between lock and unlock is one step.          *)
(***************************************************************************)
EXTENDS Integers, Sequences, FiniteSets, SequencesExt

CONSTANTS Ids,            \* flow ids ("f1", "f2", ...)
          Callers,        \* threads that call the store
          NoFlow,         \* what a caller outside insert carries
          Sizes,          \* preview bytes of a flow, which also tell its contents apart
          MaxFlows,       \* max_flows
          MaxCaptured,    \* bound: calls of insert
          MaxGeneration   \* bound: changes counted by generation

ASSUME StoreAssumption ==
  /\ MaxFlows \in Nat \ {0}          \* FlowStore::new takes max_flows.max(1)
  /\ Sizes \subseteq Nat
  /\ MaxCaptured \in Nat
  /\ MaxGeneration \in Nat

VARIABLES
  flows,        \* retained flows: id -> preview bytes
  order,        \* ids in insertion order, oldest first
  total,        \* total_captured
  generation,   \* generation
  held,         \* held_bytes
  step,         \* where each caller is: "idle", "insert" or "remove"
  arg,          \* the flow a caller inside insert carries
  gone          \* ids whose spilled bodies a caller in "remove" has still to delete

storeVars == <<flows, order, total, generation, held, step, arg, gone>>

Flow == [id : Ids, size : Sizes]

Init ==
  /\ flows = [i \in {} |-> 0]
  /\ order = <<>>
  /\ total = 0
  /\ generation = 0
  /\ held = 0
  /\ step = [c \in Callers |-> "idle"]
  /\ arg = [c \in Callers |-> NoFlow]
  /\ gone = [c \in Callers |-> {}]

------------------------------------------------------------------------------
(* Helpers of the locked sections. *)

(* Mutants: a re-inserted flow becomes the newest; it is queued twice. *)
QueuedAnew(id) == Append(SelectSeq(order, LAMBDA i : i # id), id)
QueuedTwice(id) == Append(order, id)

(* A first insert extends the queue, a repeated one leaves it alone. *)
Queued(id) == IF id \in DOMAIN flows THEN order ELSE Append(order, id)

(* How many ids the eviction loop pops from the front of a queue. *)
Excess(q) == IF Len(q) > MaxFlows THEN Len(q) - MaxFlows ELSE 0

(* Mutant: the newest flows are cut off. *)
EvictedNewest(q) == {q[i] : i \in (MaxFlows + 1)..Len(q)}

Evicted(q) == {q[i] : i \in 1..Excess(q)}

(* Mutant: evicted ids stay queued. *)
KeptAll(q) == q

Kept(q) == SubSeq(q, Excess(q) + 1, Len(q))

(* Preview bytes of the flows of S. *)
Bytes(f, S) == MapThenSumSet(LAMBDA i : f[i], S \intersect DOMAIN f)

(* The map once a flow is in it, before anything is evicted. *)
With(f) == [i \in DOMAIN flows \union {f.id} |-> IF i = f.id THEN f.size ELSE flows[i]]

Without(f, S) == [i \in DOMAIN f \ S |-> f[i]]

------------------------------------------------------------------------------
(* insert: both counters move before either lock is taken. *)
BeginInsert(c, flow) ==
  /\ step[c] = "idle"
  /\ total < MaxCaptured
  /\ generation < MaxGeneration
  /\ total' = total + 1
  /\ generation' = generation + 1
  /\ step' = [step EXCEPT ![c] = "insert"]
  /\ arg' = [arg EXCEPT ![c] = flow]
  /\ UNCHANGED <<flows, order, held, gone>>

(* insert, under both locks: store, queue, evict past the window. *)
StoreFlow(c) ==
  LET id  == arg[c].id
      out == Evicted(Queued(id))
  IN /\ step[c] = "insert"
     /\ order' = Kept(Queued(id))
     /\ flows' = Without(With(arg[c]), out)
     /\ held' = held + arg[c].size - Bytes(flows, {id}) - Bytes(With(arg[c]), out)
     /\ gone' = [gone EXCEPT ![c] = out]
     /\ step' = [step EXCEPT ![c] = "remove"]
     /\ arg' = [arg EXCEPT ![c] = NoFlow]
     /\ UNCHANGED <<total, generation>>

(* bodies.remove_flow for one evicted or cleared id, after the locks. *)
RemoveBodies(c, id) ==
  /\ step[c] = "remove"
  /\ id \in gone[c]
  /\ gone' = [gone EXCEPT ![c] = @ \ {id}]
  /\ UNCHANGED <<flows, order, total, generation, held, step, arg>>

Return(c) ==
  /\ step[c] = "remove"
  /\ gone[c] = {}
  /\ step' = [step EXCEPT ![c] = "idle"]
  /\ UNCHANGED <<flows, order, total, generation, held, arg, gone>>

(* Mutant: an update that the generation does not count. *)
UpdateUncounted(c, flow) ==
  /\ step[c] = "idle"
  /\ flow.id \in DOMAIN flows
  /\ flows' = [flows EXCEPT ![flow.id] = flow.size]
  /\ held' = held - flows[flow.id] + flow.size
  /\ UNCHANGED <<order, total, generation, step, arg, gone>>

(* Mutant: the size before the update is not given back. *)
UpdateAdds(c, flow) ==
  /\ step[c] = "idle"
  /\ flow.id \in DOMAIN flows
  /\ generation < MaxGeneration
  /\ generation' = generation + 1
  /\ flows' = [flows EXCEPT ![flow.id] = flow.size]
  /\ held' = held + flow.size
  /\ UNCHANGED <<order, total, step, arg, gone>>

(* update: one locked section. An unknown id returns None and changes nothing. *)
Update(c, flow) ==
  /\ step[c] = "idle"
  /\ flow.id \in DOMAIN flows
  /\ generation < MaxGeneration
  /\ generation' = generation + 1
  /\ flows' = [flows EXCEPT ![flow.id] = flow.size]
  /\ held' = held - flows[flow.id] + flow.size
  /\ UNCHANGED <<order, total, step, arg, gone>>

(* Mutant: clear forgets the bodies of what it drops. *)
ClearForgets(c) ==
  /\ step[c] = "idle"
  /\ generation < MaxGeneration
  /\ generation' = generation + 1
  /\ order' = <<>>
  /\ flows' = [i \in {} |-> 0]
  /\ held' = 0
  /\ UNCHANGED <<total, step, arg, gone>>

(* clear, the locked section; the capture counter is left alone. *)
Clear(c) ==
  /\ step[c] = "idle"
  /\ generation < MaxGeneration
  /\ generation' = generation + 1
  /\ order' = <<>>
  /\ flows' = [i \in {} |-> 0]
  /\ held' = 0
  /\ gone' = [gone EXCEPT ![c] = DOMAIN flows]
  /\ step' = [step EXCEPT ![c] = "remove"]
  /\ UNCHANGED <<total, arg>>

------------------------------------------------------------------------------
(* Retained flows oldest first, as shells reads them under both locks. *)
Shells == [i \in DOMAIN order |-> [id |-> order[i], data |-> flows[order[i]]]]

Next ==
  \E c \in Callers :
    \/ \E f \in Flow : BeginInsert(c, f) \/ Update(c, f)
    \/ StoreFlow(c)
    \/ \E id \in gone[c] : RemoveBodies(c, id)
    \/ Return(c)
    \/ Clear(c)

Spec == Init /\ [][Next]_storeVars

------------------------------------------------------------------------------
(* The locks keep the map and the queue one thing: the queue holds exactly *)
(* the ids of the map, each once, and never more than the window.          *)
QueueMatchesMap ==
  /\ ToSet(order) = DOMAIN flows
  /\ \A i, j \in DOMAIN order : order[i] = order[j] => i = j
  /\ Len(order) <= MaxFlows

TypeOK ==
  /\ order \in Seq(Ids)
  /\ flows \in [ToSet(order) -> Sizes]
  /\ total \in 0..MaxCaptured
  /\ generation \in 0..MaxGeneration
  /\ step \in [Callers -> {"idle", "insert", "remove"}]
  /\ arg \in [Callers -> Flow \union {NoFlow}]
  /\ \A c \in Callers : step[c] = "insert" => arg[c] \in Flow
  /\ gone \in [Callers -> SUBSET Ids]

(* preview_bytes is what the retained previews add up to, through every    *)
(* repeated insert, update, eviction and clear.                            *)
HeldIsWhatIsRetained == held = Bytes(flows, DOMAIN flows)

(* A flow leaves the store only by age or by Clear: what goes away in a    *)
(* step that keeps anything is older than everything that stays.           *)
OlderGoFirst ==
  \A i, j \in DOMAIN order :
    (i < j /\ order[i] \in DOMAIN flows') => order[j] \in DOMAIN flows'

OldestGoesFirst == [][OlderGoFirst]_storeVars

(* A flow that leaves the store has its spilled bodies on the list of some *)
(* call that is still running: no path out of the map forgets them.        *)
LeaversAreListed == \A id \in DOMAIN flows \ DOMAIN flows' : \E c \in Callers : id \in gone'[c]

LeavingBodiesAreListed == [][LeaversAreListed]_storeVars

Log == INSTANCE RetentionWindow WITH log <- Shells, Data <- Sizes

(* The store implements the retention window: a new flow is appended, a    *)
(* known one changed in place, the oldest dropped, and the rest stutters.  *)
RefinesWindow == Log!Spec
==============================================================================
