----------------------------- MODULE FlowStream -----------------------------
(***************************************************************************)
(* From a captured flow to the row the user sees: engine tasks change the  *)
(* flow store and then emit the snapshot they got back (flow.rs), the      *)
(* stream batches snapshots toward the page (UiStream), and the page       *)
(* queues and applies them (streamQueue.ts, store.ts).  The user starts    *)
(* and stops recording, clears, and reloads; the proxy can be restarted.   *)
(*                                                                         *)
(* The store is a RetentionWindow. The page's flow list is a function: how *)
(* it is ordered and capped is not told apart here.                        *)
(***************************************************************************)
EXTENDS UiStream

CONSTANTS Tasks,        \* engine tasks: handlers and body tasks
          MaxFlows,     \* the retention window
          MaxClock,     \* bound: changes to flows
          MaxToggles,   \* bound: times recording is switched
          MaxClears,    \* bound: times the user clears
          MaxPages,     \* bound: page loads
          MaxRestarts   \* bound: proxy restarts

ASSUME FlowStreamAssumption == /\ MaxFlows \in Nat \ {0}
                               /\ Data = 1..MaxClock
                               /\ MaxPages \in Nat \ {0}

VARIABLES
  log,         \* the flow store
  clock,       \* changes so far: every snapshot's data is its own moment
  nextSeq,     \* Shared.seq of the running engine
  holding,     \* what a task has in hand: nothing, a new id, or a snapshot to emit
  page,        \* the page that is loaded
  recording,   \* the page's recording switch
  uiQueue,     \* snapshots the page holds until its next flush: id -> data
  list,        \* the page's flow list: id -> data
  cmds,        \* commands the page has sent and the app has not run yet
  clearing,    \* clear_flows has cleared the store and not yet the stream
  toggles, clears, restarts,   \* counters of what the bounds limit
  bornPaused,  \* history: flows that began while this pause was on
  missed       \* history: flows the page was right not to list

uiVars == <<page, recording, uiQueue, list, cmds>>
vars == <<streamVars, log, clock, nextSeq, holding, uiVars, clearing,
          toggles, clears, restarts, bornPaused, missed>>

Store == INSTANCE RetentionWindow WITH Ids <- Seqs

Nothing   == [at |-> "idle", id |-> 0, data |-> 0]
Empty     == [i \in {} |-> 0]
Current   == [i \in Store!Logged |-> Store!At(i)]
Begun     == Store!Logged \union {i \in Seqs : i < nextSeq}
FromPage(p, ops) == [n \in DOMAIN ops |-> [op |-> ops[n], page |-> p]]
Override(f, g) == [i \in DOMAIN f \union DOMAIN g |-> IF i \in DOMAIN g THEN g[i] ELSE f[i]]

Init ==
  /\ StreamInit
  /\ Store!Init
  /\ clock = 0 /\ nextSeq = 0
  /\ holding = [t \in Tasks |-> Nothing]
  /\ page = 1 /\ recording = FALSE /\ uiQueue = Empty /\ list = Empty
  /\ cmds = FromPage(1, <<"bind", "pause">>)
  /\ clearing = FALSE
  /\ toggles = 0 /\ clears = 0 /\ restarts = 0
  /\ bornPaused = {} /\ missed = {}

------------------------------------------------------------------------------
(* Engine tasks. *)

(* handle_request takes the next sequence number... *)
BeginFlow(t) ==
  /\ holding[t] = Nothing
  /\ nextSeq \in Seqs
  /\ clock < MaxClock
  /\ nextSeq' = nextSeq + 1
  /\ holding' = [holding EXCEPT ![t] = [at |-> "new", id |-> nextSeq, data |-> 0]]
  /\ bornPaused' = IF paused.on THEN bornPaused \union {nextSeq} ELSE bornPaused
  /\ UNCHANGED <<streamVars, log, clock, uiVars, clearing, toggles, clears, restarts, missed>>

(* ...and Shared::insert stores the flow. *)
InsertFlow(t) ==
  /\ holding[t].at = "new"
  /\ clock < MaxClock
  /\ clock' = clock + 1
  /\ Store!Insert([id |-> holding[t].id, data |-> clock'])
  /\ holding' = [holding EXCEPT ![t] = [@ EXCEPT !.at = "emit", !.data = clock']]
  /\ UNCHANGED <<streamVars, nextSeq, uiVars, clearing, toggles, clears, restarts,
                 bornPaused, missed>>

(* Shared::update, the store's half: the snapshot is taken under its lock. *)
ChangeFlow(t, id) ==
  /\ holding[t] = Nothing
  /\ id \in Store!Logged
  /\ clock < MaxClock
  /\ clock' = clock + 1
  /\ Store!Update([id |-> id, data |-> clock'])
  /\ holding' = [holding EXCEPT ![t] = [at |-> "emit", id |-> id, data |-> clock']]
  /\ UNCHANGED <<streamVars, nextSeq, uiVars, clearing, toggles, clears, restarts,
                 bornPaused, missed>>

(* The sink's half of insert and update, with no lock held in between. *)
EmitFlow(t) ==
  LET f == [id |-> holding[t].id, data |-> holding[t].data]
  IN /\ holding[t].at = "emit"
     /\ Emit(f)
     /\ holding' = [holding EXCEPT ![t] = Nothing]
     /\ missed' = IF channel # page \/ (paused.on /\ f.id > paused.through)
                    THEN missed \union {f.id} ELSE missed
     /\ UNCHANGED <<log, clock, nextSeq, uiVars, clearing, toggles, clears, restarts, bornPaused>>

(* A new engine counts from zero; the store and the stream stay. *)
Restart ==
  /\ restarts < MaxRestarts
  /\ restarts' = restarts + 1
  /\ nextSeq' = 0
  /\ UNCHANGED <<streamVars, log, clock, holding, uiVars, clearing, toggles, clears,
                 bornPaused, missed>>

------------------------------------------------------------------------------
(* The flush thread. *)

FlushTake ==
  /\ Take
  /\ UNCHANGED <<log, clock, nextSeq, holding, uiVars, clearing, toggles, clears, restarts,
                 bornPaused, missed>>

(* A message reaches the page it was sent to, or nobody. *)
FlushSend ==
  /\ Send
  /\ uiQueue' = IF takenFor = page
                  THEN Override(uiQueue, [i \in {m.id : m \in ToSet(Message)} |->
                         (CHOOSE m \in ToSet(Message) : m.id = i).data])
                  ELSE uiQueue
  /\ UNCHANGED <<log, clock, nextSeq, holding, page, recording, list, cmds, clearing,
                 toggles, clears, restarts, bornPaused, missed>>

------------------------------------------------------------------------------
(* The page. *)

(* applyFlowBatch: known flows are replaced, new ones listed while recording. *)
PageFlush ==
  LET new == DOMAIN uiQueue \ DOMAIN list
      in  == IF recording THEN DOMAIN uiQueue ELSE DOMAIN uiQueue \ new
  IN /\ uiQueue # Empty
     /\ list' = Override(list, [i \in in |-> uiQueue[i]])
     /\ uiQueue' = Empty
     /\ missed' = IF recording THEN missed ELSE missed \union new
     /\ UNCHANGED <<streamVars, log, clock, nextSeq, holding, page, recording, cmds,
                    clearing, toggles, clears, restarts, bornPaused>>

SetRecording ==
  /\ toggles < MaxToggles
  /\ toggles' = toggles + 1
  /\ recording' = ~recording
  /\ cmds' = cmds \o FromPage(page, <<IF recording THEN "pause" ELSE "resume">>)
  /\ UNCHANGED <<streamVars, log, clock, nextSeq, holding, page, uiQueue, list, clearing,
                 clears, restarts, bornPaused, missed>>

(* clearAll empties the page at once and asks the app to do the same. *)
ClearAll ==
  /\ clears < MaxClears
  /\ clears' = clears + 1
  /\ list' = Empty
  /\ uiQueue' = Empty
  /\ cmds' = cmds \o FromPage(page, <<"clear">>)
  /\ UNCHANGED <<streamVars, log, clock, nextSeq, holding, page, recording, clearing,
                 toggles, restarts, bornPaused, missed>>

Reload ==
  /\ page < MaxPages
  /\ page' = page + 1
  /\ recording' = FALSE
  /\ list' = Empty
  /\ uiQueue' = Empty
  /\ cmds' = cmds \o FromPage(page', <<"bind", "pause">>)
  /\ missed' = missed \union Begun
  /\ UNCHANGED <<streamVars, log, clock, nextSeq, holding, clearing, toggles, clears,
                 restarts, bornPaused>>

------------------------------------------------------------------------------
(* The app runs the page's commands in the order they were sent. *)

Command(c) ==
  /\ cmds # <<>>
  /\ ~clearing
  /\ Head(cmds).op = c
  /\ cmds' = Tail(cmds)
  /\ UNCHANGED <<clock, nextSeq, holding, page, recording, uiQueue, list,
                 toggles, clears, restarts, missed>>

RunBind == /\ Command("bind")
           /\ Bind(Head(cmds).page)
           /\ bornPaused' = {}
           /\ UNCHANGED <<log, clearing>>

RunPause == /\ Command("pause")
            /\ Pause
            /\ UNCHANGED <<log, clearing, bornPaused>>

RunResume == /\ Command("resume")
             /\ Resume(Current)
             /\ bornPaused' = {}
             /\ UNCHANGED <<log, clearing>>

(* clear_flows: the store first... *)
RunClear == /\ Command("clear")
            /\ Store!Clear
            /\ clearing' = TRUE
            /\ UNCHANGED <<streamVars, bornPaused>>

(* ...then what the stream holds of it. *)
RunDiscard ==
  /\ clearing
  /\ Discard
  /\ clearing' = FALSE
  /\ UNCHANGED <<log, clock, nextSeq, holding, uiVars, toggles, clears, restarts,
                 bornPaused, missed>>

------------------------------------------------------------------------------
Engine(t) == \/ BeginFlow(t) \/ InsertFlow(t) \/ EmitFlow(t)
             \/ \E id \in Seqs : ChangeFlow(t, id)

App == RunBind \/ RunPause \/ RunResume \/ RunClear \/ RunDiscard

Next == \/ \E t \in Tasks : Engine(t)
        \/ Restart
        \/ FlushTake \/ FlushSend \/ PageFlush
        \/ SetRecording \/ ClearAll \/ Reload
        \/ App

Spec == Init /\ [][Next]_vars

(* The flush thread loops for ever, the page flushes on a timer, commands  *)
(* are run, and a task that has changed a flow goes on to emit it. Nothing *)
(* obliges traffic or the user.                                            *)
Fairness == /\ WF_vars(FlushTake) /\ WF_vars(FlushSend) /\ WF_vars(PageFlush) /\ WF_vars(App)
            /\ \A t \in Tasks : WF_vars(EmitFlow(t))

FairSpec == Spec /\ Fairness

------------------------------------------------------------------------------
(* Nothing is on its way to the page. *)
Settled == /\ \A t \in Tasks : holding[t].at # "emit"
           /\ queue = <<>> /\ taken = <<>> /\ uiQueue = Empty
           /\ cmds = <<>> /\ ~clearing

Live == recording /\ ~paused.on

(* One page's life without a clear. Both halves of a clear throw away what *)
(* was queued between them, a new flow's snapshot included; bind forgets   *)
(* what the last page's pause noted and leaves its queue to the new page.  *)
Undisturbed == page = 1 /\ clears = 0

(* Once everything is through, a listed flow shows what the store holds of *)
(* it: coalescing, replaced slots, split batches and pauses lose no change.*)
ListShowsStore ==
  (Settled /\ Live /\ Undisturbed) =>
    \A i \in DOMAIN list \intersect Store!Logged : list[i] = Store!At(i)

(* Once everything is through, a retained flow is on the list, unless it   *)
(* began while the stream was paused, or came while nobody recorded it. To *)
(* a reloaded page these are also the flows of the page before it and what *)
(* was emitted before the app had its channel.                             *)
NoFlowLost ==
  (Settled /\ Live /\ clears = 0) => Store!Logged \subseteq DOMAIN list \union missed

(* Recording is left on: in the end the list agrees with the store.        *)
ListCatchesUp ==
  (<>[]recording /\ []Undisturbed) =>
    <>[](\A i \in DOMAIN list \intersect Store!Logged : list[i] = Store!At(i))

------------------------------------------------------------------------------
(* What the repository's comments say and the code does not do: TLC finds  *)
(* a behaviour that breaks each property below.                          *)

(* "flows that start while paused are left out" (state.rs:81), the first   *)
(* flow of an engine included.                                             *)
StartedWhilePausedLeftOut == ToSet(paused.changed) \intersect bornPaused = {}

(* Snapshots of a capture that was cleared do not "bring cleared flows     *)
(* back as new ones" (state.rs:241-242).                                   *)
ClearedFlowsStayGone == Settled => DOMAIN list \subseteq Store!Logged
==============================================================================
