------------------------------ MODULE UiStream ------------------------------
(***************************************************************************)
(* The stream of flow snapshots toward the UI (state.rs, UiStream).        *)
(*                                                                         *)
(* Every operation takes the one lock and is one step, except flush: it    *)
(* takes the queue under the lock and sends it, message by message, after  *)
(* it has let go.  The flow store is a parameter: resume reads it while it *)
(* holds the lock.  A snapshot is [id, data]; ids are "f<seq>", so an id   *)
(* stands for its seq here.                                                *)
(***************************************************************************)
EXTENDS Integers, Sequences, FiniteSets, SequencesExt

CONSTANTS Seqs,               \* sequence numbers the engine hands out: 0..n
          Data,               \* contents of a snapshot
          MaxFlowsPerMessage  \* MAX_FLOWS_PER_MESSAGE

ASSUME StreamAssumption ==
  /\ Seqs \subseteq Nat
  /\ MaxFlowsPerMessage \in Nat \ {0}

VARIABLES
  channel,   \* the page whose channel is bound, 0 before any
  queue,     \* queued snapshots, in the order their flows were first queued
  slot,      \* id -> its place in queue
  lastSeq,   \* highest seq emitted
  paused,    \* [on, through, changed, seen]
  taken,     \* snapshots flush has taken and not sent yet
  takenFor   \* the page whose channel flush took them for

streamVars == <<channel, queue, slot, lastSeq, paused, taken, takenFor>>

Snapshot == [id : Seqs, data : Data]

NotPaused == [on |-> FALSE, through |-> 0, changed |-> <<>>, seen |-> {}]

StreamInit ==
  /\ channel = 0
  /\ queue = <<>>
  /\ slot = [i \in {} |-> 0]
  /\ lastSeq = 0
  /\ paused = NotPaused
  /\ taken = <<>>
  /\ takenFor = 0

------------------------------------------------------------------------------
(* Mutant: the snapshot that was queued first is the one that is kept. *)
EnqueueFirst(st, f) ==
  IF f.id \in DOMAIN st.at
    THEN st
    ELSE [q  |-> Append(st.q, f),
          at |-> [i \in DOMAIN st.at \union {f.id} |->
                    IF i = f.id THEN Len(st.q) + 1 ELSE st.at[i]]]

(* StreamState::queue on a pair [q, at]: a flow already queued keeps its   *)
(* place and has its snapshot replaced.                                    *)
Enqueue(st, f) ==
  IF f.id \in DOMAIN st.at
    THEN [st EXCEPT !.q[st.at[f.id]] = f]
    ELSE [q  |-> Append(st.q, f),
          at |-> [i \in DOMAIN st.at \union {f.id} |->
                    IF i = f.id THEN Len(st.q) + 1 ELSE st.at[i]]]

Stands == [q |-> queue, at |-> slot]

Queueing(st) == queue' = st.q /\ slot' = st.at

(* bind: a page that (re)loads has nobody left to resume an old pause. *)
Bind(page) ==
  /\ channel' = page
  /\ paused' = NotPaused
  /\ UNCHANGED <<queue, slot, lastSeq, taken, takenFor>>

(* FlowSink::emit *)
EmitUnheard ==
  /\ channel = 0
  /\ UNCHANGED streamVars

EmitPaused(f) ==
  /\ channel # 0 /\ paused.on
  /\ lastSeq' = IF f.id > lastSeq THEN f.id ELSE lastSeq
  /\ paused' = IF f.id <= paused.through /\ f.id \notin paused.seen
                 THEN [paused EXCEPT !.changed = Append(@, f.id),
                                     !.seen = @ \union {f.id}]
                 ELSE paused
  /\ UNCHANGED <<channel, queue, slot, taken, takenFor>>

EmitQueued(f) ==
  /\ channel # 0 /\ ~paused.on
  /\ lastSeq' = IF f.id > lastSeq THEN f.id ELSE lastSeq
  /\ Queueing(Enqueue(Stands, f))
  /\ UNCHANGED <<channel, paused, taken, takenFor>>

Emit(f) == EmitUnheard \/ EmitPaused(f) \/ EmitQueued(f)

(* pause; a second one changes nothing. *)
Pause ==
  /\ paused' = IF paused.on THEN paused
                 ELSE [NotPaused EXCEPT !.on = TRUE, !.through = lastSeq]
  /\ UNCHANGED <<channel, queue, slot, lastSeq, taken, takenFor>>

(* Mutant: resume forgets what changed during the pause. *)
ResumeBare(current) ==
  /\ paused' = NotPaused
  /\ UNCHANGED <<channel, queue, slot, lastSeq, taken, takenFor>>

(* The present state of a flow, if the store still has it, is queued.      *)
(* current is the store: id -> data.                                       *)
Refreshed(st, i, current) ==
  IF i \in DOMAIN current THEN Enqueue(st, [id |-> i, data |-> current[i]]) ELSE st

(* resume does so for every flow noted, one after the other. *)
Resume(current) ==
  LET st[n \in 0..Len(paused.changed)] ==
        IF n = 0 THEN Stands ELSE Refreshed(st[n - 1], paused.changed[n], current)
  IN /\ Queueing(st[Len(paused.changed)])
     /\ paused' = NotPaused
     /\ UNCHANGED <<channel, lastSeq, taken, takenFor>>

(* discard_flows *)
Discard ==
  /\ queue' = <<>>
  /\ slot' = [i \in {} |-> 0]
  /\ paused' = [paused EXCEPT !.changed = <<>>, !.seen = {}]
  /\ UNCHANGED <<channel, lastSeq, taken, takenFor>>

(* Mutant: the queue is taken and its index left behind. *)
TakeKeepsSlot ==
  /\ taken = <<>>
  /\ channel # 0
  /\ queue # <<>>
  /\ taken' = queue
  /\ takenFor' = channel
  /\ queue' = <<>>
  /\ UNCHANGED <<channel, slot, lastSeq, paused>>

(* flush, under the lock. One thread flushes, so taken is empty before. *)
Take ==
  /\ taken = <<>>
  /\ channel # 0
  /\ queue # <<>>
  /\ taken' = queue
  /\ takenFor' = channel
  /\ queue' = <<>>
  /\ slot' = [i \in {} |-> 0]
  /\ UNCHANGED <<channel, lastSeq, paused>>

(* flush, after the lock: the next message of the batch. *)
Message == SubSeq(taken, 1, IF Len(taken) < MaxFlowsPerMessage THEN Len(taken)
                                                             ELSE MaxFlowsPerMessage)

(* Mutant: a message too many is dropped from the batch. *)
SendSkips ==
  /\ taken # <<>>
  /\ taken' = SubSeq(taken, Len(Message) + 2, Len(taken))
  /\ UNCHANGED <<channel, queue, slot, lastSeq, paused, takenFor>>

Send ==
  /\ taken # <<>>
  /\ taken' = SubSeq(taken, Len(Message) + 1, Len(taken))
  /\ UNCHANGED <<channel, queue, slot, lastSeq, paused, takenFor>>

------------------------------------------------------------------------------

(* slot and queue stay one index through replaced snapshots, flushes and   *)
(* clears: each queued flow has one place, and it is the one slot names.   *)
(* emit writes queue[slot[id]] without a check.                            *)
SlotIndexesQueue ==
  /\ DOMAIN slot = {queue[n].id : n \in DOMAIN queue}
  /\ \A i \in DOMAIN slot : slot[i] \in DOMAIN queue /\ queue[slot[i]].id = i
  /\ \A m, n \in DOMAIN queue : queue[m].id = queue[n].id => m = n
==============================================================================
