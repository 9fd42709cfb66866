------------------------------ MODULE Sockets ------------------------------
(***************************************************************************)
(* WebSocket frames from the relay to the panel: the handshake registers a *)
(* route by host and path, the two directions of a socket record frames    *)
(* through it (intercept.rs), the stream queues them within a byte budget  *)
(* (state.rs), and the page queues and applies them (streamQueue.ts,       *)
(* store.ts).  Each direction of a socket is a task of its own.            *)
(*                                                                         *)
(* Socket s is captured as flow s.  A frame's payload is its size: data    *)
(* frames have a size in Sizes, close frames none.  A connection that      *)
(* breaks is one that records nothing more: the code hears of no other     *)
(* end than a close frame.  One page, recording; pauses, clears and        *)
(* reloads are FlowStream's.                                               *)
(***************************************************************************)
EXTENDS Integers, Sequences, FiniteSets, SequencesExt, FiniteSetsExt

CONSTANTS Places,              \* hosts and paths, as ws_route_key joins them
          Directions,          \* WsDirection: sent and received
          MaxSockets,          \* bound: sockets opened
          MaxFrames,           \* bound: frames recorded
          Sizes,               \* payload bytes of a data frame
          QueueBytes,          \* state.rs MAX_QUEUED_WS_BYTES
          TickBytes,           \* state.rs MAX_WS_BYTES_PER_TICK
          MaxFlowsPerMessage,  \* state.rs MAX_FLOWS_PER_MESSAGE
          PageFrames,          \* streamQueue.ts MAX_QUEUED_FRAMES
          PageBytes,           \* streamQueue.ts MAX_QUEUED_WS_BYTES
          ListCap,             \* store.ts MAX_FLOWS
          SocketFrames,        \* store.ts MAX_WS_FRAMES
          ShownBytes           \* store.ts MAX_WS_BYTES

ASSUME SocketsAssumption ==
  /\ {MaxSockets, MaxFlowsPerMessage, PageFrames, ListCap, SocketFrames} \subseteq Nat \ {0}
  /\ Sizes \subseteq Nat /\ IsFiniteSet(Directions)
  /\ {QueueBytes, TickBytes, PageBytes, ShownBytes, MaxFrames} \subseteq Nat

Socket == 1..MaxSockets

VARIABLES
  sockets,   \* the sockets handed to the relay: [place, open]
  ended,     \* per socket, the directions that are over
  routes,    \* ws_routes: place -> the flow frames there belong to
  flow,      \* the flow store: a socket's flow is "none", "pending" or "completed"
  numbered,  \* WsRoute.seq of each flow: frames recorded against it
  hand,      \* what each direction has in hand: [at, frame]
  stream,    \* StreamState: [flows, ws, dropped]
  taken,     \* what flush took and has not sent: [flows, ws, dropped, on]
  page,      \* StreamQueue: [flows, ws, dropped]
  list,      \* the page's flow list, newest first
  shown,     \* wsMessages: flow -> its frames, of the flows that have an entry
  lost,      \* wsDropped of the page's store: flow -> frames the panel counts as dropped
  evicted    \* history: flows the list, or the queue before it, let go

socketsVars == <<sockets, ended, routes, flow, numbered, hand, stream, taken, page,
                 list, shown, lost, evicted>>

NoCounts   == [s \in Socket |-> 0]
EmptyBatch == [flows |-> <<>>, ws |-> <<>>, dropped |-> NoCounts]
NotTaken   == [flows |-> <<>>, ws |-> <<>>, dropped |-> NoCounts, on |-> FALSE]
AtRest     == [at |-> "idle", frame |-> [id |-> 0, when |-> 0, size |-> 0, close |-> FALSE]]

SocketsInit ==
  /\ sockets = <<>>
  /\ ended = [s \in Socket |-> {}]
  /\ routes = [p \in {} |-> 0]
  /\ flow = [s \in Socket |-> "none"]
  /\ numbered = NoCounts
  /\ hand = [s \in Socket |-> [d \in Directions |-> AtRest]]
  /\ stream = EmptyBatch /\ taken = NotTaken /\ page = EmptyBatch
  /\ list = <<>>
  /\ shown = [s \in {} |-> <<>>]
  /\ lost = NoCounts
  /\ evicted = {}

------------------------------------------------------------------------------
(* Queues of frames. *)

Total(w) ==
  LET sum[n \in 0..Len(w)] == IF n = 0 THEN 0 ELSE sum[n - 1] + w[n] IN sum[Len(w)]

(* The frames of one flow, in their order. *)
OfFlow(ws, id) ==
  LET of[n \in 0..Len(ws)] ==
        IF n = 0 THEN <<>> ELSE IF ws[n].id = id THEN Append(of[n - 1], ws[n]) ELSE of[n - 1]
  IN of[Len(ws)]

Of(id, ws)      == Len(OfFlow(ws, id))
Bytes(ws)       == Total([n \in DOMAIN ws |-> ws[n].size])
Count(c, ws)    == [s \in Socket |-> c[s] + Of(s, ws)]
AddCounts(c, d) == [s \in Socket |-> c[s] + d[s]]
First(ws, n)    == SubSeq(ws, 1, n)
From(ws, n)     == SubSeq(ws, n + 1, Len(ws))
IdsOf(fs)       == {fs[n].id : n \in DOMAIN fs}

(* Past a cap the oldest frames go and are counted; the newest stays.      *)
Trim(q, frames, bytes) ==
  LET fits(n) == Len(From(q.ws, n)) <= frames /\ Bytes(From(q.ws, n)) <= bytes
      cut == Min({n \in 0..Len(q.ws) : fits(n) \/ n >= Len(q.ws) - 1})
  IN [q EXCEPT !.ws = From(@, cut), !.dropped = Count(@, First(q.ws, cut))]

(* A snapshot queued again takes the place of the one before it. *)
PutFlow(fs, f) ==
  IF f.id \in IdsOf(fs)
    THEN [n \in DOMAIN fs |-> IF fs[n].id = f.id THEN f ELSE fs[n]]
    ELSE Append(fs, f)

Merged(fs, gs) ==
  LET to[n \in 0..Len(gs)] == IF n = 0 THEN fs ELSE PutFlow(to[n - 1], gs[n]) IN to[Len(gs)]

(* Shared::insert and Shared::update with what they emit to the stream. *)
SetFlow(id, state) ==
  /\ flow' = [flow EXCEPT ![id] = state]
  /\ stream' = [stream EXCEPT !.flows = PutFlow(@, [id |-> id, state |-> state])]

------------------------------------------------------------------------------
(* The engine. *)

pageVars == <<page, list, shown, lost, evicted>>

(* handle_request forwards an upgrade: the flow is stored and sent on... *)
Handshake(s, p) ==
  /\ s = Len(sockets) + 1
  /\ sockets' = Append(sockets, [place |-> p, open |-> FALSE])
  /\ SetFlow(s, "pending")
  /\ UNCHANGED <<ended, routes, numbered, hand, taken, pageVars>>

(* ...and then its route registered, over one that may be there. *)
Route(s) ==
  /\ s \in DOMAIN sockets
  /\ ~sockets[s].open
  /\ sockets' = [sockets EXCEPT ![s].open = TRUE]
  /\ routes' = [p \in DOMAIN routes \union {sockets[s].place} |->
                  IF p = sockets[s].place THEN s ELSE routes[p]]
  /\ UNCHANGED <<ended, flow, numbered, hand, stream, taken, pageVars>>

Live(s, d) ==
  /\ s \in DOMAIN sockets
  /\ sockets[s].open
  /\ d \notin ended[s]

Recorded == Total(numbered)

(* A frame's payload: data, or the close frame, which carries none. *)
Payload == [size : Sizes, close : {FALSE}] \union {[size |-> 0, close |-> TRUE]}

(* record_ws_frame looks the route up and numbers the frame... *)
Record(s, d, m) ==
  LET p  == sockets[s].place
      id == routes[p]
  IN /\ Live(s, d)
     /\ hand[s][d] = AtRest
     /\ p \in DOMAIN routes
     /\ Recorded < MaxFrames
     /\ numbered' = [numbered EXCEPT ![id] = @ + 1]
     /\ hand' = [hand EXCEPT ![s][d] =
                   [at |-> "emit", frame |-> [id   |-> id,     when  |-> Recorded,
                                              size |-> m.size, close |-> m.close]]]
     /\ UNCHANGED <<sockets, ended, routes, flow, stream, taken, pageVars>>

(* ...drops it when nothing is registered there... *)
Unrouted(s, d, m) ==
  /\ Live(s, d)
  /\ hand[s][d] = AtRest
  /\ sockets[s].place \notin DOMAIN routes
  /\ ended' = IF m.close THEN [ended EXCEPT ![s] = @ \union {d}] ELSE ended
  /\ UNCHANGED <<sockets, routes, flow, numbered, hand, stream, taken, pageVars>>

(* ...queues it for the page... *)
EmitFrame(s, d) ==
  LET m == hand[s][d].frame
  IN /\ hand[s][d].at = "emit"
     /\ stream' = Trim([stream EXCEPT !.ws = Append(@, m)], MaxFrames, QueueBytes)
     /\ hand' = [hand EXCEPT ![s][d] = IF m.close THEN [@ EXCEPT !.at = "finish"] ELSE AtRest]
     /\ UNCHANGED <<sockets, ended, routes, flow, numbered, taken, pageVars>>

(* ...and after a close frame finishes the flow... *)
Finish(s, d) ==
  /\ hand[s][d].at = "finish"
  /\ SetFlow(hand[s][d].frame.id, "completed")
  /\ hand' = [hand EXCEPT ![s][d].at = "retire"]
  /\ UNCHANGED <<sockets, ended, routes, numbered, taken, pageVars>>

(* ...and retires whatever route its place has by then. *)
Retire(s, d) ==
  /\ hand[s][d].at = "retire"
  /\ routes' = [p \in DOMAIN routes \ {sockets[s].place} |-> routes[p]]
  /\ ended' = [ended EXCEPT ![s] = @ \union {d}]
  /\ hand' = [hand EXCEPT ![s][d] = AtRest]
  /\ UNCHANGED <<sockets, flow, numbered, stream, taken, pageVars>>

------------------------------------------------------------------------------
(* The flush thread. *)

engineVars == <<sockets, ended, routes, flow, numbered, hand>>

(* take_frames: what fits a tick, and at least one frame. *)
TickFrames == Max({n \in 0..Len(stream.ws) : n <= 1 \/ Bytes(First(stream.ws, n)) <= TickBytes})

(* flush, under the lock. *)
Flush ==
  /\ ~taken.on
  /\ stream # EmptyBatch
  /\ taken' = [flows   |-> stream.flows,   ws |-> First(stream.ws, TickFrames),
                dropped |-> stream.dropped, on |-> TRUE]
  /\ stream' = [EmptyBatch EXCEPT !.ws = From(stream.ws, TickFrames)]
  /\ UNCHANGED <<engineVars, pageVars>>

(* One message: flows up to the cap, and with the last of them the frames. *)
Message ==
  IF Len(taken.flows) > MaxFlowsPerMessage
    THEN [EmptyBatch EXCEPT !.flows = First(taken.flows, MaxFlowsPerMessage)]
    ELSE [flows |-> taken.flows, ws |-> taken.ws, dropped |-> taken.dropped]

(* StreamQueue.push: flows by id within the list's cap, frames within two. *)
Push(batch) ==
  LET flows == Merged(page.flows, batch.flows)
      over  == Max({0, Len(flows) - ListCap})
      ws    == Trim([page EXCEPT !.ws = @ \o batch.ws,
                                 !.dropped = AddCounts(@, batch.dropped)],
                    PageFrames, PageBytes)
  IN /\ page' = [ws EXCEPT !.flows = From(flows, over)]
     /\ evicted' = evicted \union (IdsOf(First(flows, over)) \ IdsOf(list))

(* flush, after the lock: the next message reaches the page. *)
Send ==
  LET rest == [taken EXCEPT !.flows = From(@, Len(Message.flows)),
                            !.ws = From(@, Len(Message.ws)),
                            !.dropped = [s \in Socket |-> @[s] - Message.dropped[s]]]
  IN /\ taken.on
     /\ Push(Message)
     /\ taken' = [rest EXCEPT !.on = Len(taken.flows) > MaxFlowsPerMessage]
     /\ UNCHANGED <<engineVars, stream, list, shown, lost>>

------------------------------------------------------------------------------
(* The page's flush: snapshots first, then frames. *)

(* applyFlowBatch for one snapshot: in place, or in front within the cap. *)
Upsert(fs, f) ==
  IF f.id \in IdsOf(fs) THEN PutFlow(fs, f)
                        ELSE First(<<f>> \o fs, Min({ListCap, Len(fs) + 1}))

(* Mutant: frames of flows that are not listed are kept as well. *)
AppendAny(had, ws, ids) ==
  LET to == DOMAIN had \union IdsOf(ws)
  IN [s \in to |-> (IF s \in DOMAIN had THEN had[s] ELSE <<>>)
                   \o OfFlow(ws, s)]

(* appendWsMessages: frames go to their flow, if it is listed... *)
Appended(had, ws, ids) ==
  LET to == DOMAIN had \union (IdsOf(ws) \intersect ids)
  IN [s \in to |-> (IF s \in DOMAIN had THEN had[s] ELSE <<>>)
                   \o OfFlow(ws, s)]

(* ...the newest of each flow up to its cap... *)
Capped(frames) ==
  [s \in DOMAIN frames |-> From(frames[s], Max({0, Len(frames[s]) - SocketFrames}))]

PanelBytes(frames) ==
  Total([s \in Socket |-> IF s \in DOMAIN frames THEN Bytes(frames[s]) ELSE 0])

PanelFrames(frames) == UNION {{s} \X DOMAIN frames[s] : s \in DOMAIN frames}

(* The socket of which the next frame is the oldest. *)
Oldest(frames) ==
  CHOOSE s \in DOMAIN frames :
    /\ frames[s] # <<>>
    /\ \A t \in DOMAIN frames : frames[t] # <<>> => frames[s][1].when <= frames[t][1].when

(* ...and evictOverBudget, where a frame was appended: until the payload   *)
(* fits, the oldest of the sockets' next frames goes.                      *)
WithinBudget(frames) ==
  LET all == Cardinality(PanelFrames(frames))
      left[n \in 0..all] ==
        IF n = 0 THEN frames
        ELSE IF PanelBytes(left[n - 1]) <= ShownBytes THEN left[n - 1]
        ELSE [left[n - 1] EXCEPT ![Oldest(left[n - 1])] = Tail(@)]
  IN left[all]

Listed == FoldLeft(Upsert, list, page.flows)

(* The flows that every snapshot leaves in the list, once they are there. *)
Stayed ==
  LET ids == [n \in 0..Len(page.flows) |-> IdsOf(FoldLeft(Upsert, list, First(page.flows, n)))]
  IN {s \in IdsOf(Listed) : \A n \in DOMAIN page.flows : s \in ids[n - 1] => s \in ids[n]}

(* Mutant: sliced one short, the last flow that is kept loses them too. *)
GoneOneMore ==
  LET gone == (IdsOf(list) \union IdsOf(page.flows)) \ Stayed
  IN IF gone = {} THEN {} ELSE gone \union {Last(Listed).id}

(* prependWithinCap: a flow loses its frames and its count as it is pushed *)
(* out, though a later snapshot of the same batch may bring it back.       *)
Gone == (IdsOf(list) \union IdsOf(page.flows)) \ Stayed

Paint ==
  LET ids   == IdsOf(Listed)
      had   == [s \in DOMAIN shown \ Gone |-> shown[s]]
      added == Appended(had, page.ws, ids)
      kept  == IF added = had THEN had ELSE WithinBudget(Capped(added))
      cut   == [s \in Socket |-> IF s \in DOMAIN kept THEN Len(added[s]) - Len(kept[s]) ELSE 0]
      told  == [s \in Socket |-> IF s \in ids THEN page.dropped[s] + cut[s] ELSE 0]
  IN /\ page # EmptyBatch
     /\ list' = Listed
     /\ evicted' = evicted \union ((IdsOf(list) \union IdsOf(page.flows)) \ Stayed)
     /\ shown' = kept
     /\ lost' = AddCounts([s \in Socket |-> IF s \in Gone THEN 0 ELSE lost[s]], told)
     /\ page' = EmptyBatch
     /\ UNCHANGED <<engineVars, stream, taken>>

------------------------------------------------------------------------------
SocketsNext ==
  \/ \E s \in Socket : (\E p \in Places : Handshake(s, p)) \/ Route(s)
  \/ \E s \in Socket, d \in Directions :
       \/ \E m \in Payload : Record(s, d, m) \/ Unrouted(s, d, m)
       \/ EmitFrame(s, d) \/ Finish(s, d) \/ Retire(s, d)
  \/ Flush \/ Send \/ Paint

SocketsSpec == SocketsInit /\ [][SocketsNext]_socketsVars

------------------------------------------------------------------------------
InHand(id) == Cardinality({x \in Socket \X Directions :
                 hand[x[1]][x[2]].at = "emit" /\ hand[x[1]][x[2]].frame.id = id})

InQueue(id, q) == Of(id, q.ws) + q.dropped[id]

(* Every frame recorded against a flow is on its way, is shown, or is in   *)
(* the number the panel gives of dropped ones.                             *)
Accounted(s) ==
  numbered[s] = InHand(s) + InQueue(s, stream) + InQueue(s, taken) + InQueue(s, page)
                + (IF s \in DOMAIN shown THEN Len(shown[s]) ELSE 0) + lost[s]

(* The panel tells the whole of a conversation as long as its flow has not *)
(* been pushed out of the list, nor of the queue before it: no frame is    *)
(* lost uncounted, though other flows are pushed out beside it.  In        *)
(* particular no frame overtakes the flow it belongs to, though flows and  *)
(* frames are cut into messages and ticks apart (intercept.rs              *)
(* record_ws_frame, state.rs flush, store.ts appendWsMessages).            *)
FramesAccounted == \A s \in DOMAIN sockets \ evicted : Accounted(s)

(* What frames may occupy is bounded wherever they wait, whichever sockets *)
(* they come from and however long nothing is painted, and no frames are   *)
(* kept of a flow that is not listed, where nothing would ever drop them   *)
(* (state.rs queue_frame, streamQueue.ts push, store.ts).                  *)
FramesBounded ==
  /\ Len(stream.ws) > 1 => Bytes(stream.ws) <= QueueBytes
  /\ Len(page.ws) > 1 => Len(page.ws) <= PageFrames /\ Bytes(page.ws) <= PageBytes
  /\ DOMAIN shown \subseteq IdsOf(list)
  /\ \A s \in DOMAIN shown : Len(shown[s]) <= SocketFrames
  /\ PanelBytes(shown) <= ShownBytes

(* What the list shows of a conversation is the whole of it, but for the   *)
(* frames that are counted as dropped.  Does not hold: the frames of a     *)
(* flow that is pushed out are deleted and so is their number, and its     *)
(* next snapshot brings it back (store.ts prependWithinCap).               *)
ListedIsWhole == \A n \in DOMAIN list : Accounted(list[n].id)

(* Once nothing is on its way the list shows each flow as the engine has   *)
(* it.  Does not hold: the page's queue lets its oldest flow go at the     *)
(* list's cap though the list may keep that flow (streamQueue.ts push).    *)
ListSettles ==
  stream = EmptyBatch /\ ~taken.on /\ page = EmptyBatch
    => \A n \in DOMAIN list : list[n].state = flow[list[n].id]
==============================================================================
