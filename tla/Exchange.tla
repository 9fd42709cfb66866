------------------------------ MODULE Exchange ------------------------------
(***************************************************************************)
(* One request and its response through the proxy: the handler of each     *)
(* client connection (intercept.rs) and the flow it keeps in the store     *)
(* (flow.rs).  The proxy library hands over requests and responses without *)
(* an id, so the handler gives each flow one and pairs the response with   *)
(* it through a queue of its own.                                          *)
(*                                                                         *)
(* A connection serves one exchange at a time, as HTTP/1.1 does, and the   *)
(* steps are cut where the handler awaits something or changes the store.  *)
(* The tasks that finish bodies run on their own.  An exchange is known by *)
(* <<engine, seq>>; its flow's id is seq alone, and what a flow holds says *)
(* which exchange it came from.                                            *)
(***************************************************************************)
EXTENDS Naturals, Sequences, FiniteSets, SequencesExt

CONSTANTS Conns,        \* client connections
          MaxFlows,     \* the retention window
          MaxRequests,  \* bound: requests that are numbered
          MaxEngines,   \* bound: engines started in one run of the app
          MaxLeaves,    \* bound: clients that leave in the middle
          MaxClears     \* bound: times the user clears

ASSUME ExchangeAssumption == /\ MaxFlows \in Nat \ {0}
                             /\ MaxEngines \in Nat \ {0}
                             /\ {MaxRequests, MaxLeaves, MaxClears} \subseteq Nat

Ids == 0..(MaxRequests - 1)
Exchanges == (1..MaxEngines) \X Ids
NoExchange == <<0, 0>>
States == {"Started", "Paused", "Completed", "Error"}
Flows == [x : Exchanges, kind : {"here", "socket", "forward"}, state : States,
          answered : Exchanges \union {NoExchange},
          reqBody : Exchanges \union {NoExchange},
          resBody : Exchanges \union {NoExchange},
          cut : BOOLEAN]

VARIABLES
  log,       \* the flow store
  engine,    \* the engine new connections get
  nextSeq,   \* Shared.seq of each engine
  at,        \* where the handler of a connection is
  own,       \* the engine a connection belongs to
  now,       \* the exchange a connection is serving
  pending,   \* the handler's queue of ids that await a response
  popped,    \* the id handle_response took from it
  tees,      \* body captures that have not been folded into a flow yet
  leaves, clears,
  captured   \* history: exchanges whose flow was ever stored

conn == <<at, own, now, pending, popped>>
bounds == <<leaves, clears>>
vars == <<log, engine, nextSeq, conn, tees, bounds, captured>>

Store == INSTANCE RetentionWindow WITH Data <- Flows

Init ==
  /\ Store!Init
  /\ engine = 1
  /\ nextSeq = [e \in 1..MaxEngines |-> 0]
  /\ at = [c \in Conns |-> "closed"]
  /\ own = [c \in Conns |-> 1]
  /\ now = [c \in Conns |-> NoExchange]
  /\ pending = [c \in Conns |-> <<>>]
  /\ popped = [c \in Conns |-> 0]
  /\ tees = {}
  /\ leaves = 0 /\ clears = 0
  /\ captured = {}

------------------------------------------------------------------------------
(* Shared::insert of a new flow, and Shared::update of one that is there. *)

IdOf(x) == x[2]

NewFlow(x, kind, state) ==
  [x |-> x, kind |-> kind, state |-> state,
   answered |-> NoExchange, reqBody |-> NoExchange, resBody |-> NoExchange, cut |-> FALSE]

Insert(x, kind, state) ==
  /\ Store!Insert([id |-> IdOf(x), data |-> NewFlow(x, kind, state)])
  /\ captured' = captured \union {x}

FlowOf(id) == Store!At(id)

Update(id, flow) ==
  IF id \in Store!Logged THEN Store!Update([id |-> id, data |-> flow]) ELSE UNCHANGED log

SetState(id, state) == Update(id, [FlowOf(id) EXCEPT !.state = state])

Numbered == FoldFunction(+, 0, nextSeq)

Go(c, from, to) == at[c] \in from /\ at' = [at EXCEPT ![c] = to]

------------------------------------------------------------------------------
(* A connection and its handler. *)

(* A connection gets a clone of the running engine's handler. *)
Open(c) ==
  /\ Go(c, {"closed"}, "open")
  /\ own' = [own EXCEPT ![c] = engine]
  /\ UNCHANGED <<log, engine, nextSeq, now, pending, popped, tees, bounds, captured>>

(* It ends, and its handler goes with what it held: it is as in Init. *)
Drop(c) == /\ own' = [own EXCEPT ![c] = 1]
           /\ now' = [now EXCEPT ![c] = NoExchange]
           /\ pending' = [pending EXCEPT ![c] = <<>>]
           /\ popped' = [popped EXCEPT ![c] = 0]

Close(c) ==
  /\ Go(c, {"open", "socket", "tunnel"}, "closed")
  /\ Drop(c)
  /\ UNCHANGED <<log, engine, nextSeq, tees, bounds, captured>>

(* A request arrives and takes the engine's next number. *)
Number(c) ==
  /\ Go(c, {"open"}, "numbered")
  /\ Numbered < MaxRequests
  /\ nextSeq' = [nextSeq EXCEPT ![own[c]] = @ + 1]
  /\ now' = [now EXCEPT ![c] = <<own[c], nextSeq[own[c]]>>]
  /\ UNCHANGED <<log, engine, own, pending, popped, tees, bounds, captured>>

(* The flow is stored, in the state and at the point its outcome calls for. *)
Describe(c, kind, state, to) ==
  /\ Go(c, {"numbered"}, to)
  /\ Insert(now[c], kind, state)
  /\ UNCHANGED <<engine, nextSeq, own, now, pending, popped, tees, bounds>>

(* should_intercept: a host out of scope is spliced through. *)
Tunnel(c) == Describe(c, "here", "Completed", "tunnel")

Block(c) == Describe(c, "here", "Completed", "open")

MapLocal(c) == \E state \in {"Completed", "Error"} : Describe(c, "here", state, "open")

(* An upgraded request is forwarded and never sees handle_response. *)
Upgrade(c) == Describe(c, "socket", "Started", "socket")

Forward(c) == Describe(c, "forward", "Started", "ready")

(* A breakpoint catches it... *)
Pause(c) ==
  /\ Go(c, {"ready"}, "paused")
  /\ SetState(IdOf(now[c]), "Paused")
  /\ UNCHANGED <<engine, nextSeq, own, now, pending, popped, tees, bounds, captured>>

(* ...until the user, or a disarm, lets it go on... *)
Continue(c) ==
  /\ Go(c, {"paused"}, "resumed")
  /\ SetState(IdOf(now[c]), "Started")
  /\ UNCHANGED <<engine, nextSeq, own, now, pending, popped, tees, bounds, captured>>

(* ...or the user ends it with an answer from here. *)
Abort(c) ==
  /\ Go(c, {"paused"}, "open")
  /\ SetState(IdOf(now[c]), "Error")
  /\ UNCHANGED <<engine, nextSeq, own, now, pending, popped, tees, bounds, captured>>

(* The onRequest hook aborts it. *)
ScriptAbort(c) ==
  /\ Go(c, {"ready", "resumed"}, "open")
  /\ SetState(IdOf(now[c]), "Error")
  /\ UNCHANGED <<engine, nextSeq, own, now, pending, popped, tees, bounds, captured>>

(* What a tee has captured when its body ends or is dropped. *)
Captured(id, side, x, cut) ==
  tees' = tees \union {[id |-> id, side |-> side, x |-> x, cut |-> cut]}

(* It goes upstream: its id is queued and its body teed. Whether the       *)
(* client sends that body to the end is not told apart.                    *)
Send(c) ==
  /\ Go(c, {"ready", "resumed"}, "upstream")
  /\ pending' = [pending EXCEPT ![c] = Append(@, IdOf(now[c]))]
  /\ Captured(IdOf(now[c]), "request", now[c], FALSE)
  /\ UNCHANGED <<log, engine, nextSeq, own, now, popped, bounds, captured>>

(* Mutant: the answered id stays at the front of the queue. *)
RespondKeeps(c) ==
  /\ pending[c] # <<>>
  /\ Go(c, {"upstream"}, "answering")
  /\ popped' = [popped EXCEPT ![c] = Head(pending[c])]
  /\ Update(Head(pending[c]), [FlowOf(Head(pending[c])) EXCEPT !.answered = now[c]])
  /\ UNCHANGED <<engine, nextSeq, own, now, pending, tees, bounds, captured>>

(* handle_response: the oldest id awaiting a response is what it answers. *)
Respond(c) ==
  /\ pending[c] # <<>>
  /\ Go(c, {"upstream"}, "answering")
  /\ popped' = [popped EXCEPT ![c] = Head(pending[c])]
  /\ pending' = [pending EXCEPT ![c] = Tail(@)]
  /\ Update(Head(pending[c]), [FlowOf(Head(pending[c])) EXCEPT !.answered = now[c]])
  /\ UNCHANGED <<engine, nextSeq, own, now, tees, bounds, captured>>

(* After the hook and the simulated latency the body streams to the client. *)
Stream(c) ==
  /\ Go(c, {"answering"}, "streaming")
  /\ UNCHANGED <<log, engine, nextSeq, own, now, pending, popped, tees, bounds, captured>>

(* The body ends... *)
EndBody(c) ==
  /\ Go(c, {"streaming"}, "open")
  /\ Captured(popped[c], "response", now[c], FALSE)
  /\ UNCHANGED <<log, engine, nextSeq, own, now, pending, popped, bounds, captured>>

(* ...or it breaks off: upstream fails or the client hangs up, and with it *)
(* the connection ends. What was captured until then is all there is.      *)
CutBody(c) ==
  /\ Go(c, {"streaming"}, "closed")
  /\ Captured(popped[c], "response", now[c], TRUE)
  /\ Drop(c)
  /\ UNCHANGED <<log, engine, nextSeq, bounds, captured>>

(* Mutant: the failed flow is not told. *)
FailSilently(c) ==
  /\ pending[c] # <<>>
  /\ Go(c, {"upstream"}, "open")
  /\ pending' = [pending EXCEPT ![c] = Tail(@)]
  /\ UNCHANGED <<log, engine, nextSeq, own, now, popped, tees, bounds, captured>>

(* handle_error *)
Fail(c) ==
  /\ pending[c] # <<>>
  /\ Go(c, {"upstream"}, "open")
  /\ pending' = [pending EXCEPT ![c] = Tail(@)]
  /\ SetState(Head(pending[c]), "Error")
  /\ UNCHANGED <<engine, nextSeq, own, now, popped, tees, bounds, captured>>

(* The client leaves before the answer: the handler is dropped where it    *)
(* waits, and nobody changes the flow.                                     *)
ClientGone(c) ==
  /\ leaves < MaxLeaves
  /\ leaves' = leaves + 1
  /\ Go(c, {"ready", "paused", "resumed", "upstream", "answering"}, "closed")
  /\ Drop(c)
  /\ UNCHANGED <<log, engine, nextSeq, tees, clears, captured>>

------------------------------------------------------------------------------
Ended(state) == IF state = "Error" THEN state ELSE "Completed"

Body(flow, t) == IF t.side = "request" THEN [flow EXCEPT !.reqBody = t.x]
                 ELSE [flow EXCEPT !.resBody = t.x, !.cut = t.cut]

(* Mutant: the request's body completes the flow as well. *)
FoldCompletes(t) ==
  /\ tees' = tees \ {t}
  /\ Update(t.id, [Body(FlowOf(t.id), t) EXCEPT !.state = Ended(@)])
  /\ UNCHANGED <<engine, nextSeq, conn, bounds, captured>>

(* The consumer of a tee folds what it captured into the flow; it does not *)
(* know why the body ended.                                                *)
Fold(t) ==
  /\ tees' = tees \ {t}
  /\ Update(t.id, IF t.side = "request" THEN Body(FlowOf(t.id), t)
                  ELSE [Body(FlowOf(t.id), t) EXCEPT !.state = Ended(@)])
  /\ UNCHANGED <<engine, nextSeq, conn, bounds, captured>>

(* The proxy is stopped and started: a new Shared, which counts from zero. *)
(* Connections of the old engine are served to their end.                  *)
Restart ==
  /\ engine < MaxEngines
  /\ engine' = engine + 1
  /\ UNCHANGED <<log, nextSeq, conn, tees, bounds, captured>>

Clear ==
  /\ clears < MaxClears
  /\ clears' = clears + 1
  /\ Store!Clear
  /\ captured' = {}
  /\ UNCHANGED <<engine, nextSeq, conn, tees, leaves>>

------------------------------------------------------------------------------
Handler(c) ==
  \/ Tunnel(c) \/ Block(c) \/ MapLocal(c) \/ Upgrade(c) \/ Forward(c)
  \/ Pause(c) \/ ScriptAbort(c) \/ Send(c) \/ Stream(c)

Upstream(c) == Respond(c) \/ Fail(c) \/ EndBody(c) \/ CutBody(c)

User(c) == Continue(c) \/ Abort(c)

Next ==
  \/ \E c \in Conns : \/ Open(c) \/ Close(c) \/ Number(c) \/ ClientGone(c)
                      \/ Handler(c) \/ Upstream(c) \/ User(c)
  \/ \E t \in tees : Fold(t)
  \/ Restart \/ Clear

Spec == Init /\ [][Next]_vars

(* Handlers run, origins answer or fail, bodies end and the tasks that     *)
(* capture them finish. Whether a pause is answered is up to the user.     *)
Fairness == /\ \A c \in Conns : WF_vars(Handler(c)) /\ WF_vars(Upstream(c))
            /\ WF_vars(\E t \in tees : Fold(t))

FairSpec == Spec /\ Fairness

------------------------------------------------------------------------------
Retained == {log[i].data : i \in DOMAIN log}

(* A flow holds one exchange: its status, its request body and its         *)
(* response body come from the exchange it was stored for, whatever was    *)
(* aborted, failed, dropped or evicted before on the same connection. That *)
(* is within one engine: a second one gives out the same ids again.        *)
OneExchangePerFlow ==
  engine = 1 => \A f \in Retained : {f.answered, f.reqBody, f.resBody} \subseteq {f.x, NoExchange}

(* A forwarded flow counts as completed only once the response of its own  *)
(* exchange was recorded and what came of that response's body, to its end *)
(* or not, is in the flow.                                                 *)
CompletedIsAnswered ==
  engine = 1 => \A f \in Retained : (f.kind = "forward" /\ f.state = "Completed")
                                       => f.answered = f.x /\ f.resBody = f.x

Final == {"Completed", "Error"}

(* An outcome stands: a flow that has ended keeps the end it had, whatever *)
(* late bodies or later exchanges of its connection still bring.           *)
OutcomeStands ==
  [][ engine' = 1 => \A f \in Retained : f.state \in Final =>
        \A g \in Retained' : g.x = f.x => g.state = f.state ]_vars

Running(x) == \E f \in Retained : f.x = x /\ f.kind = "forward" /\ f.state = "Started"

(* No forwarded flow is left running: as long as clients wait for their    *)
(* answers, each ends, is held at a breakpoint, or leaves the store.       *)
NoFlowLeftRunning == \A x \in Exchanges : Running(x) ~> (~Running(x) \/ leaves > 0)

------------------------------------------------------------------------------
(* What the repository's comments say and the code does not do: TLC finds  *)
(* a behaviour that breaks each property below.                          *)

(* "stopping/starting the proxy must not drop what was captured"           *)
(* (flowstore.rs:5-6): while the window has room, every captured exchange  *)
(* still has its flow.                                                     *)
CapturedIsKept ==
  Cardinality(captured) <= MaxFlows => captured = {f.x : f \in Retained}

(* Completed: "Request and response fully captured", where an exchange     *)
(* that failed, by an "upstream error" among others, is an Error           *)
(* (nova-proto lib.rs:106-109).                                            *)
CompletedIsWhole ==
  engine = 1 => \A f \in Retained : (f.kind = "forward" /\ f.state = "Completed")
                                       => ~f.cut

(* Paused: "Held at a breakpoint, awaiting the user's continue/abort       *)
(* decision" (nova-proto lib.rs:104).                                      *)
PausedIsHeld ==
  \A f \in Retained : f.state = "Paused" => \E c \in Conns : at[c] = "paused" /\ now[c] = f.x
==============================================================================
