------------------------- MODULE BreakpointsProofs -------------------------
(***************************************************************************)
(* What holds of the breakpoints for any number of requests, any patterns, *)
(* and however often the user arms, disarms and reloads.                   *)
(***************************************************************************)
EXTENDS Breakpoints, TLAPS

Answers == {Abort} \union {Continue(e) : e \in Requests \union {NoRequest}}

Commands == [op : {"subscribe"}, id : {NoRequest}, arg : Nat]
            \union [op : {"arm"}, id : {NoRequest}, arg : Patterns]
            \union [op : {"disarm"}, id : {NoRequest}, arg : {NoRequest}]
            \union [op : {"resume"}, id : Ids, arg : Answers]

Types == TypeOK /\ cmds \in Seq(Commands) /\ reloads \in Nat

------------------------------------------------------------------------------
(* What an answer is, and what a command says. *)
LEMMA AnswerFacts ==
  /\ Abort \in Answers /\ \A e \in Requests \union {NoRequest} : Continue(e) \in Answers
  /\ Answers \subseteq Verdicts
  /\ \A v \in Answers : v.do # "none"
<1>1. Abort \in Answers
  BY DEF Answers
<1>2. ASSUME NEW e \in Requests \union {NoRequest} PROVE Continue(e) \in Answers
  BY <1>2 DEF Answers
<1>3. ASSUME NEW v \in Answers PROVE v \in Verdicts /\ v.do # "none"
  <2>1. CASE v = Abort
    BY <2>1 DEF Abort, Verdicts
  <2>2. ASSUME NEW e \in Requests \union {NoRequest}, v = Continue(e)
        PROVE  v \in Verdicts /\ v.do # "none"
    BY <2>2 DEF Continue, Verdicts
  <2> QED BY <1>3, <2>1, <2>2 DEF Answers
<1> QED BY <1>1, <1>2, <1>3

(* The command at the head of the queue is one the page sends. *)
LEMMA CommandFacts ==
  ASSUME Types, cmds # <<>>
  PROVE  /\ Head(cmds) \in Commands
         /\ Tail(cmds) \in Seq(Commands)
         /\ Head(cmds).op = "arm" => Head(cmds).arg \in Patterns
         /\ Head(cmds).op = "resume" => Head(cmds).arg \in Answers
<1>1. Head(cmds) \in Commands /\ Tail(cmds) \in Seq(Commands)
  BY DEF Types
<1> QED BY <1>1 DEF Commands

(* The page only adds commands of its own. *)
LEMMA InvokeTypes ==
  ASSUME Types, NEW op, NEW id, NEW arg, [op |-> op, id |-> id, arg |-> arg] \in Commands,
         Invoke(op, id, arg)
  PROVE  cmds' \in Seq(Commands)
BY DEF Types, Invoke

(* The types hold when the program starts, *)
LEMMA InitTypes == Init => Types
<1> SUFFICES ASSUME Init PROVE Types
  OBVIOUS
<1>1. Subscribe(0) \in Commands
  BY DEF Subscribe, Commands
<1>2. cmds \in Seq(Commands)
  BY <1>1 DEF Init
<1>3. verdict \in [Requests -> Verdicts] /\ pattern \subseteq Requests
  BY DEF Init, Verdicts, NoVerdict
<1>4. /\ pc \in [Requests -> Held \union {"new", "armed", "forwarded", "aborted", "gone"}]
      /\ messages \in Seq(Requests)
  BY DEF Init
<1> QED BY <1>2, <1>3, <1>4 DEF Init, Types, TypeOK

(* The handler's steps change pc, and the rest one step at a time. *)
LEMMA StepTypes ==
  ASSUME Types, NEW r \in Requests, NEW from, NEW to,
         to \in Held \union {"new", "armed", "forwarded", "aborted", "gone"}, Step(r, from, to)
  PROVE  pc' \in [Requests -> Held \union {"new", "armed", "forwarded", "aborted", "gone"}]
BY DEF Types, TypeOK, Step

(* A step moves its own handler and no other. *)
LEMMA StepFacts ==
  ASSUME Types, NEW r \in Requests, NEW from, NEW to, Step(r, from, to)
  PROVE  /\ pc[r] = from /\ pc'[r] = to
         /\ \A s \in Requests : s # r => pc'[s] = pc[s]
BY DEF Types, TypeOK, Step

(* Senders are used up: whoever is in S has the value, the rest what they had. *)
LEMMA SendFacts ==
  ASSUME Types, NEW S, NEW v \in Answers, Send(S, v)
  PROVE  /\ verdict' \in [Requests -> Verdicts]
         /\ \A r \in Requests : verdict'[r] = IF r \in S THEN v ELSE verdict[r]
BY AnswerFacts DEF Types, TypeOK, Send

(* and every step of a handler, *)
LEMMA HandlerTypes ==
  ASSUME Types, NEW r \in Requests, Handler(r) \/ ClientGone(r)
  PROVE  Types'
<1> DEFINE pcs == Held \union {"new", "armed", "forwarded", "aborted", "gone"}
<1>1. UNCHANGED <<pattern, verdict, cmds, running, listening, page>>
  BY DEF Handler, ClientGone, ReadArmed, ReadPattern, List, Unarm, Notify, Decided, sink, page
<1>2. armed' \in BOOLEAN /\ pending' \subseteq Requests /\ caught' \subseteq Requests
  BY DEF Types, TypeOK, Handler, ClientGone, ReadArmed, ReadPattern, List, Unarm, Notify, Decided
<1>3. messages' \in Seq(Requests)
  BY DEF Types, TypeOK, Handler, ClientGone, ReadArmed, ReadPattern, List, Unarm, Notify,
         Decided, sink
<1>4. PICK from \in pcs, to \in pcs : Step(r, from, to)
  BY DEF Held, Handler, ClientGone, ReadArmed, ReadPattern, List, Unarm, Notify, Decided
<1>5. pc' \in [Requests -> pcs]
  BY <1>4, StepTypes
<1> QED BY <1>1, <1>2, <1>3, <1>5 DEF Types, TypeOK, page

(* of the commands that run, *)
LEMMA AppTypes ==
  ASSUME Types, App
  PROVE  Types'
<1> USE BreakpointAssumption
<1>1. CASE RunSubscribe
  <2>1. listening' \in BOOLEAN /\ cmds' \in Seq(Commands)
    BY <1>1, CommandFacts DEF RunSubscribe, Command
  <2> QED BY <1>1, <2>1 DEF RunSubscribe, Command, Types, TypeOK, core, page
<1>2. CASE RunArm
  <2>1. Head(cmds).arg \subseteq Requests /\ cmds' \in Seq(Commands)
    BY <1>2, CommandFacts DEF RunArm, Command
  <2> QED BY <1>2, <2>1 DEF RunArm, Command, Types, TypeOK, sink, page
<1>3. CASE SetArmed
  BY <1>3 DEF SetArmed, Types, TypeOK, sink, page
<1>4. CASE RunDisarm
  <2>1. cmds' \in Seq(Commands)
    BY <1>4, CommandFacts DEF RunDisarm, Command
  <2> QED BY <1>4, <2>1 DEF RunDisarm, Command, Types, TypeOK, sink, page
<1>5. CASE Drain
  <2>1. verdict' \in [Requests -> Verdicts]
    BY <1>5, SendFacts, AnswerFacts DEF Drain
  <2> QED BY <1>5, <2>1 DEF Drain, Types, TypeOK, sink, page
<1>6. CASE RunResume
  <2>1. cmds' \in Seq(Commands) /\ Head(cmds).arg \in Answers
    BY <1>6, CommandFacts DEF RunResume, Command
  <2>2. verdict' \in [Requests -> Verdicts]
    BY <1>6, <2>1, SendFacts DEF RunResume
  <2> QED BY <1>6, <2>1, <2>2 DEF RunResume, Command, Types, TypeOK, sink, page
<1> QED BY <1>1, <1>2, <1>3, <1>4, <1>5, <1>6 DEF App

(* and of the page keeps them. *)
LEMMA PageTypes ==
  ASSUME Types, (\E p \in Patterns : PageArm(p)) \/ PageDisarm \/ Show \/ Answer \/ Reload
  PROVE  Types'
<1> USE BreakpointAssumption
<1>1. ASSUME NEW p \in Patterns, PageArm(p) PROVE Types'
  <2>1. cmds' \in Seq(Commands)
    BY <1>1, InvokeTypes DEF PageArm, Commands
  <2> QED BY <1>1, <2>1 DEF PageArm, Types, TypeOK, core, sink
<1>2. CASE PageDisarm
  <2>1. cmds' \in Seq(Commands)
    BY <1>2, InvokeTypes DEF PageDisarm, Commands
  <2> QED BY <1>2, <2>1 DEF PageDisarm, Types, TypeOK, core, sink
<1>3. CASE Show
  <2>1. Head(messages) \in Requests /\ messages' \in Seq(Requests)
    BY <1>3 DEF Show, Types, TypeOK
  <2> QED BY <1>3, <2>1 DEF Show, Types, TypeOK, core
<1>4. ASSUME NEW v \in Answers, Decide(v) PROVE Types'
  <2>1. cmds' \in Seq(Commands)
    BY <1>4, InvokeTypes DEF Decide, Commands, Types, TypeOK
  <2> QED BY <1>4, <2>1 DEF Decide, Types, TypeOK, core, sink
<1>5. CASE Reload
  <2>1. Subscribe(reloads') \in Commands
    BY <1>5 DEF Reload, Subscribe, Commands, Types
  <2>2. cmds' \in Seq(Commands)
    BY <1>5, <2>1 DEF Reload, Types
  <2>3. messages' \in Seq(Requests) /\ reloads' \in Nat
    BY <1>5 DEF Reload, Types
  <2> QED BY <1>5, <2>2, <2>3 DEF Reload, Types, TypeOK, core
<1>6. Abort \in Answers /\ Continue(text) \in Answers
  BY AnswerFacts DEF Types, TypeOK
<1>7. CASE Answer
  <2>1. CASE Decide(Abort)
    BY <1>4, <1>6, <2>1
  <2>2. CASE Decide(Continue(text))
    BY <1>4, <1>6, <2>2
  <2> QED BY <1>7, <2>1, <2>2 DEF Answer
<1> QED BY <1>1, <1>2, <1>3, <1>5, <1>7

(* Hence every step does. *)
LEMMA NextTypes == Types /\ [Next]_vars => Types'
<1> SUFFICES ASSUME Types, [Next]_vars PROVE Types'
  OBVIOUS
<1>1. CASE UNCHANGED vars
  BY <1>1 DEF vars, core, page, sink, Types, TypeOK
<1> QED BY <1>1, HandlerTypes, AppTypes, PageTypes DEF Next

(* They hold throughout. *)
LEMMA SpecTypes == Spec => []Types
BY InitTypes, NextTypes, PTL DEF Spec

(* TypeOK: the state of handlers, commands and page keeps its types. *)
THEOREM BreakpointTypes == Spec => []TypeOK
<1>1. Types => TypeOK
  BY DEF Types
<1> QED BY <1>1, SpecTypes, PTL

------------------------------------------------------------------------------
(* A handler that has been as far as the map never comes before it again.  *)
LEMMA StepDisplaces ==
  ASSUME Types, NEW q \in Requests, NEW from, NEW to, Step(q, from, to),
         to \in {"new", "armed", "stopped"} => from \in {"new", "armed", "stopped"},
         NEW r \in Requests, Displaced(r)
  PROVE  Displaced(r)'
<1>1. PICK s \in Requests \ {r} : FlowId[s] = FlowId[r] /\ pc[s] \notin {"new", "armed", "stopped"}
  BY DEF Displaced
<1>2. pc'[s] \notin {"new", "armed", "stopped"}
  BY <1>1, StepFacts
<1> QED BY <1>1, <1>2 DEF Displaced

(* HeldUntilDecided: a command takes a sender off the map only to send     *)
(* down it, a handler lists itself before it waits, and the only sender    *)
(* that a handler which lists itself drops is one of its own id.           *)
THEOREM DecisionsAreAwaited == Spec => []HeldUntilDecided
<1>1. Init => HeldUntilDecided
  BY DEF Init, HeldUntilDecided, Undecided, Waiting
<1>2. ASSUME Types, HeldUntilDecided, [Next]_vars PROVE HeldUntilDecided'
  <2>1. ASSUME NEW q \in Requests, Handler(q) \/ ClientGone(q) PROVE HeldUntilDecided'
    <3> SUFFICES ASSUME NEW r \in Requests, Undecided(r)', ~Displaced(r)' PROVE r \in pending'
      BY DEF HeldUntilDecided
    <3>1. verdict' = verdict
      BY <2>1 DEF Handler, ClientGone, ReadArmed, ReadPattern, List, Unarm, Notify, Decided
    <3>2. ASSUME NEW from, NEW to, Step(q, from, to),
                 to \in {"new", "armed", "stopped"} => from \in {"new", "armed", "stopped"},
                 to \in Waiting => from \in Waiting, pending' = pending
          PROVE  r \in pending'
      <4>1. ~Displaced(r)
        BY <1>2, <3>2, StepDisplaces
      <4>2. pc[r] \in Waiting
        BY <1>2, <3>2, StepFacts DEF Undecided
      <4> QED BY <1>2, <3>1, <3>2, <4>1, <4>2 DEF HeldUntilDecided, Undecided
    <3>3. CASE ReadArmed(q)
      BY <3>2, <3>3 DEF ReadArmed, Waiting
    <3>4. CASE ReadPattern(q)
      BY <3>2, <3>4 DEF ReadPattern, Waiting
    <3>5. CASE List(q)
      <4>1. CASE r = q
        BY <3>5, <4>1 DEF List
      <4>2. CASE r # q
        <5>1. pc'[q] = "listed" /\ pc'[r] = pc[r]
          BY <1>2, <3>5, <4>2, StepFacts DEF List
        <5>2. FlowId[r] # FlowId[q]
          BY <4>2, <5>1 DEF Displaced
        <5>3. ~Displaced(r)
          BY <1>2, <3>5, StepDisplaces DEF List
        <5>4. r \in pending
          BY <1>2, <3>1, <5>1, <5>3 DEF HeldUntilDecided, Undecided
        <5> QED BY <3>5, <5>2, <5>4 DEF List, Named
      <4> QED BY <4>1, <4>2
    <3>6. CASE Unarm(q)
      BY <3>2, <3>6 DEF Unarm, Waiting
    <3>7. CASE Notify(q)
      BY <3>2, <3>7 DEF Notify, Waiting
    <3>8. CASE Decided(q)
      BY <3>2, <3>8 DEF Decided, Waiting
    <3>9. CASE ClientGone(q)
      BY <3>2, <3>9 DEF ClientGone, Waiting
    <3> QED BY <2>1, <3>3, <3>4, <3>5, <3>6, <3>7, <3>8, <3>9 DEF Handler
  <2>2. ASSUME NEW S, NEW v \in Answers, Send(S, v), pending \ S \subseteq pending',
               UNCHANGED pc
        PROVE  HeldUntilDecided'
    <3> SUFFICES ASSUME NEW r \in Requests, pc[r] \in Waiting, verdict'[r].do = "none",
                        ~Displaced(r)
                 PROVE  r \in pending'
      BY <2>2 DEF HeldUntilDecided, Undecided, Displaced
    <3>1. verdict'[r] = IF r \in S THEN v ELSE verdict[r]
      BY <1>2, <2>2, SendFacts
    <3>2. r \notin S /\ verdict[r].do = "none"
      BY <3>1, AnswerFacts
    <3> QED BY <1>2, <2>2, <3>2 DEF HeldUntilDecided, Undecided
  <2>3. CASE Drain
    BY <2>2, <2>3, AnswerFacts DEF Drain
  <2>4. CASE RunResume
    <3>1. Head(cmds).arg \in Answers
      BY <1>2, <2>4, CommandFacts DEF RunResume, Command
    <3> QED BY <2>2, <2>4, <3>1 DEF RunResume
  <2>5. CASE UNCHANGED <<pc, verdict, pending>>
    BY <1>2, <2>5 DEF HeldUntilDecided, Undecided, Displaced
  <2>6. CASE RunSubscribe \/ RunArm \/ SetArmed \/ RunDisarm
    BY <2>5, <2>6 DEF RunSubscribe, RunArm, SetArmed, RunDisarm, core
  <2>7. CASE (\E p \in Patterns : PageArm(p)) \/ PageDisarm \/ Show \/ Answer \/ Reload
    BY <2>5, <2>7 DEF PageArm, PageDisarm, Show, Answer, Decide, Reload, core
  <2>8. CASE UNCHANGED vars
    BY <2>5, <2>8 DEF vars, core
  <2> QED BY <1>2, <2>1, <2>3, <2>4, <2>6, <2>7, <2>8 DEF Next, App
<1> QED BY <1>1, <1>2, SpecTypes, PTL DEF Spec

------------------------------------------------------------------------------
(* What the page shows rests on the order of what it sent. Its subscribe   *)
(* is the last one on its way, and when it has run no other is left;       *)
IsOp(n, op) == n \in DOMAIN cmds /\ cmds[n].op = op

IsOwnSubscribe(n) == IsOp(n, "subscribe") /\ cmds[n].arg = reloads

SubscribesInOrder ==
  /\ \A n \in DOMAIN cmds : IsOp(n, "subscribe") => cmds[n].arg <= reloads
  /\ \A m, n \in DOMAIN cmds : (m < n /\ IsOp(m, "subscribe") /\ IsOp(n, "subscribe"))
                                  => cmds[m].arg < cmds[n].arg

ListeningOrWill == IF listening THEN \A n \in DOMAIN cmds : ~IsOp(n, "subscribe")
                                ELSE \E n \in DOMAIN cmds : IsOwnSubscribe(n)

(* so an arm the page sent comes after it, and no disarm comes after an    *)
(* arm the page still shows.                                               *)
ShownArm(n) ==
  /\ IsOp(n, "arm")
  /\ \A m \in DOMAIN cmds : m > n => ~IsOp(m, "disarm")
  /\ listening \/ \E k \in DOMAIN cmds : k < n /\ IsOwnSubscribe(k)

ArmToCome == \E n \in DOMAIN cmds : ShownArm(n)

(* Once the arm has run, what takes the breakpoint down is a handler that  *)
(* is about to tell the page, or has told it.                              *)
ArmHasRun ==
  /\ listening
  /\ \A n \in DOMAIN cmds : ~IsOp(n, "disarm")
  /\ \/ running = "arm"
     \/ running = "none" /\ (armed \/ messages # <<>> \/ \E r \in Requests : pc[r] = "unarmed")

ShownArmedInv == /\ SubscribesInOrder /\ ListeningOrWill
                 /\ pageArmed => ArmToCome \/ ArmHasRun

(* A command that was taken was the first of the queue. *)
LEMMA PoppedFacts ==
  ASSUME Types, cmds # <<>>, cmds' = Tail(cmds)
  PROVE  /\ 1 \in DOMAIN cmds /\ cmds[1] = Head(cmds)
         /\ \A n \in DOMAIN cmds' : n \in Nat /\ n + 1 \in DOMAIN cmds /\ cmds'[n] = cmds[n + 1]
         /\ \A n \in DOMAIN cmds : /\ n \in Nat
                                   /\ n # 1 => n - 1 \in DOMAIN cmds' /\ cmds'[n - 1] = cmds[n]
BY DEF Types

(* A command that was sent is the last of the queue. *)
LEMMA PushedFacts ==
  ASSUME Types, NEW c \in Commands, cmds' = Append(cmds, c)
  PROVE  /\ Len(cmds) + 1 \in DOMAIN cmds' /\ cmds'[Len(cmds) + 1] = c
         /\ \A n \in DOMAIN cmds : n \in Nat /\ n \in DOMAIN cmds' /\ cmds'[n] = cmds[n]
                                  /\ n < Len(cmds) + 1
         /\ \A n \in DOMAIN cmds' : n \in DOMAIN cmds \/ n = Len(cmds) + 1
BY DEF Types

(* A subscribe carries the number of its page. *)
LEMMA SubscribeFacts ==
  ASSUME Types, NEW n \in DOMAIN cmds, IsOp(n, "subscribe")
  PROVE  cmds[n].arg \in Nat
BY DEF Types, Commands, IsOp

(* The bridge's channel, as a command that is taken from the queue leaves it. *)
Heard == IF Head(cmds).op = "subscribe" THEN listening' = (Head(cmds).arg = reloads)
                                        ELSE listening' = listening

(* The two facts about subscribes survive a command that is taken, *)
LEMMA PopSubscribes ==
  ASSUME Types, SubscribesInOrder, ListeningOrWill, UNCHANGED reloads,
         cmds # <<>>, cmds' = Tail(cmds), Heard
  PROVE  SubscribesInOrder' /\ ListeningOrWill'
<1>0. ASSUME NEW n \in DOMAIN cmds', IsOp(n, "subscribe")'
      PROVE  /\ n \in Nat /\ n + 1 \in DOMAIN cmds
             /\ IsOp(n + 1, "subscribe") /\ cmds'[n] = cmds[n + 1]
  BY <1>0, PoppedFacts DEF IsOp
<1>1. SubscribesInOrder'
  <2>1. ASSUME NEW n \in DOMAIN cmds', IsOp(n, "subscribe")' PROVE cmds'[n].arg <= reloads'
    BY <1>0, <2>1 DEF SubscribesInOrder
  <2>2. ASSUME NEW m \in DOMAIN cmds', NEW n \in DOMAIN cmds', m < n,
               IsOp(m, "subscribe")', IsOp(n, "subscribe")'
        PROVE  cmds'[m].arg < cmds'[n].arg
    <3>1. m + 1 < n + 1
      BY <1>0, <2>2
    <3> QED BY <1>0, <2>2, <3>1 DEF SubscribesInOrder
  <2> QED BY <2>1, <2>2 DEF SubscribesInOrder
<1>2. CASE Head(cmds).op # "subscribe"
  <2>1. CASE listening
    BY <1>0, <1>1, <1>2, <2>1 DEF ListeningOrWill, Heard
  <2>2. CASE ~listening
    <3>1. PICK n \in DOMAIN cmds : IsOwnSubscribe(n)
      BY <2>2 DEF ListeningOrWill
    <3>2. n - 1 \in DOMAIN cmds' /\ IsOwnSubscribe(n - 1)'
      BY <1>2, <3>1, PoppedFacts DEF IsOwnSubscribe, IsOp
    <3> QED BY <1>1, <1>2, <2>2, <3>2 DEF ListeningOrWill, Heard
  <2> QED BY <1>1, <2>1, <2>2
<1>3. CASE Head(cmds).op = "subscribe"
  <2>1. IsOp(1, "subscribe") /\ ~listening
    BY <1>3, PoppedFacts DEF ListeningOrWill, IsOp
  <2>2. PICK n \in DOMAIN cmds : IsOwnSubscribe(n)
    BY <2>1 DEF ListeningOrWill
  <2>3. CASE Head(cmds).arg = reloads
    <3>1. \A m \in DOMAIN cmds : m # 1 => ~IsOp(m, "subscribe")
      <4> SUFFICES ASSUME NEW m \in DOMAIN cmds, m # 1, IsOp(m, "subscribe") PROVE FALSE
        OBVIOUS
      <4>1. 1 < m
        BY PoppedFacts DEF Types
      <4>2. cmds[1].arg < cmds[m].arg /\ cmds[m].arg <= reloads
        BY <2>1, <4>1, PoppedFacts DEF SubscribesInOrder
      <4> QED BY <2>3, <4>2, PoppedFacts, SubscribeFacts DEF Types
    <3>2. \A m \in DOMAIN cmds' : ~IsOp(m, "subscribe")'
      <4> SUFFICES ASSUME NEW m \in DOMAIN cmds', IsOp(m, "subscribe")' PROVE FALSE
        OBVIOUS
      <4>1. m + 1 \in DOMAIN cmds /\ m + 1 # 1 /\ IsOp(m + 1, "subscribe")
        BY <1>0
      <4> QED BY <3>1, <4>1
    <3> QED BY <1>1, <1>3, <2>3, <3>2 DEF ListeningOrWill, Heard
  <2>4. CASE Head(cmds).arg # reloads
    <3>1. n # 1
      BY <2>2, <2>4, PoppedFacts DEF IsOwnSubscribe
    <3>2. n - 1 \in DOMAIN cmds' /\ IsOwnSubscribe(n - 1)'
      BY <2>2, <3>1, PoppedFacts DEF IsOwnSubscribe, IsOp
    <3>3. ~listening'
      BY <1>3, <2>4 DEF Heard
    <3> QED BY <1>1, <3>2, <3>3 DEF ListeningOrWill
  <2> QED BY <2>3, <2>4
<1> QED BY <1>1, <1>2, <1>3

(* and any other than a subscribe that is sent. *)
LEMMA PushSubscribes ==
  ASSUME Types, SubscribesInOrder, ListeningOrWill, UNCHANGED <<reloads, listening>>,
         NEW c \in Commands, c.op # "subscribe", cmds' = Append(cmds, c)
  PROVE  SubscribesInOrder' /\ ListeningOrWill'
<1>1. SubscribesInOrder'
  BY PushedFacts DEF SubscribesInOrder, IsOp
<1>2. ListeningOrWill'
  BY PushedFacts DEF ListeningOrWill, IsOwnSubscribe, IsOp
<1> QED BY <1>1, <1>2

(* An arm that is not itself taken moves forward with its subscribe. *)
LEMMA PopArm ==
  ASSUME Types, ListeningOrWill, UNCHANGED reloads,
         cmds # <<>>, cmds' = Tail(cmds), Heard,
         NEW n \in DOMAIN cmds, n # 1, ShownArm(n)
  PROVE  ArmToCome'
<1>1. IsOp(n - 1, "arm")' /\ n - 1 \in DOMAIN cmds'
  BY PoppedFacts DEF ShownArm, IsOp
<1>2. \A m \in DOMAIN cmds' : m > n - 1 => ~IsOp(m, "disarm")'
  BY PoppedFacts DEF ShownArm, IsOp
<1>3. listening' \/ \E k \in DOMAIN cmds' : k < n - 1 /\ IsOwnSubscribe(k)'
  <2>1. CASE listening
    <3>1. Head(cmds).op # "subscribe"
      BY <2>1, PoppedFacts DEF ListeningOrWill, IsOp
    <3> QED BY <2>1, <3>1 DEF Heard
  <2>2. CASE ~listening
    <3>1. PICK k \in DOMAIN cmds : k < n /\ IsOwnSubscribe(k)
      BY <2>2 DEF ShownArm
    <3>2. CASE k = 1
      BY <3>1, <3>2, PoppedFacts DEF IsOwnSubscribe, IsOp, Heard
    <3>3. CASE k # 1
      <4>1. k - 1 \in DOMAIN cmds' /\ k - 1 < n - 1 /\ IsOwnSubscribe(k - 1)'
        BY <3>1, <3>3, PoppedFacts DEF IsOwnSubscribe, IsOp
      <4> QED BY <4>1
    <3> QED BY <3>2, <3>3
  <2> QED BY <2>1, <2>2
<1> QED BY <1>1, <1>2, <1>3 DEF ArmToCome, ShownArm

(* No command but a disarm takes an arm's word back. *)
LEMMA PushKeepsArm ==
  ASSUME Types, ArmToCome, UNCHANGED <<reloads, listening>>,
         NEW c \in Commands, c.op # "disarm", cmds' = Append(cmds, c)
  PROVE  ArmToCome'
<1>1. PICK n \in DOMAIN cmds : ShownArm(n)
  BY DEF ArmToCome
<1>2. n \in DOMAIN cmds' /\ IsOp(n, "arm")'
  BY <1>1, PushedFacts DEF ShownArm, IsOp
<1>3. \A m \in DOMAIN cmds' : m > n => ~IsOp(m, "disarm")'
  BY <1>1, PushedFacts DEF ShownArm, IsOp
<1>4. listening' \/ \E k \in DOMAIN cmds' : k < n /\ IsOwnSubscribe(k)'
  BY <1>1, PushedFacts DEF ShownArm, IsOwnSubscribe, IsOp
<1> QED BY <1>2, <1>3, <1>4 DEF ArmToCome, ShownArm

(* An arm that is sent is the last word, and its subscribe is before it. *)
LEMMA PushArm ==
  ASSUME Types, ListeningOrWill, UNCHANGED <<reloads, listening>>,
         NEW c \in Commands, c.op = "arm", cmds' = Append(cmds, c)
  PROVE  ArmToCome'
<1>0. PICK n : n = Len(cmds) + 1
  OBVIOUS
<1>1. n \in DOMAIN cmds' /\ IsOp(n, "arm")'
  BY <1>0, PushedFacts DEF IsOp
<1>2. \A m \in DOMAIN cmds' : ~(m > n)
  <2>1. Len(cmds) \in Nat
    BY DEF Types
  <2> QED BY <1>0, <2>1, PushedFacts
<1>3. listening' \/ \E k \in DOMAIN cmds' : k < n /\ IsOwnSubscribe(k)'
  BY <1>0, PushedFacts DEF ListeningOrWill, IsOwnSubscribe, IsOp
<1> QED BY <1>1, <1>2, <1>3 DEF ArmToCome, ShownArm

(* What runs beside the queue disturbs none of this. *)
LEMMA SameCommands ==
  ASSUME ShownArmedInv, UNCHANGED <<cmds, reloads, listening>>
  PROVE  /\ SubscribesInOrder' /\ ListeningOrWill'
         /\ ArmToCome => ArmToCome'
BY DEF ShownArmedInv, SubscribesInOrder, ListeningOrWill, ArmToCome, ShownArm,
   IsOwnSubscribe, IsOp

(* A handler that takes the breakpoint down has yet to tell the page. *)
LEMMA HandlerShownArmed ==
  ASSUME Types, ShownArmedInv, NEW q \in Requests, Handler(q) \/ ClientGone(q)
  PROVE  ShownArmedInv'
<1> DEFINE Told == armed \/ messages # <<>> \/ \E r \in Requests : pc[r] = "unarmed"
<1>1. UNCHANGED <<cmds, running, listening, page>>
  BY DEF Handler, ClientGone, ReadArmed, ReadPattern, List, Unarm, Notify, Decided, sink
<1>2. ASSUME listening, Told PROVE Told'
  <2>1. CASE Unarm(q)
    BY <2>1, StepFacts DEF Unarm
  <2>2. CASE Notify(q)
    BY <1>2, <2>2 DEF Notify, Types, TypeOK
  <2>3. CASE ~Unarm(q) /\ ~Notify(q)
    <3>1. UNCHANGED <<armed, messages>>
      BY <2>3 DEF Handler, ClientGone, ReadArmed, ReadPattern, List, Decided, sink
    <3>2. PICK from \in {"new", "armed", "stopped", "paused"},
               to \in Held \union {"armed", "forwarded", "aborted", "gone"} : Step(q, from, to)
      BY <2>3 DEF Held, Handler, ClientGone, ReadArmed, ReadPattern, List, Decided
    <3>3. \A r \in Requests : pc[r] = "unarmed" => pc'[r] = "unarmed"
      BY <3>2, StepFacts
    <3> QED BY <1>2, <3>1, <3>3
  <2> QED BY <2>1, <2>2, <2>3
<1>3. ArmHasRun => ArmHasRun'
  BY <1>1, <1>2 DEF ArmHasRun, IsOp
<1> QED BY <1>1, <1>3, SameCommands DEF ShownArmedInv, page

(* A command that runs: the queue loses its head, the page sees nothing. *)
LEMMA CommandShownArmed ==
  ASSUME Types, ShownArmedInv, RunSubscribe \/ RunArm \/ RunDisarm \/ RunResume
  PROVE  ShownArmedInv'
<1>1. /\ running = "none" /\ cmds # <<>> /\ cmds' = Tail(cmds)
      /\ UNCHANGED <<page, pc, messages>>
  BY DEF RunSubscribe, RunArm, RunDisarm, RunResume, Command, core, sink
<1>2. Heard
  BY DEF RunSubscribe, RunArm, RunDisarm, RunResume, Command, Heard, sink
<1>3. SubscribesInOrder' /\ ListeningOrWill'
  BY <1>1, <1>2, PopSubscribes DEF ShownArmedInv, page
<1>4. ASSUME ArmToCome PROVE ArmToCome' \/ ArmHasRun'
  <2>1. PICK n \in DOMAIN cmds : ShownArm(n)
    BY <1>4 DEF ArmToCome
  <2>2. CASE n # 1
    BY <1>1, <1>2, <2>1, <2>2, PopArm DEF ShownArmedInv, page
  <2>3. CASE n = 1
    <3>1. Head(cmds).op = "arm" /\ listening
      <4>1. Head(cmds).op = "arm"
        BY <1>1, <2>1, <2>3, PoppedFacts DEF ShownArm, IsOp
      <4>2. \A k \in DOMAIN cmds : ~(k < 1)
        BY DEF Types
      <4> QED BY <2>1, <2>3, <4>1, <4>2 DEF ShownArm
    <3>2. RunArm
      BY <3>1 DEF RunSubscribe, RunDisarm, RunResume, Command
    <3>3. \A m \in DOMAIN cmds' : ~IsOp(m, "disarm")'
      BY <1>1, <2>1, <2>3, PoppedFacts DEF ShownArm, IsOp
    <3> QED BY <3>1, <3>2, <3>3 DEF RunArm, ArmHasRun, sink
  <2> QED BY <2>2, <2>3
<1>5. ASSUME ArmHasRun PROVE ArmHasRun'
  <2>1. ~IsOp(1, "disarm") /\ ~IsOp(1, "subscribe")
    BY <1>1, <1>5, PoppedFacts DEF ArmHasRun, ShownArmedInv, ListeningOrWill
  <2>2. RunArm \/ RunResume
    BY <1>1, <2>1, PoppedFacts DEF RunSubscribe, RunDisarm, Command, IsOp
  <2>3. listening' /\ (running' = "arm" \/ (running' = "none" /\ armed' = armed))
    BY <1>1, <1>5, <2>2 DEF RunArm, RunResume, ArmHasRun, sink
  <2>4. \A m \in DOMAIN cmds' : ~IsOp(m, "disarm")'
    BY <1>1, <1>5, PoppedFacts DEF ArmHasRun, IsOp
  <2> QED BY <1>1, <1>5, <2>3, <2>4 DEF ArmHasRun
<1> QED BY <1>1, <1>3, <1>4, <1>5 DEF ShownArmedInv, page

(* A command the page sends: an arm shows the breakpoint armed, and a      *)
(* disarm shows it idle.                                                   *)
LEMMA PageShownArmed ==
  ASSUME Types, ShownArmedInv,
         (\E p \in Patterns : PageArm(p)) \/ PageDisarm \/ Answer \/ Reload
  PROVE  ShownArmedInv'
<1> USE BreakpointAssumption
<1>1. ASSUME NEW p \in Patterns, PageArm(p) PROVE ShownArmedInv'
  <2>1. PICK c \in Commands : c.op = "arm" /\ cmds' = Append(cmds, c)
    BY <1>1 DEF PageArm, Invoke, Commands
  <2>2. UNCHANGED <<reloads, listening>>
    BY <1>1 DEF PageArm, sink
  <2>3. SubscribesInOrder' /\ ListeningOrWill'
    BY <2>1, <2>2, PushSubscribes DEF ShownArmedInv
  <2>4. ArmToCome'
    BY <2>1, <2>2, PushArm DEF ShownArmedInv
  <2> QED BY <2>3, <2>4 DEF ShownArmedInv
<1>2. CASE PageDisarm
  <2>1. PICK c \in Commands : c.op = "disarm" /\ cmds' = Append(cmds, c)
    BY <1>2 DEF PageDisarm, Invoke, Commands
  <2>2. SubscribesInOrder' /\ ListeningOrWill'
    BY <1>2, <2>1, PushSubscribes DEF PageDisarm, ShownArmedInv, sink
  <2> QED BY <1>2, <2>2 DEF PageDisarm, ShownArmedInv
<1>3. ASSUME NEW v \in Answers, Decide(v) PROVE ShownArmedInv'
  <2>1. PICK c \in Commands : c.op = "resume" /\ cmds' = Append(cmds, c)
    BY <1>3 DEF Decide, Invoke, Commands, Types, TypeOK
  <2>2. UNCHANGED <<core, running, sink, pageArmed, reloads>>
    BY <1>3 DEF Decide
  <2>3. SubscribesInOrder' /\ ListeningOrWill'
    BY <2>1, <2>2, PushSubscribes DEF ShownArmedInv, sink
  <2>4. ArmToCome => ArmToCome'
    BY <2>1, <2>2, PushKeepsArm DEF sink
  <2>5. ArmHasRun => ArmHasRun'
    BY <2>1, <2>2, PushedFacts DEF ArmHasRun, IsOp, core, sink
  <2> QED BY <2>2, <2>3, <2>4, <2>5 DEF ShownArmedInv
<1>4. CASE Reload
  <2>1. PICK c \in Commands : c = Subscribe(reloads') /\ cmds' = Append(cmds, c)
    BY <1>4 DEF Reload, Subscribe, Commands, Types
  <2>2. c.op = "subscribe" /\ c.arg = reloads' /\ reloads' = reloads + 1 /\ reloads \in Nat
    BY <1>4, <2>1 DEF Reload, Subscribe, Types
  <2>3. SubscribesInOrder'
    <3>1. ASSUME NEW n \in DOMAIN cmds', IsOp(n, "subscribe")'
          PROVE  n \in DOMAIN cmds \/ n = Len(cmds) + 1
      BY <2>1, PushedFacts
    <3>2. ASSUME NEW n \in DOMAIN cmds, IsOp(n, "subscribe")'
          PROVE  /\ IsOp(n, "subscribe") /\ cmds'[n] = cmds[n] /\ n < Len(cmds) + 1
                 /\ cmds[n].arg \in Nat /\ cmds[n].arg <= reloads
      <4>1. IsOp(n, "subscribe") /\ cmds'[n] = cmds[n] /\ n < Len(cmds) + 1
        BY <2>1, <3>2, PushedFacts DEF IsOp
      <4> QED BY <4>1, SubscribeFacts DEF ShownArmedInv, SubscribesInOrder
    <3>3. cmds'[Len(cmds) + 1].arg = reloads + 1
      BY <2>1, <2>2, PushedFacts
    <3>4. ASSUME NEW n \in DOMAIN cmds', IsOp(n, "subscribe")'
          PROVE  cmds'[n].arg <= reloads'
      BY <2>2, <3>1, <3>2, <3>3, <3>4
    <3>5. ASSUME NEW m \in DOMAIN cmds', NEW n \in DOMAIN cmds', m < n,
                 IsOp(m, "subscribe")', IsOp(n, "subscribe")'
          PROVE  cmds'[m].arg < cmds'[n].arg
      <4>1. m \in DOMAIN cmds
        BY <3>1, <3>2, <3>5 DEF Types
      <4>2. CASE n \in DOMAIN cmds
        BY <3>2, <3>5, <4>1, <4>2 DEF ShownArmedInv, SubscribesInOrder
      <4>3. CASE n = Len(cmds) + 1
        BY <2>2, <3>2, <3>3, <3>5, <4>1, <4>3
      <4> QED BY <3>1, <3>5, <4>2, <4>3
    <3> QED BY <3>4, <3>5 DEF SubscribesInOrder
  <2>4. ListeningOrWill'
    <3>1. PICK n \in DOMAIN cmds' : cmds'[n] = c
      BY <2>1, PushedFacts
    <3>2. IsOwnSubscribe(n)'
      BY <2>1, <2>2, <3>1 DEF IsOwnSubscribe, IsOp
    <3> QED BY <1>4, <3>1, <3>2 DEF Reload, ListeningOrWill
  <2> QED BY <1>4, <2>3, <2>4 DEF Reload, ShownArmedInv
<1>5. CASE Answer
  <2>1. Abort \in Answers /\ Continue(text) \in Answers
    BY AnswerFacts DEF Types, TypeOK
  <2> QED BY <1>3, <1>5, <2>1 DEF Answer
<1> QED BY <1>1, <1>2, <1>4, <1>5

(* ShownArmedInv is inductive, given the types. *)
LEMMA ShownArmedNext == Types /\ ShownArmedInv /\ [Next]_vars => ShownArmedInv'
<1> SUFFICES ASSUME Types, ShownArmedInv, [Next]_vars PROVE ShownArmedInv'
  OBVIOUS
<1>1. CASE SetArmed
  <2>1. ~ArmHasRun \/ ArmHasRun'
    BY <1>1 DEF SetArmed, ArmHasRun, IsOp, sink
  <2> QED BY <1>1, <2>1, SameCommands DEF SetArmed, ShownArmedInv, sink, page
<1>2. CASE Drain
  <2>1. ~ArmHasRun
    BY <1>2 DEF Drain, ArmHasRun
  <2> QED BY <1>2, <2>1, SameCommands DEF Drain, ShownArmedInv, sink, page
<1>3. CASE Show
  BY <1>3, SameCommands DEF Show, ShownArmedInv
<1>4. CASE UNCHANGED vars
  BY <1>4, SameCommands DEF vars, core, sink, page, ShownArmedInv, ArmHasRun, IsOp
<1> QED BY <1>1, <1>2, <1>3, <1>4, HandlerShownArmed, CommandShownArmed, PageShownArmed
        DEF Next, App

(* ShownArmedIsArmed: what takes the breakpoint down reaches the page after *)
(* it, and an arm the page sends later comes later, through any number of  *)
(* arms, disarms, hits and reloads.                                        *)
THEOREM ShownArmed == Spec => []ShownArmedIsArmed
<1>1. Init => ShownArmedInv
  <2> SUFFICES ASSUME Init PROVE ShownArmedInv
    OBVIOUS
  <2>1. cmds = <<Subscribe(0)>> /\ ~listening /\ reloads = 0 /\ ~pageArmed
    BY DEF Init
  <2>2. DOMAIN cmds = {1} /\ cmds[1].op = "subscribe" /\ cmds[1].arg = 0
    BY <2>1 DEF Subscribe
  <2> QED BY <2>1, <2>2
          DEF ShownArmedInv, SubscribesInOrder, ListeningOrWill, IsOwnSubscribe, IsOp
<1>2. ASSUME ShownArmedInv PROVE ShownArmedIsArmed
  <2> SUFFICES ASSUME Settled, pageArmed PROVE armed
    BY DEF ShownArmedIsArmed
  <2>1. ~ArmToCome
    BY DEF Settled, ArmToCome
  <2> QED BY <1>2, <2>1 DEF ShownArmedInv, ArmHasRun, Settled
<1> QED BY <1>1, <1>2, SpecTypes, ShownArmedNext, PTL DEF Spec
==============================================================================
