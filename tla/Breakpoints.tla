---------------------------- MODULE Breakpoints ----------------------------
(***************************************************************************)
(* Breakpoints: handlers that stop at one (intercept.rs, breakpoint.rs),   *)
(* the commands that arm, disarm and resume (commands.rs), and the page's  *)
(* switch and intercept modal (App.tsx).                                   *)
(*                                                                         *)
(* A handler runs without awaiting from the moment it reads armed until it *)
(* waits for the decision, so a client that leaves can end it only there;  *)
(* every other thread may run between its steps. A pattern stands for the  *)
(* set of requests whose URL it matches. Senders are known by flow ids,    *)
(* and the requests of two engines may have the same one: the breakpoints  *)
(* are the app's, and every engine numbers its flows from zero.            *)
(***************************************************************************)
EXTENDS Naturals, Sequences, FiniteSets, SequencesExt

CONSTANTS Requests,    \* requests that reach the breakpoint check
          Ids,         \* flow ids
          FlowId,      \* the id of a request's flow
          Patterns,    \* what the user may type: sets of requests
          NoRequest,
          MaxArms,     \* bound: times the user arms
          MaxDisarms,  \* bound: times the user disarms
          MaxReloads   \* bound: times the page is reloaded

ASSUME BreakpointAssumption == /\ NoRequest \notin Requests
                               /\ FlowId \in [Requests -> Ids]
                               /\ Patterns \subseteq SUBSET Requests
                               /\ {MaxArms, MaxDisarms, MaxReloads} \subseteq Nat

VARIABLES
  armed,       \* armed
  pattern,     \* pattern
  pending,     \* requests whose oneshot sender is in the pending map
  pc,          \* where each handler is
  verdict,     \* what was sent down a handler's oneshot: [do, edits], do = "none" before
  cmds,        \* commands the page has sent, in order
  running,     \* the command that is between its two steps, or "none"
  listening,   \* the channel in bp_sink is the loaded page's
  messages,    \* interceptions on their way to the loaded page
  pageArmed,   \* the page's bpArmed
  modal,       \* the interception the modal shows, or NoRequest
  text,        \* whose headers the modal's textarea holds
  arms, disarms, reloads,
  caught       \* history: requests stopped since armed was last set

core == <<armed, pattern, pending, pc, verdict, caught>>
page == <<pageArmed, modal, text, arms, disarms, reloads>>
sink == <<listening, messages>>
vars == <<core, cmds, running, sink, page>>

NoVerdict == [do |-> "none", edits |-> NoRequest]
Continue(edits) == [do |-> "continue", edits |-> edits]
Abort == [do |-> "abort", edits |-> NoRequest]

(* A page is known by the reloads before it. *)
Subscribe(p) == [op |-> "subscribe", id |-> NoRequest, arg |-> p]

Init ==
  /\ armed = FALSE /\ pattern = Requests /\ pending = {}
  /\ pc = [r \in Requests |-> "new"]
  /\ verdict = [r \in Requests |-> NoVerdict]
  /\ cmds = <<Subscribe(0)>> /\ running = "none"
  /\ listening = FALSE /\ messages = <<>>
  /\ pageArmed = FALSE /\ modal = NoRequest /\ text = NoRequest
  /\ arms = 0 /\ disarms = 0 /\ reloads = 0 /\ caught = {}

------------------------------------------------------------------------------
(* A handler at the breakpoint check. *)

Step(r, from, to) == pc[r] = from /\ pc' = [pc EXCEPT ![r] = to]

Held == {"stopped", "listed", "unarmed", "paused"}

(* should_break: the flag first... *)
ReadArmed(r) ==
  /\ Step(r, "new", IF armed THEN "armed" ELSE "forwarded")
  /\ UNCHANGED <<armed, pattern, pending, verdict, caught, cmds, running, sink, page>>

(* ...then the pattern. A request that is stopped has its flow marked Paused. *)
ReadPattern(r) ==
  /\ Step(r, "armed", IF r \in pattern THEN "stopped" ELSE "forwarded")
  /\ caught' = IF r \in pattern THEN caught \union {r} ELSE caught
  /\ UNCHANGED <<armed, pattern, pending, verdict, cmds, running, sink, page>>

Named(id) == {r \in pending : FlowId[r] = id}

(* wait: put the sender in the map, which drops one of the same id, *)
List(r) ==
  /\ Step(r, "stopped", "listed")
  /\ pending' = (pending \ Named(FlowId[r])) \union {r}
  /\ UNCHANGED <<armed, pattern, verdict, caught, cmds, running, sink, page>>

(* take the breakpoint down, *)
Unarm(r) ==
  /\ Step(r, "listed", "unarmed")
  /\ armed' = FALSE
  /\ UNCHANGED <<pattern, pending, verdict, caught, cmds, running, sink, page>>

(* tell the page, *)
Notify(r) ==
  /\ Step(r, "unarmed", "paused")
  /\ messages' = IF listening THEN Append(messages, r) ELSE messages
  /\ UNCHANGED <<armed, pattern, pending, verdict, caught, cmds, running, listening, page>>

(* and wait until the sender is gone: used for a decision, or dropped,     *)
(* which counts as Continue.                                               *)
Decided(r) ==
  /\ r \notin pending
  /\ Step(r, "paused", IF verdict[r].do = "abort" THEN "aborted" ELSE "forwarded")
  /\ UNCHANGED <<armed, pattern, pending, verdict, caught, cmds, running, sink, page>>

(* The client gives up: the handler is dropped, its sender stays listed. *)
ClientGone(r) ==
  /\ Step(r, "paused", "gone")
  /\ UNCHANGED <<armed, pattern, pending, verdict, caught, cmds, running, sink, page>>

------------------------------------------------------------------------------
(* Commands, one at a time in the order the page sent them. *)

Command(op) ==
  /\ running = "none"
  /\ cmds # <<>>
  /\ Head(cmds).op = op
  /\ UNCHANGED page

(* subscribe_breakpoints; the page that sent it may be gone. *)
RunSubscribe ==
  /\ Command("subscribe")
  /\ listening' = (Head(cmds).arg = reloads)
  /\ cmds' = Tail(cmds)
  /\ UNCHANGED <<core, running, messages>>

(* arm: the pattern, then the flag. *)
RunArm ==
  /\ Command("arm")
  /\ pattern' = Head(cmds).arg
  /\ running' = "arm"
  /\ cmds' = Tail(cmds)
  /\ UNCHANGED <<armed, pending, pc, verdict, caught, sink>>

SetArmed ==
  /\ running = "arm"
  /\ armed' = TRUE
  /\ caught' = {}
  /\ running' = "none"
  /\ UNCHANGED <<pattern, pending, pc, verdict, cmds, sink, page>>

(* disarm: the flag, then everything listed is released. *)
RunDisarm ==
  /\ Command("disarm")
  /\ armed' = FALSE
  /\ running' = "disarm"
  /\ cmds' = Tail(cmds)
  /\ UNCHANGED <<pattern, pending, pc, verdict, caught, sink>>

(* A oneshot carries the first value sent; its sender is used up with it.  *)
(* Mutant: the other handlers' oneshots are lost.                          *)
SendTo(S, v) == verdict' = [r \in S |-> v]

Send(S, v) == verdict' = [r \in Requests |-> IF r \in S THEN v ELSE verdict[r]]

(* Mutant: the flag goes down and the listed senders stay. *)
DrainNothing ==
  /\ running = "disarm"
  /\ running' = "none"
  /\ UNCHANGED <<core, cmds, sink, page>>

Drain ==
  /\ running = "disarm"
  /\ Send(pending, Continue(NoRequest))
  /\ pending' = {}
  /\ running' = "none"
  /\ UNCHANGED <<armed, pattern, pc, caught, cmds, sink, page>>

(* Mutant: the sender is looked for by draining the map. *)
ResumeDrains ==
  LET c == Head(cmds)
  IN /\ Command("resume")
     /\ Send(Named(c.id), c.arg)
     /\ pending' = {}
     /\ cmds' = Tail(cmds)
     /\ UNCHANGED <<armed, pattern, pc, caught, running, sink>>

RunResume ==
  LET c == Head(cmds)
  IN /\ Command("resume")
     /\ Send(Named(c.id), c.arg)
     /\ pending' = pending \ Named(c.id)
     /\ cmds' = Tail(cmds)
     /\ UNCHANGED <<armed, pattern, pc, caught, running, sink>>

------------------------------------------------------------------------------
(* The page. *)

Invoke(op, id, arg) == cmds' = Append(cmds, [op |-> op, id |-> id, arg |-> arg])

(* The section's button, which the modal covers, arms or disarms by what   *)
(* the page believes; the palette arms "*", also from under the modal.     *)
PageArm(p) ==
  /\ \/ modal = NoRequest /\ ~pageArmed
     \/ p = Requests
  /\ arms < MaxArms
  /\ arms' = arms + 1
  /\ pageArmed' = TRUE
  /\ Invoke("arm", NoRequest, p)
  /\ UNCHANGED <<core, running, sink, modal, text, disarms, reloads>>

PageDisarm ==
  /\ modal = NoRequest /\ pageArmed
  /\ disarms < MaxDisarms
  /\ disarms' = disarms + 1
  /\ pageArmed' = FALSE
  /\ Invoke("disarm", NoRequest, NoRequest)
  /\ UNCHANGED <<core, running, sink, modal, text, arms, reloads>>

(* Mutant: the page does not hear that the breakpoint went down. *)
ShowStillArmed ==
  /\ messages # <<>>
  /\ modal' = Head(messages)
  /\ text' = IF modal = NoRequest THEN Head(messages) ELSE text
  /\ messages' = Tail(messages)
  /\ UNCHANGED <<core, cmds, running, listening, pageArmed, arms, disarms, reloads>>

(* bpChannel.onmessage. A modal that is already up keeps its textarea: the *)
(* component's initial text is read when it is mounted.                    *)
Show ==
  /\ messages # <<>>
  /\ modal' = Head(messages)
  /\ text' = IF modal = NoRequest THEN Head(messages) ELSE text
  /\ pageArmed' = FALSE
  /\ messages' = Tail(messages)
  /\ UNCHANGED <<core, cmds, running, listening, arms, disarms, reloads>>

Decide(v) ==
  /\ modal # NoRequest
  /\ Invoke("resume", FlowId[modal], v)
  /\ modal' = NoRequest
  /\ UNCHANGED <<core, running, sink, pageArmed, text, arms, disarms, reloads>>

(* A new page starts idle, without a modal and without a channel. *)
Reload ==
  /\ reloads < MaxReloads
  /\ reloads' = reloads + 1
  /\ pageArmed' = FALSE /\ modal' = NoRequest /\ text' = NoRequest
  /\ listening' = FALSE /\ messages' = <<>>
  /\ cmds' = Append(cmds, Subscribe(reloads'))
  /\ UNCHANGED <<core, running, arms, disarms>>

------------------------------------------------------------------------------
Handler(r) == \/ ReadArmed(r) \/ ReadPattern(r)
              \/ List(r) \/ Unarm(r) \/ Notify(r) \/ Decided(r)

App == RunSubscribe \/ RunArm \/ SetArmed \/ RunDisarm \/ Drain \/ RunResume

Answer == Decide(Abort) \/ Decide(Continue(text))

Next == \/ \E r \in Requests : Handler(r) \/ ClientGone(r)
        \/ App
        \/ \E p \in Patterns : PageArm(p)
        \/ PageDisarm \/ Show \/ Answer \/ Reload

Spec == Init /\ [][Next]_vars

(* Threads run and commands are handled; the page shows what it is sent.   *)
(* Nothing obliges the user to arm, or to answer.                          *)
Fairness == /\ \A r \in Requests : WF_vars(Handler(r))
            /\ WF_vars(App) /\ WF_vars(Show)

FairSpec == Spec /\ Fairness

------------------------------------------------------------------------------
Verdicts == [do : {"none", "continue", "abort"}, edits : Requests \union {NoRequest}]

TypeOK ==
  /\ armed \in BOOLEAN /\ pageArmed \in BOOLEAN
  /\ pattern \subseteq Requests
  /\ pending \subseteq Requests
  /\ pc \in [Requests -> Held \union {"new", "armed", "forwarded", "aborted", "gone"}]
  /\ verdict \in [Requests -> Verdicts]
  /\ running \in {"none", "arm", "disarm"}
  /\ messages \in Seq(Requests)
  /\ modal \in Requests \union {NoRequest}
  /\ text \in Requests \union {NoRequest}
  /\ caught \subseteq Requests

Waiting == {"listed", "unarmed", "paused"}

Undecided(r) == pc[r] \in Waiting /\ verdict[r].do = "none"

(* Another request of the same id has been as far as the map. *)
Displaced(r) == \E s \in Requests \ {r} : FlowId[s] = FlowId[r]
                                          /\ pc[s] \notin {"new", "armed", "stopped"}

(* A request that is held is held until it is decided: nobody takes its    *)
(* sender off the map, and so wakes its handler, without sending down it   *)
(* what the user or a disarm decided - but for a request of another engine *)
(* with the same id.                                                       *)
HeldUntilDecided ==
  \A r \in Requests : Undecided(r) /\ ~Displaced(r) => r \in pending

(* No command, no interception and no handler is on its way. *)
Settled == /\ cmds = <<>> /\ running = "none" /\ messages = <<>>
           /\ \A r \in Requests : pc[r] \notin {"armed", "stopped", "listed", "unarmed"}

(* The page never shows an armed breakpoint that is not: whatever takes it *)
(* down reaches the page after it, and an arm sent later comes later.      *)
ShownArmedIsArmed == (Settled /\ pageArmed) => armed

(* Disarm is a way out for whoever is paused, the modal's owner or not:    *)
(* once it was asked for, the handler does not stay.                       *)
DisarmFrees ==
  \A r \in Requests :
    (pc[r] = "paused" /\ \E n \in DOMAIN cmds : cmds[n].op = "disarm") ~> (pc[r] # "paused")

------------------------------------------------------------------------------
(* What the repository's comments say and the code does not do: TLC finds  *)
(* a behaviour that breaks each property below.                          *)

(* "pause a matching request mid-flight until the user decides to continue *)
(* (optionally with edited headers) or abort" (breakpoint.rs:1-2): a       *)
(* handler that waits without a decision has the sender that can wake it.  *)
(* Broken where requests of two engines have the same id.                  *)
PausedUntilDecided == \A r \in Requests : Undecided(r) => r \in pending

(* "Arming is one-shot: we disarm here so only the next request is caught" *)
(* (breakpoint.rs:77-78).                                                  *)
OneShot == Cardinality(caught) <= 1

(* "Release anything currently paused so no request is left hanging"       *)
(* (breakpoint.rs:55): while disarm is the last word, nobody waits. Every  *)
(* disarm takes back an arm, so the last word it is when they are as many. *)
DisarmLeavesNobody ==
  (Settled /\ disarms > 0 /\ arms = disarms)
    => \A r \in Requests : ~(pc[r] = "paused" /\ verdict[r].do = "none")

(* The page's idle switch means an idle breakpoint: "one-shot: the backend *)
(* disarmed on this hit" (App.tsx:396).                                    *)
ShownIdleIsIdle == (Settled /\ armed) => pageArmed

(* A paused request can be decided: the page was told "so the UI can raise *)
(* the intercept modal" (breakpoint.rs:21), and it is the one it shows.    *)
PausedIsShown ==
  Settled => \A r \in Requests : (pc[r] = "paused" /\ r \in pending) => modal = r

(* "edit its headers and continue" (App.tsx:1251): what a request goes on  *)
(* with was edited from its own headers.                                   *)
EditsAreItsOwn == \A r \in Requests : verdict[r].edits \in {r, NoRequest}
==============================================================================
