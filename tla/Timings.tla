------------------------------ MODULE Timings ------------------------------
(***************************************************************************)
(* Which flow is told the cost of which connection (timing.rs): connects   *)
(* are timed in three phases and logged, and a flow claims one when its    *)
(* response headers arrive (intercept.rs handle_response).  Several        *)
(* connects run at once and hyper's pool hands a flow any open connection  *)
(* to its host, its own connect or another flow's.                         *)
(*                                                                         *)
(* A flow opens at most one connection, which is named after it.  Time is  *)
(* whole ticks.  A host is [name, tls, literal]: the name is what          *)
(* normalize_host makes of the flow's host and of the connector's, which   *)
(* spell it apart, and a literal is an IP address, which is not resolved.  *)
(***************************************************************************)
EXTENDS Integers, Sequences, FiniteSetsExt

CONSTANTS Flows,      \* flows, numbers above 0
          Hosts,      \* where flows go: [name, tls, literal]
          Now,        \* bound: 0 to the last moment modelled
          MaxAge,     \* MAX_SAMPLE_AGE_MS
          Slop,       \* CLOCK_SLOP_MS
          LogCap      \* ConnectLog.cap

ASSUME TimingsAssumption ==
  /\ Flows \subseteq Nat \ {0}
  /\ {MaxAge, Slop} \subseteq Nat
  /\ LogCap \in Nat \ {0}
  /\ \A h \in Hosts : {h.tls, h.literal} \subseteq BOOLEAN

VARIABLES
  now,
  request,   \* per flow [at, host, start, on]: on is the connection it goes out by
  conn,      \* per flow the connect it opened: [stage, at, split, dns, tcp]
  samples,   \* ConnectLog.samples: each under its place in logged
  told,      \* per answered flow [sample, alone, own]: what it claimed, history beside it
  logged     \* history: connects as they were recorded: [of, answered]

timingsVars == <<now, request, conn, samples, told, logged>>

None     == -1
NotBegun == [stage |-> "none", at |-> 0, split |-> 0, dns |-> None, tcp |-> None]
Nowhere  == [name |-> "", tls |-> FALSE, literal |-> FALSE]
NoSample == [of |-> 0, host |-> "", at |-> 0, dns |-> None, connect |-> None, tls |-> None]

TimingsInit ==
  /\ now = 0
  /\ request = [f \in Flows |-> [at |-> "unborn", host |-> Nowhere, start |-> 0, on |-> 0]]
  /\ conn = [f \in Flows |-> NotBegun]
  /\ samples = [n \in {} |-> NoSample]
  /\ told = [f \in {} |-> [sample |-> NoSample, alone |-> FALSE, own |-> FALSE]]
  /\ logged = <<>>

Host(f) == request[f].host.name

------------------------------------------------------------------------------
Tick ==
  /\ now + 1 \in Now
  /\ now' = now + 1
  /\ UNCHANGED <<request, conn, samples, told, logged>>

(* handle_request stamps the flow and hands it to the client. *)
Start(f, h) ==
  /\ request[f].at = "unborn"
  /\ \A g \in Flows : g < f => request[g].at # "unborn"
  /\ request' = [request EXCEPT ![f] = [at |-> "waiting", host |-> h, start |-> now, on |-> 0]]
  /\ UNCHANGED <<now, conn, samples, told, logged>>

(* Timed::call, the outer layer: a connect begins, at once with the dial   *)
(* if there is no name to resolve...                                       *)
Connect(f) ==
  /\ request[f].at = "waiting"
  /\ conn[f] = NotBegun
  /\ conn' = [conn EXCEPT ![f] = [NotBegun EXCEPT
       !.stage = IF request[f].host.literal THEN "dialling" ELSE "resolving",
       !.at = now, !.split = now]]
  /\ UNCHANGED <<now, request, samples, told, logged>>

(* Mutant: the scratch space is shared by the connects to one host. *)
ScratchOfHost(f) == {g \in Flows : conn[g].stage \in {"resolving", "dialling", "shaking"}
                                   /\ Host(g) = Host(f)}

(* ...with a scratch space of its own, the task-local PARTIAL, in which... *)
Scratch(f) == {f}

(* ...the resolver leaves its time... *)
Resolve(f) ==
  /\ conn[f].stage = "resolving"
  /\ conn' = [g \in Flows |->
       LET c == IF g \in Scratch(f) THEN [conn[g] EXCEPT !.dns = now - conn[f].at] ELSE conn[g]
       IN IF g = f THEN [c EXCEPT !.stage = "dialling"] ELSE c]
  /\ UNCHANGED <<now, request, samples, told, logged>>

(* ...and the plaintext connector, around it, its own. *)
Dial(f) ==
  /\ conn[f].stage = "dialling"
  /\ conn' = [g \in Flows |->
       LET c == IF g \in Scratch(f) THEN [conn[g] EXCEPT !.tcp = now - conn[f].at] ELSE conn[g]
       IN IF g = f THEN [c EXCEPT !.stage = "shaking", !.split = now] ELSE c]
  /\ UNCHANGED <<now, request, samples, told, logged>>

(* split_phases: each phase is a difference, and never below nothing. *)
Difference(a, b) == IF a > b THEN a - b ELSE 0

(* dns_ms.unwrap_or(0.0) *)
Resolving(dns) == IF dns = None THEN 0 ELSE dns

Sample(f) ==
  LET c == conn[f]
  IN [of      |-> f,
      host    |-> Host(f),
      at      |-> c.at,
      dns     |-> c.dns,
      connect |-> IF c.tcp = None THEN None
                                  ELSE Difference(c.tcp, Resolving(c.dns)),
      tls     |-> IF request[f].host.tls /\ c.tcp # None THEN Difference(now - c.at, c.tcp)
                                                        ELSE None]

(* ConnectLog::record: stale samples go, then the oldest beyond the cap. *)
Logged(s) ==
  LET new   == Len(logged) + 1
      fresh == {n \in DOMAIN samples : samples[n].at >= s.at - MaxAge} \union {new}
      kept  == {n \in fresh : Cardinality({m \in fresh : m >= n}) <= LogCap}
  IN [n \in kept |-> IF n = new THEN s ELSE samples[n]]

(* The outer connector returns: a connection, logged and in the pool... *)
Establish(f) ==
  /\ conn[f].stage = "shaking"
  /\ request[f].host.tls \/ now = conn[f].split
  /\ samples' = Logged(Sample(f))
  /\ logged' = Append(logged, [of |-> f, answered |-> DOMAIN told])
  /\ conn' = [conn EXCEPT ![f].stage = "open"]
  /\ UNCHANGED <<now, request, told>>

(* ...or an error, which leaves no sample. *)
Fail(f) ==
  /\ conn[f].stage \in {"resolving", "dialling", "shaking"}
  /\ conn' = [conn EXCEPT ![f].stage = "failed"]
  /\ UNCHANGED <<now, request, samples, told, logged>>

(* The pool gives the flow an open connection to the same place. *)
Pooled(f, g) ==
  /\ request[f].at = "waiting"
  /\ conn[g].stage = "open"
  /\ request[g].host = request[f].host
  /\ request' = [request EXCEPT ![f].at = "sent", ![f].on = g]
  /\ UNCHANGED <<now, conn, samples, told, logged>>

(* A flow whose client goes away, or whose request fails, claims nothing. *)
Abandon(f) ==
  /\ request[f].at \in {"waiting", "sent"}
  /\ request' = [request EXCEPT ![f].at = "gone"]
  /\ UNCHANGED <<now, conn, samples, told, logged>>

(* Mutant: any connect to the host will do, however long before the flow. *)
ClaimableEver(f) ==
  {n \in DOMAIN samples : samples[n].host = Host(f)}

(* ConnectLog::claim: the first sample of the host that began after the flow. *)
Claimable(f) ==
  {n \in DOMAIN samples : samples[n].host = Host(f) /\ samples[n].at >= request[f].start - Slop}

Claimed(f) == IF Claimable(f) = {} THEN {} ELSE {Min(Claimable(f))}

(* No other connect to the host began since the flow, give or take the slop. *)
Alone(f) ==
  \A g \in Flows \ {f} : \/ conn[g].stage = "none"
                         \/ Host(g) # Host(f)
                         \/ conn[g].at < request[f].start - Slop

(* The flow's own connect was logged, not long ago nor many connects ago,  *)
(* and no other flow to the host has been answered in between.             *)
Opened(f) ==
  \E n \in DOMAIN logged :
    /\ logged[n].of = f
    /\ Len(logged) - n < LogCap
    /\ now - conn[f].at <= MaxAge
    /\ \A g \in DOMAIN told : Host(g) = Host(f) => g \in logged[n].answered

(* handle_response *)
Respond(f) ==
  /\ request[f].at = "sent"
  /\ request' = [request EXCEPT ![f].at = "answered"]
  /\ LET got == [sample |-> IF Claimed(f) = {} THEN NoSample ELSE samples[Min(Claimed(f))],
                 alone  |-> Alone(f),
                 own    |-> Opened(f)]
     IN told' = [g \in DOMAIN told \union {f} |-> IF g = f THEN got ELSE told[g]]
  /\ samples' = [n \in DOMAIN samples \ Claimed(f) |-> samples[n]]
  /\ UNCHANGED <<now, conn, logged>>

TimingsNext ==
  \/ Tick
  \/ \E f \in Flows :
       \/ \E h \in Hosts : Start(f, h)
       \/ Connect(f) \/ Resolve(f) \/ Dial(f) \/ Establish(f) \/ Fail(f)
       \/ \E g \in Flows : Pooled(f, g)
       \/ Abandon(f) \/ Respond(f)

TimingsSpec == TimingsInit /\ [][TimingsNext]_timingsVars

------------------------------------------------------------------------------
(* A handshake is charged to one flow at most, and a flow that was alone   *)
(* at its host is charged for the connection it opened or for none,        *)
(* however many connects to other places ran and failed beside it: what is *)
(* left of abandoned flows is never taken for its own.  A flow's own is    *)
(* its to claim unless another flow to the host is answered first          *)
(* (timing.rs record and claim).                                           *)
HandshakeOfItsOpener ==
  \A f \in DOMAIN told :
    LET s == told[f].sample
    IN /\ s.of # 0 => \A g \in DOMAIN told \ {f} : told[g].sample.of # s.of
       /\ told[f].alone => s.of \in {0, f}
       /\ told[f].alone /\ told[f].own => s.of = f

(* The phases of a connect are of that connect: they follow one another    *)
(* and end when it does, with other connects to the host in between, and   *)
(* there is one for the name if there was a name to resolve and one for    *)
(* the handshake if there was one (timing.rs PARTIAL, split_phases).       *)
PhasesAddUp ==
  \A n \in DOMAIN samples :
    LET s == samples[n]
        c == conn[s.of]
    IN /\ s.connect \in Nat
       /\ s.at + Resolving(s.dns) + s.connect = c.split
       /\ s.dns # None <=> ~request[s.of].host.literal
       /\ s.tls # None <=> request[s.of].host.tls
==============================================================================
