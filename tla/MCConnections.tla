---------------------------- MODULE MCConnections ----------------------------
(* WebSocket frames and connection timings on small instances.  The two    *)
(* share no state in the code, so a behaviour is of one or of the other.   *)
EXTENDS Sockets, Timings, TLC

VARIABLE focus

Way      == Permutations(Directions)
Sites    == {[name |-> "a", tls |-> TRUE, literal |-> FALSE],
             [name |-> "b", tls |-> FALSE, literal |-> TRUE]}

(* Sockets that are under way, and a list that is full of them. *)
Listing ==
  LET open == 1..ListCap
  IN /\ sockets = [s \in open |-> [place |-> s, open |-> TRUE]]
     /\ ended = [s \in Socket |-> {}]
     /\ routes = [p \in open |-> p]
     /\ flow = [s \in Socket |-> IF s \in open THEN "pending" ELSE "none"]
     /\ numbered = NoCounts
     /\ hand = [s \in Socket |-> [d \in Directions |-> AtRest]]
     /\ stream = EmptyBatch /\ taken = NotTaken /\ page = EmptyBatch
     /\ list = [n \in open |-> [id |-> ListCap + 1 - n, state |-> "pending"]]
     /\ shown = [s \in {} |-> <<>>]
     /\ lost = NoCounts
     /\ evicted = {}

Init == \/ focus = "sockets" /\ SocketsInit /\ TimingsInit
        \/ focus = "list" /\ Listing /\ TimingsInit
        \/ focus = "timings" /\ SocketsInit /\ TimingsInit

(* From the start, the sockets are those at one place that fit the list. *)
Within == \A s \in DOMAIN sockets : s <= ListCap /\ sockets[s].place = 1

(* Around the full list, frames are small and in hand one at a time. *)
Small == \A s, t \in Socket, d, e \in Directions :
           /\ hand[s][d].frame.size <= 1
           /\ hand[s][d].at # "idle" /\ hand[t][e].at # "idle" => <<s, d>> = <<t, e>>

Next == \/ focus = "sockets" /\ SocketsNext /\ Within' /\ UNCHANGED <<focus, timingsVars>>
        \/ focus = "list" /\ SocketsNext /\ Small' /\ UNCHANGED <<focus, timingsVars>>
        \/ focus = "timings" /\ TimingsNext /\ UNCHANGED <<focus, socketsVars>>

Spec == Init /\ [][Next]_<<focus, socketsVars, timingsVars>>
==============================================================================
