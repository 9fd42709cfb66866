--------------------------- MODULE RetentionWindow ---------------------------
(***************************************************************************)
(* What the flow store promises its callers, with none of its machinery:   *)
(* one log of captured flows, oldest first, no id in it twice, never       *)
(* longer than the window.  A new flow goes to the end and pushes the      *)
(* oldest out, a known flow changes where it stands, and only Clear takes  *)
(* anything else away.  FlowStore is shown to implement this module, and   *)
(* the modules of the store's callers use it as their store.               *)
(***************************************************************************)
EXTENDS Naturals, Sequences

CONSTANTS Ids,       \* flow ids
          Data,      \* what a flow says
          MaxFlows   \* the retention window

VARIABLE log         \* sequence of [id, data], oldest first

Entry == [id : Ids, data : Data]

Logged == {log[i].id : i \in DOMAIN log}

Place(id) == CHOOSE i \in DOMAIN log : log[i].id = id

At(id) == log[Place(id)].data

(* The newest MaxFlows entries of a log. *)
Window(s) == SubSeq(s, IF Len(s) > MaxFlows THEN Len(s) - MaxFlows + 1 ELSE 1, Len(s))

Init == log = <<>>

(* A known id keeps its place: its age does not change with its contents. *)
Changed(e) == [i \in DOMAIN log |-> IF log[i].id = e.id THEN e ELSE log[i]]

(* FlowStore::insert *)
Insert(e) == log' = IF e.id \in Logged THEN Changed(e) ELSE Window(Append(log, e))

(* FlowStore::update; an unknown id is skipped. *)
Update(e) == log' = Changed(e)

(* FlowStore::clear *)
Clear == log' = <<>>

Next == \/ \E e \in Entry : Insert(e) \/ Update(e)
        \/ Clear

Spec == Init /\ [][Next]_log
==============================================================================
