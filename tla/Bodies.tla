------------------------------- MODULE Bodies -------------------------------
(***************************************************************************)
(* Captured bodies: the tasks that capture them (BodyCapture), the spill   *)
(* files and their budget (BodyStore, bodystore.rs), the flows whose       *)
(* bodies they are, and what reading a body back answers (commands.rs).    *)
(*                                                                         *)
(* A body is told by how much of it is where: what is kept of it is always *)
(* a prefix.  File contents reach the disk late, when a buffer is written  *)
(* out, and a file that is deleted while it is open goes on as nobody's.   *)
(***************************************************************************)
EXTENDS Integers, Sequences

CONSTANTS Ids,          \* flow ids; each is captured once
          Sides,        \* halves of an exchange whose bodies are captured
          MaxFlows,     \* the retention window
          InlineCap,    \* inline_cap
          PerBodyCap,   \* per_body_cap
          DiskBudget,   \* disk_budget
          MaxRead,      \* MAX_READ_BODY, less than the cap of a body
          ExportBody,   \* EXPORT_BODY, likewise
          Chunks,       \* bound: sizes of streamed chunks
          MaxBody,      \* bound: size of a whole body
          MaxFaults,    \* bound: disk operations that fail
          MaxClears     \* bound: times the user clears

ASSUME BodiesAssumption ==
  /\ MaxFlows \in Nat \ {0}
  /\ {InlineCap, DiskBudget, MaxBody, MaxFaults, MaxClears} \subseteq Nat
  /\ PerBodyCap \in Nat /\ PerBodyCap >= InlineCap
  /\ {MaxRead, ExportBody} \subseteq 0..(PerBodyCap - 1)
  /\ Chunks \subseteq Nat \ {0}

VARIABLES
  log,       \* the flow store: data is the preview of each side
  leaving,   \* flows out of the store whose bodies are still to be deleted
  captures,  \* the capture of each body
  disk,      \* spill files there are: path -> bytes on disk
  files,     \* DiskState.files, oldest first
  used,      \* DiskState.used
  faults, clears

vars == <<log, leaving, captures, disk, files, used, faults, clears>>

Paths == Ids \X Sides

Store == INSTANCE RetentionWindow WITH Data <- [Sides -> {}]

NoBody == [total |-> 0, len |-> 0, truncated |-> FALSE, spilled |-> FALSE, there |-> FALSE]
NoCapture == [at |-> "none", total |-> 0, written |-> 0, open |-> FALSE, path |-> TRUE,
              spilled |-> FALSE]

Least(a, b) == IF a < b THEN a ELSE b

Inline(n) == Least(n, InlineCap)

Total(fs) ==
  LET sum[n \in 0..Len(fs)] == IF n = 0 THEN 0 ELSE sum[n - 1] + fs[n].len
  IN sum[Len(fs)]

Init ==
  /\ Store!Init
  /\ leaving = {}
  /\ captures = [p \in Paths |-> NoCapture]
  /\ disk = [p \in {} |-> 0]
  /\ files = <<>> /\ used = 0
  /\ faults = 0 /\ clears = 0

------------------------------------------------------------------------------
(* Files. *)

Without(d, S) == [p \in DOMAIN d \ S |-> d[p]]

(* File::create makes the file, empty, or empties the one there is. *)
Created(p, n) == [q \in DOMAIN disk \union {p} |-> IF q = p THEN n ELSE disk[q]]

(* What the disk may show once n bytes have been written to the buffer of  *)
(* an open file: all of them, or what it showed before.                    *)
Buffered(p, n) ==
  IF p \in DOMAIN disk THEN {disk, [disk EXCEPT ![p] = n]} ELSE {disk}

(* Mutant: the file is counted before it is written out. *)
FlushedLate(p, n) == disk

Flushed(p, n) == IF p \in DOMAIN disk THEN [disk EXCEPT ![p] = n] ELSE disk

Fault == faults < MaxFaults /\ faults' = faults + 1

------------------------------------------------------------------------------
(* The flow store. *)

(* A new flow; what the window drops still has its bodies. *)
Insert(id) ==
  /\ id \notin Store!Logged /\ id \notin leaving
  /\ \A s \in Sides : captures[<<id, s>>].at = "none"
  /\ Store!Insert([id |-> id, data |-> [s \in Sides |-> NoBody]])
  /\ captures' = [p \in Paths |-> IF p[1] = id THEN [NoCapture EXCEPT !.at = "streaming"]
                                               ELSE captures[p]]
  /\ leaving' = leaving \union (Store!Logged \ {log'[i].id : i \in DOMAIN log'})
  /\ UNCHANGED <<disk, files, used, faults, clears>>

Clear ==
  /\ clears < MaxClears
  /\ clears' = clears + 1
  /\ leaving' = leaving \union Store!Logged
  /\ Store!Clear
  /\ UNCHANGED <<captures, disk, files, used, faults>>

(* The entries that are not a flow's, in their order. *)
OfOthers(fs, id) ==
  LET kept[n \in 0..Len(fs)] ==
        IF n = 0 THEN <<>>
        ELSE IF fs[n].path[1] = id THEN kept[n - 1] ELSE Append(kept[n - 1], fs[n])
  IN kept[Len(fs)]

(* Mutant: the entries of the deleted files stay in the accounts. *)
RemoveFlowUncounted(id) ==
  /\ id \in leaving
  /\ leaving' = leaving \ {id}
  /\ files' = OfOthers(files, id)
  /\ disk' = Without(disk, {id} \X Sides)
  /\ UNCHANGED <<log, captures, used, faults, clears>>

(* Mutant: the entries go and the files stay. *)
RemoveFlowOffTheBooks(id) ==
  /\ id \in leaving
  /\ leaving' = leaving \ {id}
  /\ files' = OfOthers(files, id)
  /\ used' = used - (Total(files) - Total(OfOthers(files, id)))
  /\ UNCHANGED <<log, captures, disk, faults, clears>>

(* BodyStore::remove_flow *)
RemoveFlow(id) ==
  LET kept == OfOthers(files, id)
  IN /\ id \in leaving
     /\ leaving' = leaving \ {id}
     /\ files' = kept
     /\ used' = used - (Total(files) - Total(kept))
     /\ disk' = Without(disk, {id} \X Sides)
     /\ UNCHANGED <<log, captures, faults, clears>>

------------------------------------------------------------------------------
(* BodyCapture::push of a chunk of n bytes, by what happens to it. *)

Streaming(p, n) == captures[p].at = "streaming" /\ captures[p].total + n <= MaxBody

Grow(p, n, c) == captures' = [captures EXCEPT ![p] = [c EXCEPT !.total = @ + n]]

Outgrown(p, n) == captures[p].path /\ ~captures[p].open /\ captures[p].total + n > InlineCap

(* The body still fits the preview, or its spill was given up. *)
PushInline(p, n) ==
  /\ Streaming(p, n)
  /\ ~captures[p].open /\ ~Outgrown(p, n)
  /\ Grow(p, n, captures[p])
  /\ UNCHANGED <<log, leaving, disk, files, used, faults, clears>>

CreateFails(p, n) ==
  /\ Streaming(p, n) /\ Outgrown(p, n)
  /\ Fault
  /\ Grow(p, n, [captures[p] EXCEPT !.path = FALSE])
  /\ UNCHANGED <<log, leaving, disk, files, used, clears>>

(* The preview cannot be written: the next chunk will try again. *)
PreviewFails(p, n) ==
  /\ Streaming(p, n) /\ Outgrown(p, n)
  /\ Fault
  /\ disk' = Created(p, 0)
  /\ Grow(p, n, captures[p])
  /\ UNCHANGED <<log, leaving, files, used, clears>>

(* chunk.len() - (total - inline.len()): how much of the chunk is inline.  *)
OfChunkInline(p, n) == n - (captures[p].total + n - Inline(captures[p].total + n))

(* Preview and the rest of the chunk are in the file, up to the cap. *)
Open(p, n) ==
  LET w == Least(captures[p].total + n, PerBodyCap)
  IN /\ Streaming(p, n) /\ Outgrown(p, n)
     /\ OfChunkInline(p, n) >= 0
     /\ disk' \in {Created(p, 0), Created(p, w)}
     /\ Grow(p, n, [captures[p] EXCEPT !.open = TRUE, !.written = w])
     /\ UNCHANGED <<log, leaving, files, used, faults, clears>>

(* The preview is written and the rest of the chunk is not: given up. *)
OpenCutShort(p, n) ==
  /\ Streaming(p, n) /\ Outgrown(p, n)
  /\ OfChunkInline(p, n) >= 0
  /\ InlineCap < PerBodyCap
  /\ Fault
  /\ disk' \in {Created(p, 0), Created(p, InlineCap)}
  /\ Grow(p, n, [captures[p] EXCEPT !.path = FALSE])
  /\ UNCHANGED <<log, leaving, files, used, clears>>

(* The subtraction has no answer and the capturing task dies. *)
OpenPanics(p, n) ==
  /\ Streaming(p, n) /\ Outgrown(p, n)
  /\ OfChunkInline(p, n) < 0
  /\ disk' = Created(p, InlineCap)
  /\ captures' = [captures EXCEPT ![p].at = "panicked"]
  /\ UNCHANGED <<log, leaving, files, used, faults, clears>>

Write(p, n) ==
  LET w == Least(captures[p].written + n, PerBodyCap)
  IN /\ Streaming(p, n) /\ captures[p].open
     /\ disk' \in Buffered(p, w)
     /\ Grow(p, n, [captures[p] EXCEPT !.written = w])
     /\ UNCHANGED <<log, leaving, files, used, faults, clears>>

(* The spill is given up; the file stays as it is. *)
WriteFails(p, n) ==
  /\ Streaming(p, n) /\ captures[p].open
  /\ captures[p].written < PerBodyCap
  /\ Fault
  /\ disk' \in Buffered(p, captures[p].written)
  /\ Grow(p, n, [captures[p] EXCEPT !.open = FALSE, !.path = FALSE])
  /\ UNCHANGED <<log, leaving, files, used, clears>>

Push(p, n) == \/ PushInline(p, n) \/ CreateFails(p, n) \/ PreviewFails(p, n)
              \/ Open(p, n) \/ OpenCutShort(p, n) \/ OpenPanics(p, n)
              \/ Write(p, n) \/ WriteFails(p, n)

------------------------------------------------------------------------------
(* BodyCapture::finish and BodyStore::register. *)

(* How many of the oldest files go until the rest fits the budget. *)
Dropped(fs, sum) ==
  CHOOSE k \in 0..Len(fs) :
    /\ sum - Total(SubSeq(fs, 1, k)) <= DiskBudget \/ k = Len(fs)
    /\ \A j \in 0..(k - 1) : sum - Total(SubSeq(fs, 1, j)) > DiskBudget

Finished(p, spilled) ==
  captures' = [captures EXCEPT ![p] = [@ EXCEPT !.at = "finished", !.open = FALSE,
                                                !.spilled = spilled]]

FinishInline(p) ==
  /\ captures[p].at = "streaming" /\ ~captures[p].open
  /\ Finished(p, FALSE)
  /\ UNCHANGED <<log, leaving, disk, files, used, faults, clears>>

FlushFails(p) ==
  /\ captures[p].at = "streaming" /\ captures[p].open
  /\ Fault
  /\ Finished(p, FALSE)
  /\ UNCHANGED <<log, leaving, disk, files, used, clears>>

(* The file is flushed and counted, and the oldest files make room. *)
FinishSpilled(p) ==
  LET fs  == Append(files, [path |-> p, len |-> captures[p].written])
      sum == used + captures[p].written
      k   == Dropped(fs, sum)
      out == {fs[i].path : i \in 1..k}
  IN /\ captures[p].at = "streaming" /\ captures[p].open
     /\ Finished(p, TRUE)
     /\ files' = SubSeq(fs, k + 1, Len(fs))
     /\ used' = sum - Total(SubSeq(fs, 1, k))
     /\ disk' = Without(Flushed(p, captures[p].written), out)
     /\ UNCHANGED <<log, leaving, faults, clears>>

Folded(c) ==
  [total |-> c.total, len |-> Inline(c.total), truncated |-> c.total > InlineCap,
   spilled |-> c.spilled, there |-> TRUE]

(* The preview joins its flow, if the store still has it. *)
Fold(p) ==
  /\ captures[p].at = "finished"
  /\ captures' = [captures EXCEPT ![p].at = "folded"]
  /\ IF p[1] \in Store!Logged
       THEN Store!Update([id |-> p[1],
                          data |-> [Store!At(p[1]) EXCEPT ![p[2]] = Folded(captures[p])]])
       ELSE UNCHANGED log
  /\ UNCHANGED <<leaving, disk, files, used, faults, clears>>

------------------------------------------------------------------------------
Next ==
  \/ \E id \in Ids : Insert(id) \/ RemoveFlow(id)
  \/ Clear
  \/ \E p \in Paths : \/ \E n \in Chunks : Push(p, n)
                      \/ FinishInline(p) \/ FlushFails(p) \/ FinishSpilled(p)
                      \/ Fold(p)

Spec == Init /\ [][Next]_vars

------------------------------------------------------------------------------
(* Bodies that have been folded into a flow that is still there. *)
Listed == {p \in Paths : p[1] \in Store!Logged /\ Store!At(p[1])[p[2]].there}

Preview(p) == Store!At(p[1])[p[2]]

(* What the flow itself can answer with. *)
Held(p) == [len |-> Preview(p).len, size |-> Preview(p).total, truncated |-> Preview(p).truncated]

(* Mutant: what a read cuts off is not flagged. *)
StoreReadUnflagged(p, max) ==
  [len |-> Least(disk[p], max), size |-> disk[p], truncated |-> FALSE]

(* BodyStore::read, of a file that is there. *)
StoreRead(p, max) ==
  [len |-> Least(disk[p], max), size |-> disk[p], truncated |-> disk[p] > max]

(* read_body_from: the file if there is one, else the flow's own preview.  *)
ReadBody(p) == IF p \in DOMAIN disk THEN StoreRead(p, MaxRead) ELSE Held(p)

(* fill_spilled, for an export: a spilled body, or the preview for want of it. *)
Exported(p) ==
  IF Preview(p).spilled /\ Preview(p).truncated /\ p \in DOMAIN disk
    THEN StoreRead(p, ExportBody) ELSE Held(p)

(* body_out: what is answered is cut to so many characters, and says so. *)
BodyOut(body, chars) ==
  [body EXCEPT !.len = Least(@, chars), !.truncated = @ \/ body.len > chars]

(* get_body of the MCP server: what comes from the store is built as a cut *)
(* preview, whatever its length.                                           *)
AgentRead(p, chars) ==
  BodyOut(IF Preview(p).spilled /\ p \in DOMAIN disk
            THEN [StoreRead(p, 4 * chars) EXCEPT !.truncated = TRUE] ELSE Held(p),
          chars)

(* hydrate_request_body: how much of a retained flow's body is sent again. *)
Replayed(p) == IF Preview(p).spilled /\ Preview(p).truncated
                 THEN ReadBody(p).len ELSE Preview(p).len

Registered(p) == \E i \in DOMAIN files : files[i].path = p

(* The accounts of the disk budget balance and the budget is kept, through *)
(* captures, evictions of files and deletions of flows in any order.       *)
BudgetKept == used = Total(files) /\ used <= DiskBudget

(* The accounts cover what is there: each finished file on the disk is     *)
(* counted at the bytes it has, as long as the disk does not fail, though  *)
(* its flow may have left the store while it was written.  So the files    *)
(* stay within the budget that the count is kept to.                       *)
DiskIsAccounted ==
  faults = 0 =>
    \A p \in DOMAIN disk : captures[p].at \in {"finished", "folded"} =>
      \E i \in DOMAIN files : files[i] = [path |-> p, len |-> disk[p]]

(* What is counted for a flow that is still there is really on the disk,   *)
(* complete up to the cap, whatever failed on the way.                     *)
SpilledIsStored ==
  \A p \in Listed : (Preview(p).spilled /\ Registered(p)) =>
    p \in DOMAIN disk /\ disk[p] = Least(Preview(p).total, PerBodyCap)

(* A body that is answered in part is flagged as cut, to the page, to an   *)
(* export and to an agent, whatever was evicted, deleted or still being    *)
(* written: none must "pass off a truncated body as the whole thing"       *)
(* (commands.rs:297-298, 359-378, mcp.rs get_body).  The page reads a file *)
(* whether or not its capture ended well, and takes what a spill given up  *)
(* half way left for all of it, so for the page the disk has to work.      *)
Honest(p, answer) == answer.len < Preview(p).total => answer.truncated

ReadIsHonest ==
  \A p \in Listed : /\ faults = 0 => Honest(p, ReadBody(p))
                    /\ Honest(p, Exported(p))
                    /\ \A chars \in 0..MaxBody : Honest(p, AgentRead(p, chars))

------------------------------------------------------------------------------
(* What the repository's comments say and the code does not do: TLC finds  *)
(* a behaviour that breaks each property below.                          *)

(* "the returned preview reports the true size and flags the truncation"   *)
(* (commands.rs:241-242).                                                  *)
ReadReportsSize == \A p \in Listed : ReadBody(p).size = Preview(p).total

(* "Replaying either must still send the body that was captured"           *)
(* (commands.rs:1000): of a body that spilled, all that is on the disk.    *)
ReplaySendsAll ==
  \A p \in Listed : Preview(p).total <= PerBodyCap => Replayed(p) = Preview(p).total

(* "Nothing on disk: the body was small enough to stay inline, so the copy *)
(* the retained flow carries is the whole body" (commands.rs:290-291).     *)
NothingStoredIsWhole ==
  \A p \in Listed : p \notin DOMAIN disk => Preview(p).len = Preview(p).total

(* "evicting a flow also deletes its spilled bodies" (flowstore.rs:8-9):   *)
(* once all captures and deletions are through, no file is nobody's.       *)
NoOrphans ==
  (leaving = {} /\ \A p \in Paths : captures[p].at \in {"none", "folded", "panicked"})
    => \A p \in DOMAIN disk : p[1] \in Store!Logged

(* The retry of a spill is what the first try would have been: the file    *)
(* opens "the moment the body outgrows the preview" with the bytes already *)
(* inline (bodystore.rs:265-267), and the capture goes on.                 *)
CaptureSurvives == \A p \in Paths : captures[p].at # "panicked"
==============================================================================
