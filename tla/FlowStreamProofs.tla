-------------------------- MODULE FlowStreamProofs --------------------------
(***************************************************************************)
(* That a flow captured reaches the page, and that the page shows what the *)
(* store holds of it, for any number of tasks, flows, changes, clears and  *)
(* page loads, every window and every size of message.                     *)
(***************************************************************************)
EXTENDS FlowStream, SequenceTheorems, WellFoundedInduction, NaturalsInduction, TLAPS

Shots == [id : Seqs, data : Nat]

IdsOf(s) == {s[n].id : n \in 1..Len(s)}
Distinct(s) == \A m, n \in 1..Len(s) : s[m].id = s[n].id => m = n

(* A queue and its index are one.                                          *)
Sound(st) ==
  /\ st.q \in Seq(Shots)
  /\ DOMAIN st.at = IdsOf(st.q)
  /\ \A i \in DOMAIN st.at : st.at[i] \in 1..Len(st.q) /\ st.q[st.at[i]].id = i
  /\ \A n \in 1..Len(st.q) : st.at[st.q[n].id] = n

Shows(st, i) == st.q[st.at[i]].data

Phases == {"idle", "new", "emit"}
Ops    == {"bind", "pause", "resume", "clear"}

StreamTypes ==
  /\ channel \in Nat /\ takenFor \in Nat /\ lastSeq \in Nat
  /\ Sound(Stands)
  /\ taken \in Seq(Shots) /\ Distinct(taken)
  /\ taken # <<>> => takenFor # 0
  /\ takenFor <= channel

(* A pause notes the flows it has seen change, and only those emitted      *)
(* before it.                                                              *)
PauseNotes ==
  /\ paused \in [on : BOOLEAN, through : Nat, changed : Seq(Seqs), seen : SUBSET Seqs]
  /\ paused.seen = {paused.changed[n] : n \in 1..Len(paused.changed)}
  /\ paused.through <= lastSeq
  /\ \A i \in paused.seen : i <= paused.through

StoreTypes == log \in Seq(Shots) /\ Distinct(log)

HeldTypes == holding \in [Tasks -> [at : Phases, id : Seqs \union {0}, data : Nat]]
             /\ \A t \in Tasks : holding[t].at # "idle" => holding[t].id \in Seqs

PageTypes ==
  /\ clock \in Nat /\ nextSeq \in Nat /\ clears \in Nat
  /\ page \in Nat \ {0} /\ channel <= page
  /\ DOMAIN uiQueue \subseteq Seqs /\ DOMAIN list \subseteq Seqs
  /\ cmds \in Seq([op : Ops, page : Nat])

(* Pages bind one after the other, the page that is loaded the last.       *)
BindsInOrder ==
  /\ \A n \in 1..Len(cmds) :
       cmds[n].op = "bind" => channel < cmds[n].page /\ cmds[n].page <= page
  /\ \A m, n \in 1..Len(cmds) :
       m < n /\ cmds[m].op = "bind" /\ cmds[n].op = "bind" => cmds[m].page < cmds[n].page

(* Nothing is cleared that the page did not ask for.                       *)
ClearsAsked ==
  clears = 0 => ~clearing /\ \A n \in 1..Len(cmds) : cmds[n].op # "clear"

Base == /\ StreamTypes /\ PauseNotes /\ StoreTypes /\ HeldTypes /\ PageTypes
        /\ BindsInOrder /\ ClearsAsked

(* A retained flow is on its way to the list, on it, or rightly missing.   *)
InHand(i) == \E t \in Tasks : holding[t].at = "emit" /\ holding[t].id = i

Noted(i) == paused.on /\ i \in paused.seen

Underway(i) ==
  channel = page /\ (\/ Noted(i) \/ i \in DOMAIN slot
                     \/ takenFor = page /\ i \in IdsOf(taken))

Found(i) == \/ i \in missed \/ InHand(i) \/ Underway(i)
            \/ i \in DOMAIN uiQueue \/ i \in DOMAIN list

Accounted == clears = 0 => \A i \in Store!Logged : Found(i)

(* What is on its way was emitted while the stream was not paused, and the *)
(* first page has nothing before it has the channel.                       *)
OnItsWay == DOMAIN slot \union IdsOf(taken) \union DOMAIN uiQueue \union DOMAIN list

Heard ==
  /\ \A i \in OnItsWay : i <= lastSeq /\ (paused.on => i <= paused.through)
  /\ channel = 0 => OnItsWay = {} /\ paused.seen = {}

(* The snapshot in hand is the newest unless tasks contend for the flow.   *)
Apart ==
  \A t, u \in Tasks :
    holding[t].at = "emit" /\ holding[u].at = "emit" /\ holding[t].id = holding[u].id => t = u

HandIsNewest ==
  \A t \in Tasks :
    holding[t].at = "emit" /\ holding[t].id \in Store!Logged => holding[t].data = Store!At(holding[t].id)

(* Of the snapshots of a flow on their way the last is the newest.         *)
LastIsNewest(i) ==
  IF i \in DOMAIN slot THEN Shows(Stands, i) = Store!At(i)
  ELSE IF i \in IdsOf(taken)
    THEN \A n \in 1..Len(taken) : taken[n].id = i => taken[n].data = Store!At(i)
  ELSE IF i \in DOMAIN uiQueue THEN uiQueue[i] = Store!At(i)
  ELSE i \in DOMAIN list => list[i] = Store!At(i)

NewestArrives ==
  Undisturbed => \A i \in Store!Logged : InHand(i) \/ Noted(i) \/ LastIsNewest(i)

Fresh == Heard /\ HandIsNewest /\ NewestArrives

------------------------------------------------------------------------------
(* Queueing.                                                               *)

LEMMA EnqueueFacts ==
  ASSUME NEW st, st = [q |-> st.q, at |-> st.at], Sound(st), NEW f \in Shots,
         NEW r, r = Enqueue(st, f)
  PROVE  /\ Sound(r) /\ r = [q |-> r.q, at |-> r.at]
         /\ DOMAIN r.at = DOMAIN st.at \union {f.id}
         /\ Shows(r, f.id) = f.data
         /\ \A i \in DOMAIN st.at : i # f.id => Shows(r, i) = Shows(st, i)
<1> DEFINE q == st.q
           at == st.at
<1>1. /\ q \in Seq(Shots) /\ Len(q) \in Nat /\ DOMAIN at = IdsOf(q)
      /\ \A i \in DOMAIN at : at[i] \in 1..Len(q) /\ q[at[i]].id = i
      /\ \A n \in 1..Len(q) : at[q[n].id] = n
  BY DEF Sound
<1>2. \A n \in 1..Len(q) : q[n].id \in DOMAIN at
  BY <1>1 DEF IdsOf
<1>3. CASE f.id \in DOMAIN at
  <2> DEFINE k == at[f.id]
  <2>1. r = [st EXCEPT !.q[k] = f]
    BY <1>3 DEF Enqueue
  <2>2. r.q = [q EXCEPT ![k] = f] /\ r.at = at /\ r = [q |-> r.q, at |-> r.at]
    BY <2>1
  <2>3. k \in 1..Len(q) /\ q[k].id = f.id
    BY <1>1, <1>3
  <2>4. /\ r.q \in Seq(Shots) /\ Len(r.q) = Len(q)
        /\ \A n \in 1..Len(q) : r.q[n] = IF n = k THEN f ELSE q[n]
    BY <1>1, <2>2, <2>3
  <2>5. \A n \in 1..Len(q) : r.q[n].id = q[n].id
    BY <2>3, <2>4
  <2> HIDE DEF k
  <2>6. IdsOf(r.q) = IdsOf(q)
    BY <2>4, <2>5 DEF IdsOf
  <2>7. Sound(r)
    <3>1. \A i \in DOMAIN at : r.q[at[i]].id = i
      BY <1>1, <2>5
    <3>2. \A n \in 1..Len(q) : at[r.q[n].id] = n
      BY <1>1, <2>5
    <3> QED BY <1>1, <2>2, <2>4, <2>6, <3>1, <3>2 DEF Sound
  <2>8. \A i \in DOMAIN at : i # f.id => at[i] # k
    BY <1>1, <2>3
  <2>9. Shows(r, f.id) = f.data
    BY <2>2, <2>3, <2>4 DEF Shows, k
  <2>10. \A i \in DOMAIN at : i # f.id => Shows(r, i) = Shows(st, i)
    BY <1>1, <2>2, <2>4, <2>8 DEF Shows
  <2> QED BY <1>3, <2>2, <2>7, <2>9, <2>10
<1>4. CASE f.id \notin DOMAIN at
  <2>1. /\ r.q = Append(q, f) /\ r = [q |-> r.q, at |-> r.at]
        /\ r.at = [i \in DOMAIN at \union {f.id} |-> IF i = f.id THEN Len(q) + 1 ELSE at[i]]
    BY <1>4 DEF Enqueue
  <2>2. /\ r.q \in Seq(Shots) /\ Len(r.q) = Len(q) + 1 /\ r.q[Len(q) + 1] = f
        /\ \A n \in 1..Len(q) : r.q[n] = q[n]
    BY <1>1, <2>1
  <2>3. IdsOf(r.q) = IdsOf(q) \union {f.id}
    <3>1. 1..Len(r.q) = 1..Len(q) \union {Len(q) + 1}
      BY <1>1, <2>2
    <3> QED BY <2>2, <3>1 DEF IdsOf
  <2>4. Sound(r)
    <3>1. DOMAIN r.at = IdsOf(r.q)
      BY <1>1, <2>1, <2>3
    <3>2. \A i \in DOMAIN r.at : r.at[i] \in 1..Len(r.q) /\ r.q[r.at[i]].id = i
      BY <1>1, <1>4, <2>1, <2>2
    <3>3. \A n \in 1..Len(r.q) : r.at[r.q[n].id] = n
      <4>1. \A n \in 1..Len(q) : r.at[q[n].id] = n
        BY <1>1, <1>2, <1>4, <2>1
      <4>2. r.at[f.id] = Len(q) + 1
        BY <2>1
      <4>3. 1..Len(r.q) = 1..Len(q) \union {Len(q) + 1}
        BY <1>1, <2>2
      <4> HIDE DEF q, at
      <4> QED BY <2>2, <4>1, <4>2, <4>3
    <3> QED BY <2>2, <3>1, <3>2, <3>3 DEF Sound
  <2>5. Shows(r, f.id) = f.data
    BY <2>1, <2>2 DEF Shows
  <2>6. \A i \in DOMAIN at : i # f.id => Shows(r, i) = Shows(st, i)
    BY <1>1, <2>1, <2>2 DEF Shows
  <2> QED BY <2>1, <2>4, <2>5, <2>6
<1> QED BY <1>3, <1>4

(* The queue as resume fills it, flow by flow.                             *)
Refilling(st, last, changed, current) ==
  st = [n \in 0..last |-> IF n = 0 THEN Stands ELSE Refreshed(st[n - 1], changed[n], current)]

LEMMA RefreshingExists ==
  ASSUME NEW current, NEW changed, NEW last \in Nat
  PROVE  \E st : Refilling(st, last, changed, current)
<1> DEFINE first == Stands
<1> HIDE DEF first
<1> DEFINE Is(st, k) == st = [n \in 0..k |-> IF n = 0 THEN first
                                              ELSE Refreshed(st[n - 1], changed[n], current)]
           S == {k \in Nat : ~ \E st : Is(st, k)}
<1>1. ASSUME S # {} PROVE FALSE
  <2>1. PICK k \in S : \A m \in S : <<m, k>> \notin OpToRel(<, Nat)
    <3>1. IsWellFoundedOn(OpToRel(<, Nat), Nat)
      BY NatLessThanWellFounded
    <3>2. S \subseteq Nat
      OBVIOUS
    <3> HIDE DEF S
    <3> QED BY <1>1, <3>1, <3>2, WFMin
  <2>2. k \in Nat /\ ~ \E st : Is(st, k)
    OBVIOUS
  <2>3. k # 0
    <3> SUFFICES ASSUME k = 0 PROVE FALSE
      OBVIOUS
    <3> DEFINE st == [n \in 0..0 |-> first]
    <3>1. st = [n \in 0..0 |-> IF n = 0 THEN first ELSE Refreshed(st[n - 1], changed[n], current)]
      OBVIOUS
    <3> HIDE DEF st
    <3> QED BY <2>2, <3>1
  <2>4. k - 1 \in Nat /\ k - 1 < k
    BY <2>2, <2>3
  <2>5. k - 1 \notin S
    BY <2>1, <2>2, <2>4 DEF OpToRel
  <2>6. PICK st : Is(st, k - 1)
    BY <2>4, <2>5
  <2> DEFINE longer == [n \in 0..k |-> IF n = k THEN Refreshed(st[k - 1], changed[k], current) ELSE st[n]]
  <2>7. \A n \in 0..(k - 1) : longer[n] = st[n]
    BY <2>2
  <2>8. \A n \in 0..k : longer[n] = IF n = 0 THEN first
                                     ELSE Refreshed(longer[n - 1], changed[n], current)
    <3> SUFFICES ASSUME NEW n \in 0..k
                 PROVE  longer[n] = IF n = 0 THEN first
                                      ELSE Refreshed(longer[n - 1], changed[n], current)
      OBVIOUS
    <3>1. CASE n = k
      <4>1. longer[n] = Refreshed(st[k - 1], changed[k], current)
        BY <3>1
      <4>2. longer[n - 1] = st[k - 1]
        BY <2>4, <2>7, <3>1
      <4> HIDE DEF longer
      <4> QED BY <2>3, <3>1, <4>1, <4>2
    <3>2. CASE n # k
      <4>1. n \in 0..(k - 1)
        BY <2>2, <3>2
      <4>2. st[n] = IF n = 0 THEN first ELSE Refreshed(st[n - 1], changed[n], current)
        BY <2>6, <4>1
      <4>3. longer[n] = st[n]
        BY <2>7, <4>1
      <4>4. n # 0 => longer[n - 1] = st[n - 1]
        <5>1. n # 0 => n - 1 \in 0..(k - 1)
          BY <2>4, <4>1
        <5> QED BY <2>7, <5>1
      <4> HIDE DEF longer
      <4> QED BY <4>2, <4>3, <4>4
    <3> QED BY <3>1, <3>2
  <2>9. Is(longer, k)
    <3>1. longer = [n \in 0..k |-> longer[n]]
      OBVIOUS
    <3> HIDE DEF longer
    <3>2. [n \in 0..k |-> longer[n]] =
          [n \in 0..k |-> IF n = 0 THEN first ELSE Refreshed(longer[n - 1], changed[n], current)]
      BY <2>8
    <3> QED BY <3>1, <3>2
  <2> HIDE DEF longer
  <2> QED BY <2>2, <2>9
<1> HIDE DEF Is
<1>2. last \notin S => \E st : Is(st, last)
  OBVIOUS
<1>3. \E st : Is(st, last)
  <2> HIDE DEF S
  <2> QED BY <1>1, <1>2
<1> QED BY <1>3 DEF Is, Refilling, first

Redone(n, changed, current) == {changed[m] : m \in 1..n} \intersect DOMAIN current

Refilled(r, n, changed, current) ==
  /\ Sound(r) /\ r = [q |-> r.q, at |-> r.at]
  /\ DOMAIN r.at = DOMAIN slot \union Redone(n, changed, current)
  /\ \A i \in DOMAIN r.at :
       Shows(r, i) = IF i \in Redone(n, changed, current) THEN current[i] ELSE Shows(Stands, i)

LEMMA RefreshedFacts ==
  ASSUME NEW current, DOMAIN current \subseteq Seqs, \A i \in DOMAIN current : current[i] \in Nat,
         NEW changed \in Seq(Seqs), NEW n \in 1..Len(changed),
         NEW r, Refilled(r, n - 1, changed, current),
         NEW s, s = Refreshed(r, changed[n], current)
  PROVE  Refilled(s, n, changed, current)
<1> DEFINE i == changed[n]
           before == Redone(n - 1, changed, current)
           after == Redone(n, changed, current)
<1>1. 1..n = 1..(n - 1) \union {n}
  OBVIOUS
<1>2. after = before \union ({i} \intersect DOMAIN current)
  BY <1>1 DEF Redone
<1>3. CASE i \notin DOMAIN current
  <2>1. s = r /\ after = before
    BY <1>2, <1>3 DEF Refreshed
  <2> QED BY <2>1 DEF Refilled
<1>4. CASE i \in DOMAIN current
  <2> DEFINE f == [id |-> i, data |-> current[i]]
  <2>1. s = Enqueue(r, f) /\ f \in Shots /\ after = before \union {i}
    BY <1>2, <1>4 DEF Refreshed, Shots
  <2>2. f.id = i /\ f.data = current[i]
    OBVIOUS
  <2> HIDE DEF f, i, before, after
  <2>3. Sound(r) /\ r = [q |-> r.q, at |-> r.at] /\ DOMAIN r.at = DOMAIN slot \union before
    BY DEF Refilled, before
  <2>4. \A j \in DOMAIN r.at : Shows(r, j) = IF j \in before THEN current[j] ELSE Shows(Stands, j)
    BY DEF Refilled, before
  <2>5. /\ Sound(s) /\ s = [q |-> s.q, at |-> s.at] /\ DOMAIN s.at = DOMAIN r.at \union {f.id}
        /\ Shows(s, f.id) = f.data
        /\ \A j \in DOMAIN r.at : j # f.id => Shows(s, j) = Shows(r, j)
    BY <2>1, <2>3, EnqueueFacts
  <2>6. \A j \in DOMAIN s.at : Shows(s, j) = IF j \in after THEN current[j] ELSE Shows(Stands, j)
    BY <2>1, <2>2, <2>3, <2>4, <2>5
  <2>7. DOMAIN s.at = DOMAIN slot \union after
    BY <2>1, <2>2, <2>3, <2>5
  <2> QED BY <2>5, <2>6, <2>7 DEF Refilled, after
<1> QED BY <1>3, <1>4

LEMMA RefreshingFacts ==
  ASSUME Sound(Stands),
         NEW current, DOMAIN current \subseteq Seqs, \A i \in DOMAIN current : current[i] \in Nat,
         NEW changed \in Seq(Seqs),
         NEW st, Refilling(st, Len(changed), changed, current)
  PROVE  Refilled(st[Len(changed)], Len(changed), changed, current)
<1> DEFINE S == {n \in 0..Len(changed) : ~Refilled(st[n], n, changed, current)}
<1>0. Len(changed) \in Nat
  OBVIOUS
<1>1. ASSUME S # {} PROVE FALSE
  <2>1. PICK n \in S : \A m \in S : <<m, n>> \notin OpToRel(<, Nat)
    <3>1. IsWellFoundedOn(OpToRel(<, Nat), Nat)
      BY NatLessThanWellFounded
    <3>2. S \subseteq Nat
      BY <1>0
    <3> HIDE DEF S
    <3> QED BY <1>1, <3>1, <3>2, WFMin
  <2>2. n \in 0..Len(changed) /\ ~Refilled(st[n], n, changed, current)
    OBVIOUS
  <2>3. n # 0
    <3> SUFFICES ASSUME n = 0 PROVE FALSE
      OBVIOUS
    <3>1. st[0] = Stands
      BY <1>0 DEF Refilling
    <3>2. Redone(0, changed, current) = {}
      BY DEF Redone
    <3>3. Stands.at = slot /\ Stands = [q |-> Stands.q, at |-> Stands.at]
      BY DEF Stands
    <3>4. Refilled(Stands, 0, changed, current)
      BY <3>2, <3>3 DEF Refilled
    <3> QED BY <2>2, <3>1, <3>4
  <2>4. n \in 1..Len(changed) /\ n - 1 \in 0..Len(changed) /\ n - 1 < n
    BY <1>0, <2>2, <2>3
  <2>5. n - 1 \notin S
    <3>1. n \in Nat /\ n - 1 \in Nat
      BY <1>0, <2>4
    <3> HIDE DEF S
    <3> QED BY <2>1, <2>4, <3>1 DEF OpToRel
  <2>6. st[n] = Refreshed(st[n - 1], changed[n], current) /\ Refilled(st[n - 1], n - 1, changed, current)
    BY <2>2, <2>3, <2>4, <2>5 DEF Refilling
  <2> HIDE DEF S
  <2>7. Refilled(st[n], n, changed, current)
    BY <2>4, <2>5, <2>6, RefreshedFacts
  <2> QED BY <2>2, <2>7
<1>2. Len(changed) \in 0..Len(changed)
  BY <1>0
<1> QED BY <1>1, <1>2

LEMMA ResumeFacts ==
  ASSUME Sound(Stands), PauseNotes,
         NEW current, DOMAIN current \subseteq Seqs, \A i \in DOMAIN current : current[i] \in Nat,
         Resume(current)
  PROVE  /\ Sound(Stands')
         /\ DOMAIN slot' = DOMAIN slot \union (paused.seen \intersect DOMAIN current)
         /\ \A i \in DOMAIN slot' :
              Shows(Stands', i) = IF i \in paused.seen /\ i \in DOMAIN current
                                    THEN current[i] ELSE Shows(Stands, i)
         /\ paused' = NotPaused /\ UNCHANGED <<channel, lastSeq, taken, takenFor>>
<1> DEFINE changed == paused.changed
           filled == CHOOSE st : Refilling(st, Len(changed), changed, current)
           r == filled[Len(changed)]
<1>1. changed \in Seq(Seqs) /\ Len(changed) \in Nat /\ paused.seen = {changed[n] : n \in 1..Len(changed)}
  BY DEF PauseNotes
<1>2. Refilling(filled, Len(changed), changed, current)
  BY <1>1, RefreshingExists
<1>3. /\ Queueing(r) /\ paused' = NotPaused /\ UNCHANGED <<channel, lastSeq, taken, takenFor>>
  BY DEF Resume, Refilling
<1> HIDE DEF filled
<1>4. Refilled(r, Len(changed), changed, current)
  BY <1>1, <1>2, RefreshingFacts
<1>5. Stands' = [q |-> r.q, at |-> r.at] /\ slot' = r.at
  BY <1>3 DEF Queueing, Stands
<1>6. Stands' = r
  BY <1>4, <1>5 DEF Refilled
<1>7. Redone(Len(changed), changed, current) = paused.seen \intersect DOMAIN current
  BY <1>1 DEF Redone
<1> HIDE DEF r, changed
<1> QED BY <1>3, <1>4, <1>5, <1>6, <1>7 DEF Refilled

------------------------------------------------------------------------------
(* Sending.                                                                *)

LEMMA SendFacts ==
  ASSUME taken \in Seq(Shots), Distinct(taken), Send
  PROVE  /\ taken' \in Seq(Shots) /\ Distinct(taken')
         /\ Message \in Seq(Shots)
         /\ \A n \in 1..Len(Message) : n \in 1..Len(taken) /\ Message[n] = taken[n]
         /\ IdsOf(taken) = IdsOf(Message) \union IdsOf(taken')
         /\ \A n \in 1..Len(taken') : taken'[n] = taken[n + Len(Message)]
                                      /\ n + Len(Message) \in 1..Len(taken)
         /\ UNCHANGED <<channel, queue, slot, lastSeq, paused, takenFor>>
<1> USE StreamAssumption
<1> DEFINE n == Len(taken)
           k == IF n < MaxFlowsPerMessage THEN n ELSE MaxFlowsPerMessage
<1>1. /\ n \in Nat /\ k \in Nat /\ k <= n
      /\ Message = SubSeq(taken, 1, k)
  BY DEF Message
<1>2. \A i \in 1..n : taken[i] \in Shots
  BY ElementOfSeq
<1> HIDE DEF k
<1>3. /\ Message \in Seq(Shots) /\ Len(Message) = k
      /\ \A i \in 1..k : Message[i] = taken[i]
  BY <1>1
<1>4. taken' = SubSeq(taken, k + 1, n)
  BY <1>3 DEF Send
<1>5. /\ taken' \in Seq(Shots) /\ Len(taken') = n - k
      /\ \A i \in 1..(n - k) : taken'[i] = taken[i + k]
  BY <1>1, <1>4
<1>6. Distinct(taken')
  <2>1. \A i, j \in 1..(n - k) : i + k \in 1..n /\ j + k \in 1..n /\ (i + k = j + k => i = j)
    BY <1>1
  <2>2. \A i, j \in 1..(n - k) : taken'[i].id = taken'[j].id => i + k = j + k
    BY <1>5, <2>1 DEF Distinct
  <2> QED BY <1>5, <2>1, <2>2 DEF Distinct
<1>7. \A i \in 1..n : i \in 1..k \/ (i - k \in 1..(n - k) /\ taken'[i - k] = taken[i])
  BY <1>1, <1>5
<1>8. \A i \in 1..(n - k) : i + k \in 1..n
  BY <1>1
<1>9. IdsOf(taken) = IdsOf(Message) \union IdsOf(taken')
  <2>1. IdsOf(taken) \subseteq IdsOf(Message) \union IdsOf(taken')
    BY <1>1, <1>3, <1>5, <1>7 DEF IdsOf
  <2>2. IdsOf(Message) \union IdsOf(taken') \subseteq IdsOf(taken)
    <3>1. \A i \in 1..k : i \in 1..n
      BY <1>1
    <3>2. IdsOf(Message) \subseteq IdsOf(taken)
      BY <1>3, <3>1 DEF IdsOf
    <3>3. \A i \in 1..Len(taken') : taken'[i].id \in IdsOf(taken)
      BY <1>5, <1>8 DEF IdsOf
    <3> QED BY <3>2, <3>3 DEF IdsOf
  <2> QED BY <2>1, <2>2
<1> QED BY <1>1, <1>3, <1>5, <1>6, <1>8, <1>9 DEF Send

LEMMA DeliverFacts ==
  ASSUME taken \in Seq(Shots), Distinct(taken), FlushSend, takenFor = page
  PROVE  /\ DOMAIN uiQueue' = DOMAIN uiQueue \union IdsOf(Message)
         /\ \A n \in 1..Len(Message) : uiQueue'[taken[n].id] = taken[n].data
         /\ \A i \in DOMAIN uiQueue \ IdsOf(Message) : uiQueue'[i] = uiQueue[i]
<1> DEFINE sent == [i \in {m.id : m \in ToSet(Message)} |->
                      (CHOOSE m \in ToSet(Message) : m.id = i).data]
<1>1. /\ Message \in Seq(Shots) /\ Len(Message) \in Nat
      /\ \A n \in 1..Len(Message) : n \in 1..Len(taken) /\ Message[n] = taken[n]
  BY SendFacts DEF FlushSend
<1>2. uiQueue' = Override(uiQueue, sent)
  BY DEF FlushSend
<1>3. ToSet(Message) = {Message[n] : n \in 1..Len(Message)}
  BY <1>1 DEF ToSet
<1>4. {m.id : m \in ToSet(Message)} = IdsOf(Message)
  BY <1>3 DEF IdsOf
<1>5. ASSUME NEW n \in 1..Len(Message)
      PROVE  taken[n].id \in IdsOf(Message) /\ sent[taken[n].id] = taken[n].data
  <2>1. taken[n] \in ToSet(Message) /\ taken[n].id \in IdsOf(Message)
    BY <1>1, <1>3 DEF IdsOf
  <2>2. \A m \in ToSet(Message) : m.id = taken[n].id => m = taken[n]
    BY <1>1, <1>3 DEF Distinct
  <2>3. (CHOOSE m \in ToSet(Message) : m.id = taken[n].id) = taken[n]
    BY <2>1, <2>2
  <2> QED BY <1>4, <2>1, <2>3
<1>6. DOMAIN sent = IdsOf(Message)
  BY <1>4
<1> HIDE DEF sent
<1> QED BY <1>2, <1>5, <1>6 DEF Override

------------------------------------------------------------------------------
(* The store.                                                              *)

LogTells ==
  /\ Len(log) \in Nat /\ DOMAIN log = 1..Len(log)
  /\ Store!Logged = IdsOf(log)
  /\ \A n \in 1..Len(log) : log[n] \in Shots /\ log[n].id \in Store!Logged
                            /\ Store!At(log[n].id) = log[n].data
  /\ \A i \in Store!Logged : \E n \in 1..Len(log) : log[n].id = i /\ Store!At(i) = log[n].data

LEMMA LogFacts == StoreTypes => LogTells
<1> SUFFICES ASSUME StoreTypes PROVE LogTells
  OBVIOUS
<1>1. Len(log) \in Nat /\ DOMAIN log = 1..Len(log) /\ \A n \in 1..Len(log) : log[n] \in Shots
  BY ElementOfSeq DEF StoreTypes
<1>2. Store!Logged = IdsOf(log)
  BY <1>1 DEF Store!Logged, IdsOf
<1>3. ASSUME NEW n \in 1..Len(log)
      PROVE  log[n].id \in Store!Logged /\ Store!At(log[n].id) = log[n].data
  <2>1. \A m \in DOMAIN log : log[m].id = log[n].id => m = n
    BY <1>1 DEF StoreTypes, Distinct
  <2>2. Store!Place(log[n].id) = n
    BY <1>1, <2>1 DEF Store!Place
  <2> QED BY <1>2, <2>2 DEF Store!At, IdsOf
<1>4. \A i \in Store!Logged : \E n \in 1..Len(log) : log[n].id = i
  BY <1>2 DEF IdsOf
<1> QED BY <1>1, <1>2, <1>3, <1>4 DEF LogTells

(* Both changes of the store leave what it holds of the other flows.       *)
StoreChange(e) ==
  /\ StoreTypes'
  /\ (Store!Logged)' \subseteq Store!Logged \union {e.id}
  /\ \A i \in (Store!Logged)' :
       Store!At(i)' = IF i = e.id THEN e.data ELSE Store!At(i)

LEMMA FromPlaces ==
  ASSUME StoreTypes, StoreTypes', NEW e,
         \A n \in 1..Len(log') : \/ log'[n] = e
                                 \/ log'[n].id # e.id /\ \E m \in 1..Len(log) : log'[n] = log[m]
  PROVE  StoreChange(e)
<1>1. \A i \in (Store!Logged)' : \E n \in 1..Len(log') : log'[n].id = i /\ Store!At(i)' = log'[n].data
  <2>1. LogTells'
    BY LogFacts, PTL
  <2> QED BY <2>1 DEF LogTells
<1>2. ASSUME NEW i \in (Store!Logged)'
      PROVE  /\ i \in Store!Logged \union {e.id}
             /\ Store!At(i)' = IF i = e.id THEN e.data ELSE Store!At(i)
  <2>1. PICK n \in 1..Len(log') : log'[n].id = i /\ Store!At(i)' = log'[n].data
    BY <1>1
  <2>2. CASE log'[n] = e
    BY <2>1, <2>2
  <2>3. CASE log'[n].id # e.id /\ \E m \in 1..Len(log) : log'[n] = log[m]
    <3>1. PICK m \in 1..Len(log) : log'[n] = log[m]
      BY <2>3
    <3>2. log[m].id \in Store!Logged /\ Store!At(log[m].id) = log[m].data
      BY LogFacts DEF LogTells
    <3> QED BY <2>1, <2>3, <3>1, <3>2
  <2> QED BY <2>2, <2>3
<1> QED BY <1>2 DEF StoreChange

LEMMA UpdateFacts ==
  ASSUME StoreTypes, NEW e \in Shots, Store!Update(e)
  PROVE  StoreChange(e) /\ (Store!Logged)' = Store!Logged
<1>1. /\ Len(log) \in Nat /\ DOMAIN log = 1..Len(log) /\ \A n \in 1..Len(log) : log[n] \in Shots
      /\ Store!Logged = IdsOf(log)
  BY LogFacts DEF LogTells
<1>2. log' = [n \in 1..Len(log) |-> IF log[n].id = e.id THEN e ELSE log[n]]
  BY <1>1 DEF Store!Update, Store!Changed
<1>3. log' \in Seq(Shots) /\ Len(log') = Len(log)
  BY <1>1, <1>2
<1>4. \A n \in 1..Len(log) : log'[n].id = log[n].id /\ log'[n] = IF log[n].id = e.id THEN e ELSE log[n]
  BY <1>2
<1>5. StoreTypes'
  BY <1>3, <1>4 DEF StoreTypes, Distinct
<1>6. (Store!Logged)' = IdsOf(log')
  <2>1. LogTells'
    BY <1>5, LogFacts, PTL
  <2> QED BY <2>1 DEF LogTells
<1>7. IdsOf(log') = IdsOf(log)
  BY <1>3, <1>4 DEF IdsOf
<1>8. StoreChange(e)
  BY <1>3, <1>4, <1>5, FromPlaces
<1> QED BY <1>1, <1>6, <1>7, <1>8

LEMMA InsertFacts ==
  ASSUME StoreTypes, NEW e \in Shots, Store!Insert(e)
  PROVE  StoreChange(e)
<1> USE FlowStreamAssumption
<1>1. /\ Len(log) \in Nat /\ DOMAIN log = 1..Len(log) /\ \A n \in 1..Len(log) : log[n] \in Shots
      /\ Store!Logged = IdsOf(log)
  BY LogFacts DEF LogTells
<1>2. CASE e.id \in Store!Logged
  <2>1. Store!Update(e)
    BY <1>2 DEF Store!Insert, Store!Update
  <2> QED BY <2>1, UpdateFacts
<1>3. CASE e.id \notin Store!Logged
  <2> DEFINE s == Append(log, e)
             n == Len(log) + 1
             k == IF n > MaxFlows THEN n - MaxFlows ELSE 0
  <2>1. /\ s \in Seq(Shots) /\ Len(s) = n /\ s[n] = e
        /\ \A m \in 1..Len(log) : s[m] = log[m]
    BY <1>1 DEF StoreTypes
  <2>2. k \in Nat /\ k < n /\ n \in Nat
    BY <1>1
  <2>3. log' = SubSeq(s, k + 1, n)
    <3>1. (IF n > MaxFlows THEN n - MaxFlows + 1 ELSE 1) = k + 1
      BY <2>2
    <3> HIDE DEF s
    <3>2. log' = Store!Window(s)
      BY <1>3 DEF Store!Insert, s
    <3> HIDE DEF n
    <3>3. log' = SubSeq(s, IF n > MaxFlows THEN n - MaxFlows + 1 ELSE 1, n)
      BY <2>1, <3>2 DEF Store!Window
    <3> HIDE DEF k
    <3> QED BY <3>1, <3>3
  <2> HIDE DEF k, s
  <2>4. \A m \in 1..n : s[m] \in Shots
    BY <2>1, ElementOfSeq
  <2>5. /\ log' \in Seq(Shots) /\ Len(log') = n - k
        /\ \A m \in 1..(n - k) : log'[m] = s[m + k] /\ m + k \in 1..n
    BY <2>1, <2>2, <2>3, <2>4
  <2>6. \A m \in 1..n : m = n \/ m \in 1..Len(log)
    BY <1>1
  <2>7. \A m \in 1..Len(log) : log[m].id # e.id
    BY <1>1, <1>3 DEF IdsOf
  <2>8. Distinct(s)
    BY <2>1, <2>6, <2>7 DEF Distinct, StoreTypes
  <2>9. Distinct(log')
    <3>1. \A l, m \in 1..(n - k) : log'[l].id = log'[m].id => l + k = m + k
      BY <2>1, <2>5, <2>8 DEF Distinct
    <3> HIDE DEF n
    <3>2. \A l, m \in 1..(n - k) : l + k = m + k => l = m
      BY <2>2
    <3> QED BY <2>5, <3>1, <3>2 DEF Distinct
  <2>10. \A m \in 1..Len(log') : \/ log'[m] = e
                                 \/ log'[m].id # e.id /\ \E l \in 1..Len(log) : log'[m] = log[l]
    <3> SUFFICES ASSUME NEW m \in 1..(n - k)
                 PROVE  \/ log'[m] = e
                        \/ log'[m].id # e.id /\ \E l \in 1..Len(log) : log'[m] = log[l]
      BY <2>5
    <3>1. log'[m] = s[m + k] /\ (m + k = n \/ m + k \in 1..Len(log))
      BY <2>5, <2>6
    <3> QED BY <2>1, <2>7, <3>1
  <2>11. StoreTypes'
    BY <2>5, <2>9 DEF StoreTypes
  <2> QED BY <2>10, <2>11, FromPlaces
<1> QED BY <1>2, <1>3

------------------------------------------------------------------------------
(* Types, and what else holds whatever is cleared.                         *)

LEMMA InitBase == Init => Base
<1> SUFFICES ASSUME Init PROVE Base
  OBVIOUS
<1> USE StreamAssumption, FlowStreamAssumption DEF Init, StreamInit
<1>1. StreamTypes
  <2>1. Stands.q = <<>> /\ DOMAIN Stands.at = {}
    BY DEF Stands
  <2>2. Sound(Stands)
    BY <2>1 DEF Sound, IdsOf
  <2> QED BY <2>2 DEF StreamTypes, Distinct
<1>2. PauseNotes
  <2>1. /\ paused.on = FALSE /\ paused.through = 0 /\ paused.changed = <<>> /\ paused.seen = {}
        /\ paused = NotPaused
    BY DEF NotPaused
  <2>2. paused \in [on : BOOLEAN, through : Nat, changed : Seq(Seqs), seen : SUBSET Seqs]
    BY DEF NotPaused
  <2>3. Len(<<>>) = 0 /\ lastSeq = 0
    OBVIOUS
  <2> HIDE DEF Init, StreamInit
  <2> QED BY <2>1, <2>2, <2>3 DEF PauseNotes
<1>3. StoreTypes
  BY DEF Store!Init, StoreTypes, Distinct
<1>4. HeldTypes
  BY DEF HeldTypes, Nothing, Phases
<1>5. /\ cmds \in Seq([op : Ops, page : Nat]) /\ Len(cmds) = 2
      /\ cmds[1] = [op |-> "bind", page |-> 1] /\ cmds[2] = [op |-> "pause", page |-> 1]
  <2>1. cmds = <<[op |-> "bind", page |-> 1], [op |-> "pause", page |-> 1]>>
    BY DEF FromPage
  <2> HIDE DEF Init
  <2> QED BY <2>1 DEF Ops
<1>6. PageTypes
  BY <1>5 DEF PageTypes, Empty
<1>7. BindsInOrder
  BY <1>5 DEF BindsInOrder
<1>8. ClearsAsked
  BY <1>5 DEF ClearsAsked
<1> QED BY <1>1, <1>2, <1>3, <1>4, <1>6, <1>7, <1>8 DEF Base

LEMMA StreamSame ==
  ASSUME StreamTypes, PauseNotes, UNCHANGED streamVars
  PROVE  StreamTypes' /\ PauseNotes' /\ Stands' = Stands
BY DEF StreamTypes, PauseNotes, streamVars, Stands

LEMMA StoreSame == StoreTypes /\ UNCHANGED log => StoreTypes'
BY DEF StoreTypes

LEMMA HeldSame == HeldTypes /\ UNCHANGED holding => HeldTypes'
BY DEF HeldTypes

LEMMA PageSame ==
  ASSUME PageTypes, BindsInOrder, ClearsAsked, UNCHANGED <<channel, page, cmds, clearing, clears>>,
         clock' \in Nat, nextSeq' \in Nat, DOMAIN uiQueue' \subseteq Seqs, DOMAIN list' \subseteq Seqs
  PROVE  PageTypes' /\ BindsInOrder' /\ ClearsAsked'
BY DEF PageTypes, BindsInOrder, ClearsAsked

(* What a task holds next. *)
LEMMA HeldNext ==
  ASSUME HeldTypes, NEW t \in Tasks, NEW h \in [at : Phases, id : Seqs \union {0}, data : Nat],
         h.at # "idle" => h.id \in Seqs, holding' = [holding EXCEPT ![t] = h]
  PROVE  HeldTypes' /\ holding'[t] = h /\ \A u \in Tasks \ {t} : holding'[u] = holding[u]
BY DEF HeldTypes

LEMMA EmitFacts ==
  ASSUME StreamTypes, PauseNotes, NEW f \in Shots, Emit(f)
  PROVE  /\ StreamTypes' /\ PauseNotes' /\ UNCHANGED <<channel, taken, takenFor>>
         /\ \/ channel = 0 /\ UNCHANGED streamVars
            \/ /\ channel # 0 /\ paused.on
               /\ UNCHANGED <<queue, slot>>
               /\ paused'.on /\ paused'.through = paused.through
               /\ paused'.seen = paused.seen \union IF f.id <= paused.through THEN {f.id} ELSE {}
               /\ lastSeq' >= lastSeq
            \/ /\ channel # 0 /\ ~paused.on
               /\ UNCHANGED paused
               /\ DOMAIN slot' = DOMAIN slot \union {f.id}
               /\ Shows(Stands', f.id) = f.data
               /\ \A i \in DOMAIN slot : i # f.id => Shows(Stands', i) = Shows(Stands, i)
               /\ lastSeq' >= lastSeq /\ lastSeq' >= f.id
<1> USE StreamAssumption
<1>0. f.id \in Seqs /\ f.id \in Nat
  BY DEF Shots
<1>1. CASE EmitUnheard
  BY <1>1, StreamSame DEF EmitUnheard, streamVars
<1>2. CASE EmitPaused(f)
  <2>1. /\ channel # 0 /\ paused.on /\ UNCHANGED <<channel, queue, slot, taken, takenFor>>
        /\ lastSeq' = IF f.id > lastSeq THEN f.id ELSE lastSeq
    BY <1>2 DEF EmitPaused
  <2>2. lastSeq \in Nat /\ lastSeq' \in Nat /\ lastSeq' >= lastSeq
    BY <1>0, <2>1 DEF StreamTypes
  <2>3. StreamTypes'
    BY <2>1, <2>2 DEF StreamTypes, Stands
  <2>4. CASE f.id <= paused.through /\ f.id \notin paused.seen
    <3>1. /\ paused'.on = paused.on /\ paused'.through = paused.through
          /\ paused'.changed = Append(paused.changed, f.id) /\ paused'.seen = paused.seen \union {f.id}
          /\ paused' \in [on : BOOLEAN, through : Nat, changed : Seq(Seqs), seen : SUBSET Seqs]
      <4>1. paused' = [paused EXCEPT !.changed = Append(paused.changed, f.id),
                                     !.seen = paused.seen \union {f.id}]
        BY <1>2, <2>4 DEF EmitPaused
      <4>2. /\ paused \in [on : BOOLEAN, through : Nat, changed : Seq(Seqs), seen : SUBSET Seqs]
            /\ Append(paused.changed, f.id) \in Seq(Seqs)
            /\ paused.seen \union {f.id} \in SUBSET Seqs
        BY <1>0 DEF PauseNotes
      <4> DEFINE longer == Append(paused.changed, f.id)
                 more == paused.seen \union {f.id}
      <4> HIDE DEF longer, more
      <4>3. paused' = [paused EXCEPT !.changed = longer, !.seen = more]
        BY <4>1 DEF longer, more
      <4>4. longer \in Seq(Seqs) /\ more \in SUBSET Seqs
        BY <4>2 DEF longer, more
      <4>5. /\ paused'.on = paused.on /\ paused'.through = paused.through
            /\ paused'.changed = longer /\ paused'.seen = more
            /\ paused' \in [on : BOOLEAN, through : Nat, changed : Seq(Seqs), seen : SUBSET Seqs]
        BY <4>2, <4>3, <4>4
      <4> QED BY <4>5 DEF longer, more
    <3>2. /\ paused.changed \in Seq(Seqs) /\ Len(paused.changed) \in Nat
          /\ Len(paused'.changed) = Len(paused.changed) + 1
          /\ paused'.changed[Len(paused.changed) + 1] = f.id
          /\ \A n \in 1..Len(paused.changed) : paused'.changed[n] = paused.changed[n]
      BY <1>0, <3>1 DEF PauseNotes
    <3>3. 1..Len(paused'.changed) = 1..Len(paused.changed) \union {Len(paused.changed) + 1}
      BY <3>2
    <3>4. paused'.seen = {paused'.changed[n] : n \in 1..Len(paused'.changed)}
      BY <3>1, <3>2, <3>3 DEF PauseNotes
    <3>5. PauseNotes'
      BY <2>1, <2>2, <2>4, <3>1, <3>4 DEF PauseNotes
    <3> QED BY <2>1, <2>2, <2>3, <2>4, <3>1, <3>5
  <2>5. CASE ~(f.id <= paused.through /\ f.id \notin paused.seen)
    <3>1. paused' = paused
      BY <1>2, <2>5 DEF EmitPaused
    <3>2. PauseNotes'
      <4>1. paused'.through <= lastSeq'
        BY <2>2, <3>1 DEF PauseNotes
      <4> QED BY <3>1, <4>1 DEF PauseNotes
    <3>3. f.id <= paused.through => f.id \in paused.seen
      BY <2>5
    <3> QED BY <2>1, <2>2, <2>3, <3>1, <3>2, <3>3
  <2> QED BY <2>4, <2>5
<1>3. CASE EmitQueued(f)
  <2> DEFINE r == Enqueue(Stands, f)
  <2>1. /\ channel # 0 /\ ~paused.on /\ UNCHANGED <<channel, paused, taken, takenFor>>
        /\ lastSeq' = IF f.id > lastSeq THEN f.id ELSE lastSeq
        /\ queue' = r.q /\ slot' = r.at
    BY <1>3 DEF EmitQueued, Queueing
  <2>2. lastSeq \in Nat /\ lastSeq' \in Nat /\ lastSeq' >= lastSeq /\ lastSeq' >= f.id
    BY <1>0, <2>1 DEF StreamTypes
  <2>3. Stands = [q |-> Stands.q, at |-> Stands.at] /\ Stands.at = slot /\ Sound(Stands)
    BY DEF Stands, StreamTypes
  <2>4. /\ Sound(r) /\ r = [q |-> r.q, at |-> r.at]
        /\ DOMAIN r.at = DOMAIN slot \union {f.id}
        /\ Shows(r, f.id) = f.data
        /\ \A i \in DOMAIN slot : i # f.id => Shows(r, i) = Shows(Stands, i)
    BY <2>3, EnqueueFacts
  <2>5. Stands' = r
    BY <2>1, <2>4 DEF Stands
  <2> HIDE DEF r
  <2>6. StreamTypes'
    BY <2>1, <2>2, <2>4, <2>5 DEF StreamTypes
  <2>7. PauseNotes'
    BY <2>1, <2>2 DEF PauseNotes
  <2> QED BY <2>1, <2>2, <2>4, <2>5, <2>6, <2>7
<1> QED BY <1>1, <1>2, <1>3 DEF Emit

(* The steps of a task. *)
LEMMA BeginBase ==
  ASSUME Base, NEW t \in Tasks, BeginFlow(t)
  PROVE  /\ Base' /\ UNCHANGED <<streamVars, log, uiVars, clears, missed>>
         /\ holding[t].at = "idle" /\ holding'[t].at = "new"
         /\ \A u \in Tasks \ {t} : holding'[u] = holding[u]
<1> USE StreamAssumption
<1> DEFINE h == [at |-> "new", id |-> nextSeq, data |-> 0]
<1>1. /\ holding[t] = Nothing /\ nextSeq \in Seqs /\ nextSeq' = nextSeq + 1
      /\ holding' = [holding EXCEPT ![t] = h]
      /\ UNCHANGED <<streamVars, log, clock, uiVars, clearing, clears, missed>>
  BY DEF BeginFlow
<1>2. h \in [at : Phases, id : Seqs \union {0}, data : Nat] /\ h.id \in Seqs /\ h.at = "new"
  BY <1>1 DEF Phases
<1> HIDE DEF h
<1>3. HeldTypes' /\ holding'[t] = h /\ \A u \in Tasks \ {t} : holding'[u] = holding[u]
  BY <1>1, <1>2, HeldNext DEF Base
<1>4. StreamTypes' /\ PauseNotes' /\ StoreTypes'
  BY <1>1, StreamSame, StoreSame DEF Base
<1>5. PageTypes' /\ BindsInOrder' /\ ClearsAsked'
  <2>1. clock' \in Nat /\ nextSeq' \in Nat /\ DOMAIN uiQueue' \subseteq Seqs /\ DOMAIN list' \subseteq Seqs
    BY <1>1 DEF Base, PageTypes, uiVars
  <2>2. UNCHANGED <<channel, page, cmds, clearing, clears>>
    BY <1>1 DEF streamVars, uiVars
  <2> QED BY <2>1, <2>2, PageSame DEF Base
<1>6. holding[t].at = "idle"
  BY <1>1 DEF Nothing
<1> QED BY <1>1, <1>2, <1>3, <1>4, <1>5, <1>6 DEF Base

LEMMA InsertBase ==
  ASSUME Base, NEW t \in Tasks, InsertFlow(t)
  PROVE  /\ Base' /\ UNCHANGED <<streamVars, uiVars, clears, missed>>
         /\ holding[t].at = "new" /\ holding'[t].at = "emit"
         /\ StoreChange(holding'[t])
         /\ \A u \in Tasks \ {t} : holding'[u] = holding[u]
<1> USE StreamAssumption
<1> DEFINE e == [id |-> holding[t].id, data |-> clock']
           h == [holding[t] EXCEPT !.at = "emit", !.data = clock']
<1>1. /\ holding[t].at = "new" /\ clock' = clock + 1 /\ Store!Insert(e)
      /\ holding' = [holding EXCEPT ![t] = h]
      /\ UNCHANGED <<streamVars, nextSeq, uiVars, clearing, clears, missed>>
  BY DEF InsertFlow
<1>2. /\ clock' \in Nat /\ holding[t] \in [at : Phases, id : Seqs \union {0}, data : Nat]
      /\ holding[t].id \in Seqs
  BY <1>1 DEF Base, PageTypes, HeldTypes
<1>3. /\ h \in [at : Phases, id : Seqs \union {0}, data : Nat]
      /\ h.id = e.id /\ h.data = e.data /\ h.at = "emit" /\ e.id \in Seqs
  BY <1>2 DEF Phases
<1>4. e \in Shots
  BY <1>2 DEF Shots
<1> HIDE DEF h, e
<1>5. HeldTypes' /\ holding'[t] = h /\ \A u \in Tasks \ {t} : holding'[u] = holding[u]
  BY <1>1, <1>3, HeldNext DEF Base
<1>6. StoreChange(e)
  BY <1>1, <1>4, InsertFacts DEF Base
<1>7. StreamTypes' /\ PauseNotes' /\ StoreTypes'
  BY <1>1, <1>6, StreamSame DEF Base, StoreChange
<1>8. PageTypes' /\ BindsInOrder' /\ ClearsAsked'
  <2>1. clock' \in Nat /\ nextSeq' \in Nat /\ DOMAIN uiQueue' \subseteq Seqs /\ DOMAIN list' \subseteq Seqs
    BY <1>1, <1>2 DEF Base, PageTypes, uiVars
  <2>2. UNCHANGED <<channel, page, cmds, clearing, clears>>
    BY <1>1 DEF streamVars, uiVars
  <2> QED BY <2>1, <2>2, PageSame DEF Base
<1>9. StoreChange(holding'[t])
  BY <1>3, <1>5, <1>6 DEF StoreChange
<1> QED BY <1>1, <1>3, <1>5, <1>7, <1>8, <1>9 DEF Base

LEMMA ChangeBase ==
  ASSUME Base, NEW t \in Tasks, NEW id \in Seqs, ChangeFlow(t, id)
  PROVE  /\ Base' /\ UNCHANGED <<streamVars, uiVars, clears, missed>>
         /\ holding[t].at = "idle" /\ holding'[t].at = "emit"
         /\ StoreChange(holding'[t])
         /\ \A u \in Tasks \ {t} : holding'[u] = holding[u]
<1> USE StreamAssumption
<1> DEFINE e == [id |-> id, data |-> clock']
           h == [at |-> "emit", id |-> id, data |-> clock']
<1>1. /\ holding[t] = Nothing /\ clock' = clock + 1 /\ Store!Update(e)
      /\ holding' = [holding EXCEPT ![t] = h]
      /\ UNCHANGED <<streamVars, nextSeq, uiVars, clearing, clears, missed>>
  BY DEF ChangeFlow
<1>2. clock' \in Nat
  BY <1>1 DEF Base, PageTypes
<1>3. /\ h \in [at : Phases, id : Seqs \union {0}, data : Nat]
      /\ h.id = e.id /\ h.data = e.data /\ h.at = "emit" /\ e.id \in Seqs
  BY <1>2 DEF Phases
<1>4. e \in Shots
  BY <1>2 DEF Shots
<1> HIDE DEF h, e
<1>5. HeldTypes' /\ holding'[t] = h /\ \A u \in Tasks \ {t} : holding'[u] = holding[u]
  BY <1>1, <1>3, HeldNext DEF Base
<1>6. StoreChange(e)
  BY <1>1, <1>4, UpdateFacts DEF Base
<1>7. StreamTypes' /\ PauseNotes' /\ StoreTypes'
  BY <1>1, <1>6, StreamSame DEF Base, StoreChange
<1>8. PageTypes' /\ BindsInOrder' /\ ClearsAsked'
  <2>1. clock' \in Nat /\ nextSeq' \in Nat /\ DOMAIN uiQueue' \subseteq Seqs /\ DOMAIN list' \subseteq Seqs
    BY <1>1, <1>2 DEF Base, PageTypes, uiVars
  <2>2. UNCHANGED <<channel, page, cmds, clearing, clears>>
    BY <1>1 DEF streamVars, uiVars
  <2> QED BY <2>1, <2>2, PageSame DEF Base
<1>9. StoreChange(holding'[t])
  BY <1>3, <1>5, <1>6 DEF StoreChange
<1>10. holding[t].at = "idle"
  BY <1>1 DEF Nothing
<1> QED BY <1>1, <1>3, <1>5, <1>7, <1>8, <1>9, <1>10 DEF Base

Snap(t) == [id |-> holding[t].id, data |-> holding[t].data]

LEMMA EmitBase ==
  ASSUME Base, NEW t \in Tasks, EmitFlow(t)
  PROVE  /\ Base' /\ UNCHANGED <<log, uiVars, clears>>
         /\ holding[t].at = "emit" /\ holding'[t].at = "idle"
         /\ Snap(t) \in Shots /\ Emit(Snap(t))
         /\ missed' = IF channel # page \/ (paused.on /\ holding[t].id > paused.through)
                        THEN missed \union {holding[t].id} ELSE missed
         /\ \A u \in Tasks \ {t} : holding'[u] = holding[u]
<1> USE StreamAssumption
<1>1. /\ holding[t].at = "emit" /\ Emit(Snap(t)) /\ holding' = [holding EXCEPT ![t] = Nothing]
      /\ missed' = IF channel # page \/ (paused.on /\ holding[t].id > paused.through)
                     THEN missed \union {holding[t].id} ELSE missed
      /\ UNCHANGED <<log, clock, nextSeq, uiVars, clearing, clears>>
  BY DEF EmitFlow, Snap
<1>2. holding[t] \in [at : Phases, id : Seqs \union {0}, data : Nat] /\ holding[t].id \in Seqs
  BY <1>1 DEF Base, HeldTypes
<1>3. Snap(t) \in Shots
  BY <1>2 DEF Shots, Snap
<1>4. Nothing \in [at : Phases, id : Seqs \union {0}, data : Nat] /\ Nothing.at = "idle"
  BY DEF Nothing, Phases
<1>5. HeldTypes' /\ holding'[t] = Nothing /\ \A u \in Tasks \ {t} : holding'[u] = holding[u]
  BY <1>1, <1>4, HeldNext DEF Base
<1>6. StreamTypes' /\ PauseNotes' /\ UNCHANGED channel
  BY <1>1, <1>3, EmitFacts DEF Base
<1>7. StoreTypes'
  BY <1>1, StoreSame DEF Base
<1>8. PageTypes' /\ BindsInOrder' /\ ClearsAsked'
  <2>1. clock' \in Nat /\ nextSeq' \in Nat /\ DOMAIN uiQueue' \subseteq Seqs /\ DOMAIN list' \subseteq Seqs
    BY <1>1 DEF Base, PageTypes, uiVars
  <2>2. UNCHANGED <<channel, page, cmds, clearing, clears>>
    BY <1>1, <1>6 DEF uiVars
  <2> QED BY <2>1, <2>2, PageSame DEF Base
<1> QED BY <1>1, <1>3, <1>4, <1>5, <1>6, <1>7, <1>8 DEF Base

LEMMA RestartBase ==
  ASSUME Base, Restart
  PROVE  Base' /\ UNCHANGED <<streamVars, log, holding, uiVars, clears, missed>>
<1>1. /\ nextSeq' = 0
      /\ UNCHANGED <<streamVars, log, clock, holding, uiVars, clearing, clears, missed>>
  BY DEF Restart
<1>2. StreamTypes' /\ PauseNotes' /\ StoreTypes' /\ HeldTypes'
  BY <1>1, StreamSame, StoreSame, HeldSame DEF Base
<1>3. PageTypes' /\ BindsInOrder' /\ ClearsAsked'
  <2>1. clock' \in Nat /\ nextSeq' \in Nat /\ DOMAIN uiQueue' \subseteq Seqs /\ DOMAIN list' \subseteq Seqs
    BY <1>1 DEF Base, PageTypes, uiVars
  <2>2. UNCHANGED <<channel, page, cmds, clearing, clears>>
    BY <1>1 DEF streamVars, uiVars
  <2> QED BY <2>1, <2>2, PageSame DEF Base
<1> QED BY <1>1, <1>2, <1>3 DEF Base

(* The steps of the flush thread and of the page's timer. *)
LEMMA TakeBase ==
  ASSUME Base, FlushTake
  PROVE  /\ Base' /\ UNCHANGED <<channel, lastSeq, paused, log, holding, uiVars, clears, missed>>
         /\ taken = <<>> /\ channel # 0 /\ taken' = queue /\ takenFor' = channel
         /\ DOMAIN slot' = {} /\ IdsOf(taken) = {} /\ IdsOf(taken') = DOMAIN slot
<1>1. /\ taken = <<>> /\ channel # 0 /\ queue # <<>> /\ taken' = queue /\ takenFor' = channel
      /\ queue' = <<>> /\ DOMAIN slot' = {} /\ UNCHANGED <<channel, lastSeq, paused>>
      /\ UNCHANGED <<log, clock, nextSeq, holding, uiVars, clearing, clears, missed>>
  BY DEF FlushTake, Take
<1>2. Sound(Stands) /\ Stands.q = queue /\ Stands.at = slot
  BY DEF Base, StreamTypes, Stands
<1>3. queue \in Seq(Shots) /\ IdsOf(queue) = DOMAIN slot /\ Distinct(queue)
  BY <1>2 DEF Sound, Distinct
<1>4. Stands'.q = <<>> /\ DOMAIN Stands'.at = {}
  BY <1>1 DEF Stands
<1>5. Sound(Stands')
  BY <1>4 DEF Sound, IdsOf
<1>6. StreamTypes'
  BY <1>1, <1>3, <1>5 DEF Base, StreamTypes
<1>7. PauseNotes' /\ StoreTypes' /\ HeldTypes'
  BY <1>1, StoreSame, HeldSame DEF Base, PauseNotes
<1>8. PageTypes' /\ BindsInOrder' /\ ClearsAsked'
  <2>1. clock' \in Nat /\ nextSeq' \in Nat /\ DOMAIN uiQueue' \subseteq Seqs /\ DOMAIN list' \subseteq Seqs
    BY <1>1 DEF Base, PageTypes, uiVars
  <2>2. UNCHANGED <<channel, page, cmds, clearing, clears>>
    BY <1>1 DEF uiVars
  <2> QED BY <2>1, <2>2, PageSame DEF Base
<1>9. IdsOf(taken) = {}
  BY <1>1 DEF IdsOf
<1> QED BY <1>1, <1>3, <1>6, <1>7, <1>8, <1>9 DEF Base

LEMMA SendBase ==
  ASSUME Base, FlushSend
  PROVE  /\ Base'
         /\ UNCHANGED <<channel, queue, slot, lastSeq, paused, takenFor, log, holding, page,
                        list, clears, missed>>
         /\ takenFor # 0
         /\ takenFor # page => uiQueue' = uiQueue
<1> USE StreamAssumption
<1>1. /\ Send /\ taken # <<>> /\ (takenFor # page => uiQueue' = uiQueue)
      /\ UNCHANGED <<log, clock, nextSeq, holding, page, list, cmds, clearing, clears, missed>>
  BY DEF FlushSend, Send
<1>2. taken \in Seq(Shots) /\ Distinct(taken) /\ takenFor # 0
  BY <1>1 DEF Base, StreamTypes
<1>3. /\ taken' \in Seq(Shots) /\ Distinct(taken')
      /\ UNCHANGED <<channel, queue, slot, lastSeq, paused, takenFor>>
      /\ IdsOf(taken) = IdsOf(Message) \union IdsOf(taken')
  BY <1>1, <1>2, SendFacts
<1>4. StreamTypes'
  BY <1>2, <1>3 DEF Base, StreamTypes, Stands
<1>5. PauseNotes' /\ StoreTypes' /\ HeldTypes'
  BY <1>1, <1>3, StoreSame, HeldSame DEF Base, PauseNotes
<1>6. DOMAIN uiQueue' \subseteq Seqs
  <2>1. CASE takenFor = page
    <3>1. DOMAIN uiQueue' = DOMAIN uiQueue \union IdsOf(Message)
      BY <1>2, <2>1, DeliverFacts
    <3>2. IdsOf(taken) \subseteq Seqs
      <4>1. \A n \in 1..Len(taken) : taken[n] \in Shots
        BY <1>2, ElementOfSeq
      <4> QED BY <4>1 DEF IdsOf, Shots
    <3> QED BY <1>3, <3>1, <3>2 DEF Base, PageTypes
  <2>2. CASE takenFor # page
    BY <1>1, <2>2 DEF Base, PageTypes
  <2> QED BY <2>1, <2>2
<1>7. PageTypes' /\ BindsInOrder' /\ ClearsAsked'
  <2>1. clock' \in Nat /\ nextSeq' \in Nat /\ DOMAIN list' \subseteq Seqs
    BY <1>1 DEF Base, PageTypes
  <2>2. UNCHANGED <<channel, page, cmds, clearing, clears>>
    BY <1>1, <1>3
  <2> QED BY <1>6, <2>1, <2>2, PageSame DEF Base
<1> QED BY <1>1, <1>2, <1>3, <1>4, <1>5, <1>7 DEF Base

LEMMA PageFlushBase ==
  ASSUME Base, PageFlush
  PROVE  /\ Base' /\ UNCHANGED <<streamVars, log, holding, page, clears>>
         /\ DOMAIN uiQueue' = {}
         /\ DOMAIN list \subseteq DOMAIN list' /\ DOMAIN list' \subseteq DOMAIN list \union DOMAIN uiQueue
         /\ DOMAIN uiQueue \subseteq DOMAIN list' \union missed'
         /\ missed \subseteq missed'
         /\ \A i \in DOMAIN list' : list'[i] = IF i \in DOMAIN uiQueue THEN uiQueue[i] ELSE list[i]
<1> DEFINE new == DOMAIN uiQueue \ DOMAIN list
           in == IF recording THEN DOMAIN uiQueue ELSE DOMAIN uiQueue \ new
           given == [i \in in |-> uiQueue[i]]
<1>1. /\ list' = Override(list, given) /\ uiQueue' = Empty
      /\ missed' = IF recording THEN missed ELSE missed \union new
      /\ UNCHANGED <<streamVars, log, clock, nextSeq, holding, page, cmds, clearing, clears>>
  BY DEF PageFlush
<1>2. /\ DOMAIN given = in /\ \A i \in in : given[i] = uiQueue[i]
      /\ \A i \in DOMAIN list : i \in DOMAIN uiQueue => i \in in
  OBVIOUS
<1> HIDE DEF given
<1>3. /\ DOMAIN list' = DOMAIN list \union in
      /\ \A i \in DOMAIN list' : list'[i] = IF i \in in THEN uiQueue[i] ELSE list[i]
  BY <1>1, <1>2 DEF Override
<1>4. DOMAIN uiQueue' = {}
  BY <1>1 DEF Empty
<1>5. StreamTypes' /\ PauseNotes' /\ StoreTypes' /\ HeldTypes'
  BY <1>1, StreamSame, StoreSame, HeldSame DEF Base
<1>6. PageTypes' /\ BindsInOrder' /\ ClearsAsked'
  <2>1. clock' \in Nat /\ nextSeq' \in Nat /\ DOMAIN uiQueue' \subseteq Seqs /\ DOMAIN list' \subseteq Seqs
    BY <1>1, <1>3, <1>4 DEF Base, PageTypes
  <2>2. UNCHANGED <<channel, page, cmds, clearing, clears>>
    BY <1>1 DEF streamVars
  <2> QED BY <2>1, <2>2, PageSame DEF Base
<1> QED BY <1>1, <1>2, <1>3, <1>4, <1>5, <1>6 DEF Base

(* What the page asks for goes behind what it has asked for. *)
LEMMA CmdsAppended ==
  ASSUME Base, NEW p \in Nat, NEW ops \in Seq(Ops), cmds' = cmds \o FromPage(p, ops)
  PROVE  /\ cmds' \in Seq([op : Ops, page : Nat]) /\ Len(cmds') = Len(cmds) + Len(ops)
         /\ \A n \in 1..Len(cmds) : cmds'[n] = cmds[n]
         /\ \A n \in 1..Len(cmds') : n \in 1..Len(cmds) \/
              /\ n - Len(cmds) \in 1..Len(ops) /\ cmds'[n].op = ops[n - Len(cmds)] /\ cmds'[n].page = p
<1> DEFINE more == FromPage(p, ops)
<1>1. more = [n \in 1..Len(ops) |-> [op |-> ops[n], page |-> p]]
  BY DEF FromPage
<1>2. \A n \in 1..Len(ops) : ops[n] \in Ops
  BY ElementOfSeq
<1>3. more \in Seq([op : Ops, page : Nat]) /\ Len(more) = Len(ops)
  BY <1>1, <1>2
<1>4. \A n \in 1..Len(ops) : more[n].op = ops[n] /\ more[n].page = p
  BY <1>1
<1>5. cmds \in Seq([op : Ops, page : Nat]) /\ Len(cmds) \in Nat /\ Len(ops) \in Nat
  BY DEF Base, PageTypes
<1> HIDE DEF more
<1>6. cmds' = cmds \o more
  BY DEF more
<1>7. /\ cmds' \in Seq([op : Ops, page : Nat]) /\ Len(cmds') = Len(cmds) + Len(ops)
      /\ \A n \in 1..Len(cmds) : cmds'[n] = cmds[n]
      /\ \A n \in 1..Len(cmds') : n \in 1..Len(cmds) \/
            (n - Len(cmds) \in 1..Len(ops) /\ cmds'[n] = more[n - Len(cmds)])
  <2>1. cmds' \in Seq([op : Ops, page : Nat]) /\ Len(cmds') = Len(cmds) + Len(ops)
    <3> DEFINE S == [op : Ops, page : Nat]
    <3>1. cmds \in Seq(S) /\ more \in Seq(S)
      BY <1>3, <1>5
    <3> HIDE DEF S
    <3>2. cmds' \in Seq(S) /\ Len(cmds') = Len(cmds) + Len(more)
      BY <1>6, <3>1, ConcatProperties
    <3> QED BY <1>3, <3>2 DEF S
  <2>2. \A n \in 1..Len(cmds) : cmds'[n] = cmds[n]
    BY <1>3, <1>5, <1>6
  <2>3. ASSUME NEW n \in 1..Len(cmds'), n \notin 1..Len(cmds)
        PROVE  n - Len(cmds) \in 1..Len(ops) /\ cmds'[n] = more[n - Len(cmds)]
    <3>1. n \in (Len(cmds) + 1)..(Len(cmds) + Len(ops))
      BY <1>5, <2>1, <2>3
    <3> QED BY <1>3, <1>5, <1>6, <3>1
  <2> QED BY <2>1, <2>2, <2>3
<1> QED BY <1>4, <1>7

LEMMA RecordingBase ==
  ASSUME Base, SetRecording
  PROVE  Base' /\ UNCHANGED <<streamVars, log, holding, page, uiQueue, list, clears, missed>>
<1> DEFINE ops == <<IF recording THEN "pause" ELSE "resume">>
<1>1. /\ cmds' = cmds \o FromPage(page, ops)
      /\ UNCHANGED <<streamVars, log, clock, nextSeq, holding, page, uiQueue, list, clearing,
                     clears, missed>>
  BY DEF SetRecording
<1>2. ops \in Seq(Ops) /\ Len(ops) = 1 /\ ops[1] \in {"pause", "resume"}
  BY DEF Ops
<1> HIDE DEF ops
<1>3. page \in Nat /\ channel \in Nat
  BY DEF Base, PageTypes, StreamTypes
<1>4. /\ cmds' \in Seq([op : Ops, page : Nat]) /\ Len(cmds') = Len(cmds) + 1
      /\ \A n \in 1..Len(cmds) : cmds'[n] = cmds[n]
      /\ \A n \in 1..Len(cmds') : n \in 1..Len(cmds) \/ cmds'[n].op \in {"pause", "resume"}
  <2>1. \A n : n \in 1..Len(ops) => n = 1
    BY <1>2
  <2>2. /\ cmds' \in Seq([op : Ops, page : Nat]) /\ Len(cmds') = Len(cmds) + Len(ops)
        /\ \A n \in 1..Len(cmds) : cmds'[n] = cmds[n]
        /\ \A n \in 1..Len(cmds') : n \in 1..Len(cmds) \/
              /\ n - Len(cmds) \in 1..Len(ops) /\ cmds'[n].op = ops[n - Len(cmds)] /\ cmds'[n].page = page
    <3>1. cmds' = cmds \o FromPage(page, ops) /\ ops \in Seq(Ops) /\ page \in Nat
      BY <1>1, <1>2, <1>3
    <3> QED BY <3>1, CmdsAppended
  <2> QED BY <1>2, <2>1, <2>2
<1>5. StreamTypes' /\ PauseNotes' /\ StoreTypes' /\ HeldTypes'
  BY <1>1, StreamSame, StoreSame, HeldSame DEF Base
<1>6. channel' = channel
  BY <1>1 DEF streamVars
<1>7. PageTypes'
  BY <1>1, <1>4, <1>6 DEF Base, PageTypes
<1>8. BindsInOrder'
  <2>1. \A n \in 1..Len(cmds') : cmds'[n].op = "bind" => n \in 1..Len(cmds) /\ cmds'[n] = cmds[n]
    BY <1>4
  <2> QED BY <1>1, <1>6, <2>1 DEF Base, BindsInOrder
<1>9. ClearsAsked'
  <2>1. \A n \in 1..Len(cmds') : cmds'[n].op = "clear" => n \in 1..Len(cmds) /\ cmds'[n] = cmds[n]
    BY <1>4
  <2> QED BY <1>1, <2>1 DEF Base, ClearsAsked
<1> QED BY <1>1, <1>5, <1>7, <1>8, <1>9 DEF Base

LEMMA ClearAllBase ==
  ASSUME Base, ClearAll
  PROVE  /\ Base' /\ UNCHANGED <<streamVars, log, holding, page, missed>>
         /\ clears' # 0 /\ DOMAIN uiQueue' = {} /\ DOMAIN list' = {}
<1> DEFINE ops == <<"clear">>
<1>1. /\ cmds' = cmds \o FromPage(page, ops)
      /\ clears' = clears + 1 /\ DOMAIN list' = {} /\ DOMAIN uiQueue' = {}
      /\ UNCHANGED <<streamVars, log, clock, nextSeq, holding, page, clearing, missed>>
  BY DEF ClearAll, Empty
<1>2. ops \in Seq(Ops) /\ Len(ops) = 1 /\ ops[1] = "clear"
  BY DEF Ops
<1> HIDE DEF ops
<1>3. page \in Nat /\ channel \in Nat /\ clears' \in Nat /\ clears' # 0
  BY <1>1 DEF Base, PageTypes, StreamTypes
<1>4. /\ cmds' \in Seq([op : Ops, page : Nat]) /\ Len(cmds') = Len(cmds) + 1
      /\ \A n \in 1..Len(cmds) : cmds'[n] = cmds[n]
      /\ \A n \in 1..Len(cmds') : n \in 1..Len(cmds) \/ cmds'[n].op = "clear"
  <2>1. \A n : n \in 1..Len(ops) => n = 1
    BY <1>2
  <2>2. /\ cmds' \in Seq([op : Ops, page : Nat]) /\ Len(cmds') = Len(cmds) + Len(ops)
        /\ \A n \in 1..Len(cmds) : cmds'[n] = cmds[n]
        /\ \A n \in 1..Len(cmds') : n \in 1..Len(cmds) \/
              /\ n - Len(cmds) \in 1..Len(ops) /\ cmds'[n].op = ops[n - Len(cmds)] /\ cmds'[n].page = page
    <3>1. cmds' = cmds \o FromPage(page, ops) /\ ops \in Seq(Ops) /\ page \in Nat
      BY <1>1, <1>2, <1>3
    <3> QED BY <3>1, CmdsAppended
  <2> QED BY <1>2, <2>1, <2>2
<1>5. StreamTypes' /\ PauseNotes' /\ StoreTypes' /\ HeldTypes'
  BY <1>1, StreamSame, StoreSame, HeldSame DEF Base
<1>6. channel' = channel
  BY <1>1 DEF streamVars
<1>7. PageTypes'
  BY <1>1, <1>3, <1>4, <1>6 DEF Base, PageTypes
<1>8. BindsInOrder'
  <2>1. \A n \in 1..Len(cmds') : cmds'[n].op = "bind" => n \in 1..Len(cmds) /\ cmds'[n] = cmds[n]
    BY <1>4
  <2> QED BY <1>1, <1>6, <2>1 DEF Base, BindsInOrder
<1>9. ClearsAsked'
  BY <1>3 DEF ClearsAsked
<1> QED BY <1>1, <1>3, <1>5, <1>7, <1>8, <1>9 DEF Base

LEMMA ReloadBase ==
  ASSUME Base, Reload
  PROVE  /\ Base' /\ UNCHANGED <<streamVars, log, holding, clears>>
         /\ page' = page + 1 /\ channel < page' /\ page' # 1
         /\ DOMAIN uiQueue' = {} /\ DOMAIN list' = {}
         /\ missed \subseteq missed' /\ Store!Logged \subseteq missed'
<1> DEFINE ops == <<"bind", "pause">>
<1>1. /\ cmds' = cmds \o FromPage(page', ops)
      /\ page' = page + 1 /\ DOMAIN list' = {} /\ DOMAIN uiQueue' = {}
      /\ missed' = missed \union Begun
      /\ UNCHANGED <<streamVars, log, clock, nextSeq, holding, clearing, clears>>
  BY DEF Reload, Empty
<1>2. ops \in Seq(Ops) /\ Len(ops) = 2 /\ ops[1] = "bind" /\ ops[2] = "pause"
  BY DEF Ops
<1> HIDE DEF ops
<1>3. page \in Nat /\ channel \in Nat /\ page' \in Nat /\ page' # 0 /\ page' # 1 /\ channel < page'
  BY <1>1 DEF Base, PageTypes, StreamTypes
<1>4. /\ cmds' \in Seq([op : Ops, page : Nat]) /\ Len(cmds') = Len(cmds) + 2
      /\ \A n \in 1..Len(cmds) : cmds'[n] = cmds[n]
      /\ \A n \in 1..Len(cmds') :
            \/ n \in 1..Len(cmds)
            \/ n = Len(cmds) + 1 /\ cmds'[n].op = "bind" /\ cmds'[n].page = page'
            \/ n = Len(cmds) + 2 /\ cmds'[n].op = "pause"
      /\ Len(cmds) \in Nat
  <2>1. \A n : n \in 1..Len(ops) => n = 1 \/ n = 2
    BY <1>2
  <2>2. Len(cmds) \in Nat
    BY DEF Base, PageTypes
  <2>3. \A n : n - Len(cmds) = 1 /\ n \in Nat => n = Len(cmds) + 1
    BY <2>2
  <2>4. \A n : n - Len(cmds) = 2 /\ n \in Nat => n = Len(cmds) + 2
    BY <2>2
  <2>5. /\ cmds' \in Seq([op : Ops, page : Nat]) /\ Len(cmds') = Len(cmds) + Len(ops)
        /\ \A n \in 1..Len(cmds) : cmds'[n] = cmds[n]
        /\ \A n \in 1..Len(cmds') : n \in 1..Len(cmds) \/
              /\ n - Len(cmds) \in 1..Len(ops) /\ cmds'[n].op = ops[n - Len(cmds)] /\ cmds'[n].page = page'
    <3>1. \A p \in Nat : p = page' => cmds' = cmds \o FromPage(p, ops)
      BY <1>1
    <3>2. ops \in Seq(Ops) /\ page' \in Nat
      BY <1>2, <1>3
    <3>3. PICK p \in Nat : p = page'
      BY <3>2
    <3>4. cmds' = cmds \o FromPage(p, ops)
      BY <3>1, <3>3
    <3> QED BY <3>2, <3>3, <3>4, CmdsAppended
  <2> QED BY <1>2, <2>1, <2>2, <2>3, <2>4, <2>5
<1>5. StreamTypes' /\ PauseNotes' /\ StoreTypes' /\ HeldTypes'
  BY <1>1, StreamSame, StoreSame, HeldSame DEF Base
<1>6. channel' = channel
  BY <1>1 DEF streamVars
<1>7. PageTypes'
  BY <1>1, <1>3, <1>4, <1>6 DEF Base, PageTypes
<1>8. BindsInOrder'
  <2>1. \A n \in 1..Len(cmds') : cmds'[n].op = "bind" =>
          \/ n \in 1..Len(cmds) /\ cmds'[n] = cmds[n]
          \/ n = Len(cmds) + 1 /\ cmds'[n].page = page'
    BY <1>4
  <2>2. \A n \in 1..Len(cmds) : cmds[n].op = "bind" => channel < cmds[n].page /\ cmds[n].page <= page
                                                      /\ cmds[n].page \in Nat
    <3>1. \A n \in 1..Len(cmds) : cmds[n] \in [op : Ops, page : Nat]
      BY ElementOfSeq DEF Base, PageTypes
    <3> QED BY <3>1 DEF Base, BindsInOrder
  <2>3. \A n \in 1..Len(cmds') : cmds'[n].op = "bind" => channel' < cmds'[n].page /\ cmds'[n].page <= page'
    <3> SUFFICES ASSUME NEW n \in 1..Len(cmds'), cmds'[n].op = "bind"
                 PROVE  channel' < cmds'[n].page /\ cmds'[n].page <= page'
      OBVIOUS
    <3>1. CASE n \in 1..Len(cmds) /\ cmds'[n] = cmds[n]
      <4>1. channel < cmds[n].page /\ cmds[n].page <= page /\ cmds[n].page \in Nat
        BY <2>2, <3>1
      <4> QED BY <1>1, <1>3, <1>6, <3>1, <4>1
    <3>2. CASE cmds'[n].page = page'
      BY <1>3, <1>6, <3>2
    <3> QED BY <2>1, <3>1, <3>2
  <2>4. ASSUME NEW m \in 1..Len(cmds'), NEW n \in 1..Len(cmds'), m < n,
               cmds'[m].op = "bind", cmds'[n].op = "bind"
        PROVE  cmds'[m].page < cmds'[n].page
    <3>1. CASE n \in 1..Len(cmds)
      <4>1. m \in 1..Len(cmds)
        BY <1>4, <2>4, <3>1
      <4>2. cmds'[m] = cmds[m] /\ cmds'[n] = cmds[n]
        BY <1>4, <3>1, <4>1
      <4> QED BY <2>4, <3>1, <4>1, <4>2 DEF Base, BindsInOrder
    <3>2. CASE n = Len(cmds) + 1 /\ cmds'[n].page = page'
      <4>1. m \in 1..Len(cmds) /\ cmds'[m] = cmds[m]
        BY <1>4, <2>4, <3>2
      <4> QED BY <1>1, <1>3, <2>2, <2>4, <3>2, <4>1
    <3> QED BY <2>1, <2>4, <3>1, <3>2
  <2> QED BY <2>3, <2>4 DEF BindsInOrder
<1>9. ClearsAsked'
  <2>1. \A n \in 1..Len(cmds') : cmds'[n].op = "clear" => n \in 1..Len(cmds) /\ cmds'[n] = cmds[n]
    BY <1>4
  <2> QED BY <1>1, <2>1 DEF Base, ClearsAsked
<1>10. Store!Logged \subseteq missed'
  BY <1>1 DEF Begun
<1> QED BY <1>1, <1>3, <1>5, <1>7, <1>8, <1>9, <1>10 DEF Base

(* The commands. *)
LEMMA CommandFacts ==
  ASSUME Base, NEW c \in Ops, Command(c),
         \/ channel' = channel /\ c # "bind"
         \/ c = "bind" /\ channel' = Head(cmds).page,
         clearing' = clearing \/ c = "clear"
  PROVE  /\ PageTypes' /\ BindsInOrder' /\ ClearsAsked' /\ HeldTypes'
         /\ UNCHANGED <<clock, nextSeq, holding, page, recording, uiQueue, list, clears, missed>>
         /\ c = "bind" => /\ Head(cmds).page \in Nat
                          /\ channel < Head(cmds).page /\ Head(cmds).page <= page
         /\ c = "clear" => clears # 0
<1>1. /\ cmds # <<>> /\ ~clearing /\ Head(cmds).op = c /\ cmds' = Tail(cmds)
      /\ UNCHANGED <<clock, nextSeq, holding, page, recording, uiQueue, list, clears, missed>>
  BY DEF Command
<1>2. /\ cmds \in Seq([op : Ops, page : Nat]) /\ Len(cmds) \in Nat
      /\ \A n \in 1..Len(cmds) : cmds[n] \in [op : Ops, page : Nat]
  <2> DEFINE S == [op : Ops, page : Nat]
  <2>1. cmds \in Seq(S)
    BY DEF Base, PageTypes
  <2> HIDE DEF S
  <2>2. Len(cmds) \in Nat /\ \A n \in 1..Len(cmds) : cmds[n] \in S
    BY <2>1, ElementOfSeq
  <2> QED BY <2>1, <2>2 DEF S
<1>3. /\ 1 \in 1..Len(cmds) /\ Head(cmds) = cmds[1]
      /\ cmds' \in Seq([op : Ops, page : Nat]) /\ Len(cmds') = Len(cmds) - 1
      /\ \A n \in 1..Len(cmds') : cmds'[n] = cmds[n + 1] /\ n + 1 \in 1..Len(cmds) /\ 1 < n + 1
  <2>1. cmds' \in Seq([op : Ops, page : Nat]) /\ Len(cmds') = Len(cmds) - 1
    BY <1>1, <1>2
  <2>2. 1 \in 1..Len(cmds) /\ Head(cmds) = cmds[1]
    BY <1>1, <1>2
  <2>3. \A n \in 1..Len(cmds') : cmds'[n] = cmds[n + 1]
    BY <1>1, <1>2, <2>1
  <2> QED BY <1>2, <2>1, <2>2, <2>3
<1>4. c = "bind" => cmds[1].page \in Nat /\ channel < cmds[1].page /\ cmds[1].page <= page
  BY <1>1, <1>2, <1>3 DEF Base, BindsInOrder
<1>5. /\ page \in Nat /\ channel \in Nat
      /\ channel' <= page
  BY <1>3, <1>4 DEF Base, PageTypes, StreamTypes
<1>6. PageTypes'
  BY <1>1, <1>3, <1>5 DEF Base, PageTypes
<1>7. BindsInOrder'
  <2>1. \A n \in 1..Len(cmds') : cmds'[n].op = "bind" => channel' < cmds'[n].page /\ cmds'[n].page <= page
    BY <1>1, <1>3 DEF Base, BindsInOrder
  <2>2. \A m, n \in 1..Len(cmds') :
          m < n /\ cmds'[m].op = "bind" /\ cmds'[n].op = "bind" => cmds'[m].page < cmds'[n].page
    <3>1. \A m, n \in 1..Len(cmds) :
            m < n /\ cmds[m].op = "bind" /\ cmds[n].op = "bind" => cmds[m].page < cmds[n].page
      BY DEF Base, BindsInOrder
    <3>2. \A m, n \in 1..Len(cmds') : m < n => m + 1 < n + 1
      OBVIOUS
    <3> QED BY <1>3, <3>1, <3>2
  <2> QED BY <1>1, <2>1, <2>2 DEF BindsInOrder
<1>8. c = "clear" => clears # 0
  BY <1>1, <1>3 DEF Base, ClearsAsked
<1>9. ClearsAsked'
  BY <1>1, <1>3, <1>8 DEF Base, ClearsAsked
<1>10. HeldTypes'
  BY <1>1, HeldSame DEF Base
<1> QED BY <1>1, <1>3, <1>4, <1>6, <1>7, <1>8, <1>9, <1>10

LEMMA BindBase ==
  ASSUME Base, RunBind
  PROVE  /\ Base' /\ UNCHANGED <<queue, slot, lastSeq, taken, takenFor, log, holding, page,
                                 uiQueue, list, clears, missed>>
         /\ channel < page /\ channel' \in Nat /\ channel < channel' /\ ~paused'.on
<1>1. /\ Command("bind") /\ channel' = Head(cmds).page /\ paused' = NotPaused
      /\ UNCHANGED <<queue, slot, lastSeq, taken, takenFor, log, clearing>>
  BY DEF RunBind, Bind
<1>2. "bind" \in Ops
  BY DEF Ops
<1>3. /\ PageTypes' /\ BindsInOrder' /\ ClearsAsked' /\ HeldTypes'
      /\ UNCHANGED <<holding, page, uiQueue, list, clears, missed>>
      /\ Head(cmds).page \in Nat /\ channel < Head(cmds).page /\ Head(cmds).page <= page
  BY <1>1, <1>2, CommandFacts
<1>4. StreamTypes'
  <2>1. channel \in Nat /\ takenFor \in Nat /\ takenFor <= channel
    BY DEF Base, StreamTypes
  <2>2. channel' \in Nat /\ takenFor' <= channel'
    BY <1>1, <1>3, <2>1
  <2> QED BY <1>1, <2>2 DEF Base, StreamTypes, Stands
<1>5. PauseNotes' /\ ~paused'.on
  <2>1. /\ paused' = NotPaused /\ paused'.on = FALSE /\ paused'.changed = <<>> /\ paused'.seen = {}
        /\ paused'.through = 0
    BY <1>1 DEF NotPaused
  <2>2. paused' \in [on : BOOLEAN, through : Nat, changed : Seq(Seqs), seen : SUBSET Seqs]
    BY <1>1 DEF NotPaused
  <2>3. 0 <= lastSeq' /\ Len(<<>>) = 0
    BY <1>4 DEF StreamTypes
  <2> QED BY <2>1, <2>2, <2>3 DEF PauseNotes
<1>6. StoreTypes'
  BY <1>1, StoreSame DEF Base
<1>7. page \in Nat /\ channel \in Nat
  BY DEF Base, PageTypes, StreamTypes
<1> QED BY <1>1, <1>3, <1>4, <1>5, <1>6, <1>7 DEF Base

LEMMA PauseBase ==
  ASSUME Base, RunPause
  PROVE  /\ Base' /\ UNCHANGED <<channel, queue, slot, lastSeq, taken, takenFor, log, holding, page,
                                 uiQueue, list, clears, missed>>
         /\ \/ paused' = paused
            \/ ~paused.on /\ paused'.through = lastSeq /\ paused'.seen = {}
<1>1. /\ Command("pause") /\ Pause /\ UNCHANGED <<channel, queue, slot, lastSeq, taken, takenFor, log, clearing>>
  BY DEF RunPause, Pause
<1>2. "pause" \in Ops
  BY DEF Ops
<1>3. /\ PageTypes' /\ BindsInOrder' /\ ClearsAsked' /\ HeldTypes'
      /\ UNCHANGED <<holding, page, uiQueue, list, clears, missed>>
  BY <1>1, <1>2, CommandFacts
<1>4. StreamTypes' /\ StoreTypes'
  BY <1>1, StoreSame DEF Base, StreamTypes, Stands
<1>5. CASE paused.on
  <2>1. paused' = paused
    BY <1>1, <1>5 DEF Pause
  <2>2. PauseNotes'
    BY <1>1, <2>1 DEF Base, PauseNotes
  <2> QED BY <1>1, <1>3, <1>4, <2>1, <2>2 DEF Base
<1>6. CASE ~paused.on
  <2>1. paused' = [NotPaused EXCEPT !.on = TRUE, !.through = lastSeq]
    BY <1>1, <1>6 DEF Pause
  <2>2. lastSeq \in Nat
    BY DEF Base, StreamTypes
  <2>3. paused'.on = TRUE /\ paused'.changed = <<>> /\ paused'.seen = {} /\ paused'.through = lastSeq
    BY <2>1 DEF NotPaused
  <2>4. paused' \in [on : BOOLEAN, through : Nat, changed : Seq(Seqs), seen : SUBSET Seqs]
    <3>1. NotPaused \in [on : BOOLEAN, through : Nat, changed : Seq(Seqs), seen : SUBSET Seqs]
      BY DEF NotPaused
    <3> QED BY <2>1, <2>2, <3>1
  <2>5. PauseNotes'
    BY <1>1, <2>2, <2>3, <2>4 DEF PauseNotes
  <2> QED BY <1>1, <1>3, <1>4, <1>6, <2>3, <2>5 DEF Base
<1> QED BY <1>5, <1>6

LEMMA ResumeBase ==
  ASSUME Base, RunResume
  PROVE  /\ Base' /\ UNCHANGED <<channel, lastSeq, taken, takenFor, log, holding, page,
                                 uiQueue, list, clears, missed>>
         /\ ~paused'.on
         /\ DOMAIN slot' = DOMAIN slot \union (paused.seen \intersect Store!Logged)
         /\ \A i \in DOMAIN slot' :
              Shows(Stands', i) = IF i \in paused.seen /\ i \in Store!Logged
                                    THEN Store!At(i) ELSE Shows(Stands, i)
<1>1. Command("resume") /\ Resume(Current) /\ UNCHANGED <<log, clearing>>
  BY DEF RunResume
<1>2. "resume" \in Ops
  BY DEF Ops
<1>3. /\ DOMAIN Current = Store!Logged
      /\ \A i \in Store!Logged : Current[i] = Store!At(i)
  BY DEF Current
<1>4. Store!Logged \subseteq Seqs /\ \A i \in Store!Logged : Store!At(i) \in Nat
  BY LogFacts DEF Base, LogTells, Shots
<1> DEFINE current == Current
<1> HIDE DEF current
<1>5. /\ DOMAIN current \subseteq Seqs /\ \A i \in DOMAIN current : current[i] \in Nat
      /\ Resume(current)
  BY <1>1, <1>3, <1>4 DEF current
<1>6. /\ Sound(Stands')
      /\ DOMAIN slot' = DOMAIN slot \union (paused.seen \intersect DOMAIN current)
      /\ \A i \in DOMAIN slot' :
           Shows(Stands', i) = IF i \in paused.seen /\ i \in DOMAIN current
                                 THEN current[i] ELSE Shows(Stands, i)
      /\ paused' = NotPaused /\ UNCHANGED <<channel, lastSeq, taken, takenFor>>
  BY <1>5, ResumeFacts DEF Base, StreamTypes
<1>7. /\ PageTypes' /\ BindsInOrder' /\ ClearsAsked' /\ HeldTypes'
      /\ UNCHANGED <<holding, page, uiQueue, list, clears, missed>>
  BY <1>1, <1>2, <1>6, CommandFacts
<1>8. StreamTypes' /\ StoreTypes'
  BY <1>1, <1>6, StoreSame DEF Base, StreamTypes
<1>9. PauseNotes' /\ ~paused'.on
  <2>1. /\ paused' = NotPaused /\ paused'.on = FALSE /\ paused'.changed = <<>> /\ paused'.seen = {}
        /\ paused'.through = 0
    BY <1>6 DEF NotPaused
  <2>2. paused' \in [on : BOOLEAN, through : Nat, changed : Seq(Seqs), seen : SUBSET Seqs]
    BY <1>6 DEF NotPaused
  <2>3. 0 <= lastSeq' /\ Len(<<>>) = 0
    BY <1>8 DEF StreamTypes
  <2> QED BY <2>1, <2>2, <2>3 DEF PauseNotes
<1>10. DOMAIN current = Store!Logged /\ \A i \in Store!Logged : current[i] = Store!At(i)
  BY <1>3 DEF current
<1> QED BY <1>1, <1>6, <1>7, <1>8, <1>9, <1>10 DEF Base

LEMMA ClearBase ==
  ASSUME Base, RunClear
  PROVE  Base' /\ UNCHANGED <<streamVars, holding, page, uiQueue, list, clears, missed>> /\ clears' # 0
<1>1. Command("clear") /\ log' = <<>> /\ UNCHANGED streamVars
  BY DEF RunClear, Store!Clear
<1>2. "clear" \in Ops
  BY DEF Ops
<1>3. /\ PageTypes' /\ BindsInOrder' /\ ClearsAsked' /\ HeldTypes'
      /\ UNCHANGED <<holding, page, uiQueue, list, clears, missed>> /\ clears # 0
  BY <1>1, <1>2, CommandFacts DEF streamVars
<1>4. StreamTypes' /\ PauseNotes'
  BY <1>1, StreamSame DEF Base
<1>5. StoreTypes'
  BY <1>1 DEF StoreTypes, Distinct
<1> QED BY <1>1, <1>3, <1>4, <1>5 DEF Base

LEMMA DiscardBase ==
  ASSUME Base, RunDiscard
  PROVE  /\ Base' /\ UNCHANGED <<channel, lastSeq, taken, takenFor, log, holding, uiVars, clears, missed>>
         /\ clears' # 0 /\ DOMAIN slot' = {}
         /\ paused'.on = paused.on /\ paused'.through = paused.through /\ paused'.seen = {}
<1>1. /\ clearing /\ Discard /\ clearing' = FALSE
      /\ UNCHANGED <<log, clock, nextSeq, holding, uiVars, clears, missed>>
  BY DEF RunDiscard
<1>2. /\ queue' = <<>> /\ DOMAIN slot' = {} /\ UNCHANGED <<channel, lastSeq, taken, takenFor>>
      /\ paused' = [paused EXCEPT !.changed = <<>>, !.seen = {}]
  BY <1>1 DEF Discard
<1>3. Stands'.q = <<>> /\ DOMAIN Stands'.at = {}
  BY <1>2 DEF Stands
<1>4. Sound(Stands')
  BY <1>3 DEF Sound, IdsOf
<1>5. StreamTypes'
  BY <1>2, <1>4 DEF Base, StreamTypes
<1>6. /\ paused'.on = paused.on /\ paused'.through = paused.through
      /\ paused'.changed = <<>> /\ paused'.seen = {}
      /\ paused' \in [on : BOOLEAN, through : Nat, changed : Seq(Seqs), seen : SUBSET Seqs]
  <2>1. /\ paused \in [on : BOOLEAN, through : Nat, changed : Seq(Seqs), seen : SUBSET Seqs]
        /\ <<>> \in Seq(Seqs) /\ {} \in SUBSET Seqs
    BY DEF Base, PauseNotes
  <2> QED BY <1>2, <2>1
<1>8. PauseNotes'
  BY <1>2, <1>6 DEF Base, PauseNotes
<1>9. StoreTypes' /\ HeldTypes'
  BY <1>1, StoreSame, HeldSame DEF Base
<1>10. clears # 0 /\ ClearsAsked'
  BY <1>1 DEF Base, ClearsAsked
<1>11. PageTypes' /\ BindsInOrder'
  BY <1>1, <1>2 DEF Base, PageTypes, BindsInOrder, uiVars
<1> QED BY <1>1, <1>2, <1>5, <1>6, <1>8, <1>9, <1>10, <1>11 DEF Base

LEMMA BaseNext == Base /\ [Next]_vars => Base'
<1> SUFFICES ASSUME Base, [Next]_vars PROVE Base'
  OBVIOUS
<1>1. CASE \E t \in Tasks : Engine(t)
  BY <1>1, BeginBase, InsertBase, ChangeBase, EmitBase DEF Engine
<1>2. CASE Restart \/ FlushTake \/ FlushSend \/ PageFlush
  BY <1>2, RestartBase, TakeBase, SendBase, PageFlushBase
<1>3. CASE SetRecording \/ ClearAll \/ Reload
  BY <1>3, RecordingBase, ClearAllBase, ReloadBase
<1>4. CASE App
  BY <1>4, BindBase, PauseBase, ResumeBase, ClearBase, DiscardBase DEF App
<1>5. CASE UNCHANGED vars
  <2>1. UNCHANGED <<streamVars, log, clock, nextSeq, holding, uiVars, clearing, clears>>
    BY <1>5 DEF vars
  <2>2. StreamTypes' /\ PauseNotes' /\ StoreTypes' /\ HeldTypes'
    BY <2>1, StreamSame, StoreSame, HeldSame DEF Base
  <2>3. PageTypes' /\ BindsInOrder' /\ ClearsAsked'
    <3>1. clock' \in Nat /\ nextSeq' \in Nat /\ DOMAIN uiQueue' \subseteq Seqs /\ DOMAIN list' \subseteq Seqs
      BY <2>1 DEF Base, PageTypes, uiVars
    <3>2. UNCHANGED <<channel, page, cmds, clearing, clears>>
      BY <2>1 DEF streamVars, uiVars
    <3> QED BY <3>1, <3>2, PageSame DEF Base
  <2> QED BY <2>2, <2>3 DEF Base
<1> QED BY <1>1, <1>2, <1>3, <1>4, <1>5 DEF Next

LEMMA BaseSlots == Base => SlotIndexesQueue
<1> SUFFICES ASSUME Base PROVE SlotIndexesQueue
  OBVIOUS
<1>1. Sound(Stands) /\ Stands.q = queue /\ Stands.at = slot
  BY DEF Base, StreamTypes, Stands
<1>2. DOMAIN queue = 1..Len(queue)
  BY <1>1 DEF Sound
<1> QED BY <1>1, <1>2 DEF Sound, SlotIndexesQueue, IdsOf

LEMMA SpecBase == Spec => []Base
BY InitBase, BaseNext, PTL DEF Spec

(* The index of the queue and the queue stay one, through replaced         *)
(* snapshots, flushes, pauses and clears: emit and resume write where the  *)
(* index says without a check (state.rs, StreamState::queue).              *)
THEOREM SlotsStayTrue == Spec => []SlotIndexesQueue
BY SpecBase, BaseSlots, PTL

------------------------------------------------------------------------------
(* Every retained flow is found.                                           *)

LEMMA LoggedSame ==
  ASSUME UNCHANGED log
  PROVE  (Store!Logged)' = Store!Logged /\ \A i : Store!At(i)' = Store!At(i)
BY DEF Store!Logged, Store!At, Store!Place

LEMMA InHandKept ==
  ASSUME NEW t \in Tasks, holding[t].at # "emit",
         \A u \in Tasks \ {t} : holding'[u] = holding[u]
  PROVE  \A i : InHand(i) => InHand(i)'
BY DEF InHand

LEMMA UnderwayKept ==
  ASSUME UNCHANGED <<streamVars, page>>
  PROVE  \A i : Underway(i)' <=> Underway(i)
BY DEF Underway, Noted, streamVars

LEMMA TaskAccounts ==
  ASSUME Base, Accounted, NEW t \in Tasks, Engine(t)
  PROVE  Accounted'
<1>1. CASE BeginFlow(t)
  <2>1. /\ UNCHANGED <<streamVars, log, uiVars, clears, missed>>
        /\ holding[t].at = "idle" /\ \A u \in Tasks \ {t} : holding'[u] = holding[u]
    BY <1>1, BeginBase
  <2>2. \A i : (InHand(i) => InHand(i)') /\ (Underway(i)' <=> Underway(i))
    BY <2>1, InHandKept, UnderwayKept DEF uiVars
  <2>3. (Store!Logged)' = Store!Logged
    BY <2>1, LoggedSame
  <2>4. UNCHANGED <<uiQueue, list, missed, clears>>
    BY <2>1 DEF uiVars
  <2> QED BY <2>2, <2>3, <2>4 DEF Accounted, Found
<1>2. ASSUME InsertFlow(t) \/ \E id \in Seqs : ChangeFlow(t, id)
      PROVE  Accounted'
  <2>1. /\ UNCHANGED <<streamVars, uiVars, clears, missed>>
        /\ holding[t].at # "emit" /\ holding'[t].at = "emit"
        /\ StoreChange(holding'[t])
        /\ \A u \in Tasks \ {t} : holding'[u] = holding[u]
    BY <1>2, InsertBase, ChangeBase
  <2>2. \A i : (InHand(i) => InHand(i)') /\ (Underway(i)' <=> Underway(i))
    BY <2>1, InHandKept, UnderwayKept DEF uiVars
  <2>3. \A i : i = holding'[t].id => InHand(i)'
    BY <2>1 DEF InHand
  <2>4. (Store!Logged)' \subseteq Store!Logged \union {holding'[t].id}
    BY <2>1 DEF StoreChange
  <2>5. UNCHANGED <<uiQueue, list, missed, clears>>
    BY <2>1 DEF uiVars
  <2> QED BY <2>2, <2>3, <2>4, <2>5 DEF Accounted, Found
<1>3. CASE EmitFlow(t)
  <2>1. /\ UNCHANGED <<log, uiVars, clears>>
        /\ Snap(t) \in Shots /\ Emit(Snap(t)) /\ Snap(t).id = holding[t].id
        /\ missed' = IF channel # page \/ (paused.on /\ holding[t].id > paused.through)
                       THEN missed \union {holding[t].id} ELSE missed
        /\ \A u \in Tasks \ {t} : holding'[u] = holding[u]
    BY <1>3, EmitBase DEF Snap
  <2>2. \A i : InHand(i) => i = holding[t].id \/ InHand(i)'
    BY <2>1 DEF InHand
  <2>3. /\ UNCHANGED <<channel, taken, takenFor>>
        /\ \/ channel = 0 /\ UNCHANGED streamVars
           \/ /\ channel # 0 /\ paused.on /\ UNCHANGED <<queue, slot>> /\ paused'.on
              /\ paused'.seen = paused.seen \union IF holding[t].id <= paused.through THEN {holding[t].id} ELSE {}
           \/ /\ ~paused.on /\ UNCHANGED paused
              /\ DOMAIN slot' = DOMAIN slot \union {holding[t].id}
    BY <2>1, EmitFacts DEF Base
  <2>4. UNCHANGED <<page, uiQueue, list, clears>> /\ missed \subseteq missed'
    BY <2>1 DEF uiVars
  <2>5. \A i : Underway(i) => Underway(i)'
    <3>1. CASE channel = 0 /\ UNCHANGED streamVars
      BY <2>4, <3>1, UnderwayKept
    <3>2. CASE paused.on /\ UNCHANGED <<queue, slot>> /\ paused'.on /\ paused.seen \subseteq paused'.seen
      BY <2>3, <2>4, <3>2 DEF Underway, Noted
    <3>3. CASE UNCHANGED paused /\ DOMAIN slot \subseteq DOMAIN slot'
      BY <2>3, <2>4, <3>3 DEF Underway, Noted
    <3> QED BY <2>3, <3>1, <3>2, <3>3
  <2>6. \A i : i = holding[t].id => i \in missed' \/ Underway(i)'
    <3>1. CASE channel # page \/ (paused.on /\ holding[t].id > paused.through)
      BY <2>1, <3>1
    <3>2. CASE channel = page /\ paused.on /\ ~(holding[t].id > paused.through)
      <4>1. holding[t].id \in Int /\ paused.through \in Int /\ channel # 0
        <5>1. Snap(t).id \in Nat
          BY <2>1, StreamAssumption DEF Shots
        <5> QED BY <2>1, <3>2, <5>1 DEF Base, PauseNotes, PageTypes
      <4>2. holding[t].id <= paused.through
        BY <3>2, <4>1
      <4>3. paused'.on /\ holding[t].id \in paused'.seen
        BY <2>3, <3>2, <4>1, <4>2
      <4> QED BY <2>3, <2>4, <3>2, <4>3 DEF Underway, Noted
    <3>3. CASE channel = page /\ ~paused.on
      <4>1. channel # 0
        BY <3>3 DEF Base, PageTypes
      <4>2. holding[t].id \in DOMAIN slot'
        BY <2>3, <3>3, <4>1
      <4> QED BY <2>3, <2>4, <3>3, <4>2 DEF Underway
    <3> QED BY <3>1, <3>2, <3>3
  <2>7. (Store!Logged)' = Store!Logged
    BY <2>1, LoggedSame
  <2> QED BY <2>2, <2>4, <2>5, <2>6, <2>7 DEF Accounted, Found
<1> QED BY <1>1, <1>2, <1>3 DEF Engine

LEMMA FlushAccounts ==
  ASSUME Base, Accounted, Restart \/ FlushTake \/ FlushSend \/ PageFlush
  PROVE  Accounted'
<1>1. CASE Restart
  <2>1. UNCHANGED <<streamVars, log, holding, uiVars, clears, missed>>
    BY <1>1, RestartBase
  <2>2. \A i : (InHand(i)' <=> InHand(i)) /\ (Underway(i)' <=> Underway(i))
    BY <2>1, UnderwayKept DEF InHand, uiVars
  <2>3. (Store!Logged)' = Store!Logged
    BY <2>1, LoggedSame
  <2>4. UNCHANGED <<uiQueue, list, missed, clears>>
    BY <2>1 DEF uiVars
  <2> QED BY <2>2, <2>3, <2>4 DEF Accounted, Found
<1>2. CASE FlushTake
  <2>1. /\ UNCHANGED <<channel, paused, log, holding, uiVars, clears, missed>>
        /\ takenFor' = channel /\ IdsOf(taken) = {} /\ IdsOf(taken') = DOMAIN slot
    BY <1>2, TakeBase
  <2>2. \A i : Underway(i) => Underway(i)'
    BY <2>1 DEF Underway, Noted, uiVars
  <2>3. \A i : InHand(i)' <=> InHand(i)
    BY <2>1 DEF InHand
  <2>4. (Store!Logged)' = Store!Logged
    BY <2>1, LoggedSame
  <2>5. UNCHANGED <<uiQueue, list, missed, clears>>
    BY <2>1 DEF uiVars
  <2> QED BY <2>2, <2>3, <2>4, <2>5 DEF Accounted, Found
<1>3. CASE FlushSend
  <2>1. /\ UNCHANGED <<channel, queue, slot, paused, takenFor, log, holding, page, list, clears, missed>>
        /\ takenFor # page => uiQueue' = uiQueue
    BY <1>3, SendBase
  <2>2. taken \in Seq(Shots) /\ Distinct(taken) /\ Send
    BY <1>3 DEF Base, StreamTypes, FlushSend
  <2>3. IdsOf(taken) = IdsOf(Message) \union IdsOf(taken')
    BY <2>2, SendFacts
  <2>4. takenFor = page => DOMAIN uiQueue' = DOMAIN uiQueue \union IdsOf(Message)
    BY <1>3, <2>2, DeliverFacts
  <2>5. \A i : Underway(i) => Underway(i)' \/ i \in DOMAIN uiQueue'
    BY <2>1, <2>3, <2>4 DEF Underway, Noted
  <2>6. \A i : InHand(i)' <=> InHand(i)
    BY <2>1 DEF InHand
  <2>7. (Store!Logged)' = Store!Logged
    BY <2>1, LoggedSame
  <2>8. DOMAIN uiQueue \subseteq DOMAIN uiQueue'
    BY <2>1, <2>4
  <2> QED BY <2>1, <2>5, <2>6, <2>7, <2>8 DEF Accounted, Found
<1>4. CASE PageFlush
  <2>1. /\ UNCHANGED <<streamVars, log, holding, page, clears>>
        /\ DOMAIN list \subseteq DOMAIN list' /\ missed \subseteq missed'
        /\ DOMAIN uiQueue \subseteq DOMAIN list' \union missed'
    BY <1>4, PageFlushBase
  <2>2. \A i : (InHand(i)' <=> InHand(i)) /\ (Underway(i)' <=> Underway(i))
    BY <2>1, UnderwayKept DEF InHand
  <2>3. (Store!Logged)' = Store!Logged
    BY <2>1, LoggedSame
  <2> QED BY <2>1, <2>2, <2>3 DEF Accounted, Found
<1> QED BY <1>1, <1>2, <1>3, <1>4

LEMMA PageAccounts ==
  ASSUME Base, Accounted, SetRecording \/ ClearAll \/ Reload
  PROVE  Accounted'
<1>1. CASE SetRecording
  <2>1. UNCHANGED <<streamVars, log, holding, page, uiQueue, list, clears, missed>>
    BY <1>1, RecordingBase
  <2>2. \A i : (InHand(i)' <=> InHand(i)) /\ (Underway(i)' <=> Underway(i))
    BY <2>1, UnderwayKept DEF InHand
  <2>3. (Store!Logged)' = Store!Logged
    BY <2>1, LoggedSame
  <2> QED BY <2>1, <2>2, <2>3 DEF Accounted, Found
<1>2. CASE ClearAll
  BY <1>2, ClearAllBase DEF Accounted
<1>3. CASE Reload
  <2>1. UNCHANGED log /\ Store!Logged \subseteq missed'
    BY <1>3, ReloadBase
  <2>2. (Store!Logged)' = Store!Logged
    BY <2>1, LoggedSame
  <2> QED BY <2>1, <2>2 DEF Accounted, Found
<1> QED BY <1>1, <1>2, <1>3

LEMMA AppAccounts ==
  ASSUME Base, Accounted, App
  PROVE  Accounted'
<1>1. CASE RunBind
  <2>1. /\ UNCHANGED <<log, holding, page, uiQueue, list, clears, missed>>
        /\ channel < page
    BY <1>1, BindBase
  <2>2. \A i : ~Underway(i)
    BY <2>1 DEF Underway, Base, PageTypes, StreamTypes
  <2>3. \A i : InHand(i)' <=> InHand(i)
    BY <2>1 DEF InHand
  <2>4. (Store!Logged)' = Store!Logged
    BY <2>1, LoggedSame
  <2> QED BY <2>1, <2>2, <2>3, <2>4 DEF Accounted, Found
<1>2. CASE RunPause
  <2>1. /\ UNCHANGED <<channel, slot, taken, takenFor, log, holding, page, uiQueue, list, clears, missed>>
        /\ paused' = paused \/ ~paused.on
    BY <1>2, PauseBase
  <2>2. \A i : Underway(i) => Underway(i)'
    BY <2>1 DEF Underway, Noted
  <2>3. \A i : InHand(i)' <=> InHand(i)
    BY <2>1 DEF InHand
  <2>4. (Store!Logged)' = Store!Logged
    BY <2>1, LoggedSame
  <2> QED BY <2>1, <2>2, <2>3, <2>4 DEF Accounted, Found
<1>3. CASE RunResume
  <2>1. /\ UNCHANGED <<channel, taken, takenFor, log, holding, page, uiQueue, list, clears, missed>>
        /\ DOMAIN slot' = DOMAIN slot \union (paused.seen \intersect Store!Logged)
    BY <1>3, ResumeBase
  <2>2. \A i \in Store!Logged : Underway(i) => Underway(i)'
    BY <2>1 DEF Underway, Noted
  <2>3. \A i : InHand(i)' <=> InHand(i)
    BY <2>1 DEF InHand
  <2>4. (Store!Logged)' = Store!Logged
    BY <2>1, LoggedSame
  <2> QED BY <2>1, <2>2, <2>3, <2>4 DEF Accounted, Found
<1>4. CASE RunClear \/ RunDiscard
  BY <1>4, ClearBase, DiscardBase DEF Accounted
<1> QED BY <1>1, <1>2, <1>3, <1>4 DEF App

LEMMA AccountedNext == Base /\ Accounted /\ [Next]_vars => Accounted'
<1> SUFFICES ASSUME Base, Accounted, [Next]_vars PROVE Accounted'
  OBVIOUS
<1>1. CASE Next
  BY <1>1, TaskAccounts, FlushAccounts, PageAccounts, AppAccounts DEF Next
<1>2. CASE UNCHANGED vars
  <2>1. UNCHANGED <<streamVars, log, holding, uiVars, clears, missed>>
    BY <1>2 DEF vars
  <2>2. UNCHANGED <<page, uiQueue, list>>
    BY <2>1 DEF uiVars
  <2>3. \A i : (InHand(i)' <=> InHand(i)) /\ (Underway(i)' <=> Underway(i))
    BY <2>1, <2>2, UnderwayKept DEF InHand
  <2>4. (Store!Logged)' = Store!Logged
    BY <2>1, LoggedSame
  <2> QED BY <2>1, <2>2, <2>3, <2>4 DEF Accounted, Found
<1> QED BY <1>1, <1>2

LEMMA NothingLost == Base /\ Accounted => NoFlowLost
<1> SUFFICES ASSUME Base, Accounted, Settled, Live, clears = 0, NEW i \in Store!Logged
             PROVE  i \in DOMAIN list \union missed
  BY DEF NoFlowLost
<1>1. Found(i)
  BY DEF Accounted
<1>2. ~InHand(i) /\ DOMAIN uiQueue = {} /\ ~Noted(i) /\ queue = <<>> /\ taken = <<>>
  BY DEF Settled, Live, InHand, Noted, Empty
<1>3. DOMAIN slot = {}
  <2>1. Sound(Stands) /\ Stands.q = <<>> /\ Stands.at = slot
    BY <1>2 DEF Base, StreamTypes, Stands
  <2> QED BY <2>1 DEF Sound, IdsOf
<1>4. IdsOf(taken) = {}
  BY <1>2 DEF IdsOf
<1> QED BY <1>1, <1>2, <1>3, <1>4 DEF Found, Underway

(* Once everything on its way has arrived, each flow the store retains is  *)
(* on the list of a page that records, or was rightly left out: what tasks *)
(* emit after the store has let go (flow.rs, Shared::insert and update)    *)
(* gets through the queue, its batches, pauses, reloads and restarts.      *)
THEOREM FlowsArrive == Spec => []NoFlowLost
<1>1. Init => Accounted
  BY DEF Init, Store!Init, Accounted, Store!Logged
<1>2. Base /\ Accounted /\ [Next]_vars => Accounted'
  BY AccountedNext
<1> QED BY <1>1, <1>2, SpecBase, NothingLost, PTL DEF Spec

------------------------------------------------------------------------------
(* The newest snapshot of a flow is the last to arrive.                    *)

LEMMA WayTypes == Base => OnItsWay \subseteq Nat
<1> SUFFICES ASSUME Base PROVE OnItsWay \subseteq Nat
  OBVIOUS
<1>1. /\ Stands.q \in Seq(Shots) /\ DOMAIN slot = IdsOf(Stands.q) /\ taken \in Seq(Shots)
  BY DEF Base, StreamTypes, Sound, Stands
<1>2. \A s \in Seq(Shots) : IdsOf(s) \subseteq Seqs
  <2> SUFFICES ASSUME NEW s \in Seq(Shots), NEW n \in 1..Len(s) PROVE s[n].id \in Seqs
    BY DEF IdsOf
  <2>1. s[n] \in Shots
    BY ElementOfSeq
  <2> QED BY <2>1 DEF Shots
<1> QED BY <1>1, <1>2, StreamAssumption DEF OnItsWay, Base, PageTypes

LEMMA HeardLess ==
  ASSUME Base, Heard, OnItsWay' \subseteq OnItsWay, lastSeq <= lastSeq', lastSeq' \in Nat,
         paused'.on => paused.on /\ paused'.through = paused.through,
         channel' = 0 => channel = 0 /\ paused'.seen \subseteq paused.seen
  PROVE  Heard'
<1>1. lastSeq \in Nat
  BY DEF Base, StreamTypes
<1>2. \A i \in OnItsWay : i \in Nat
  BY WayTypes
<1>3. \A i \in OnItsWay' : i <= lastSeq'
  BY <1>1, <1>2 DEF Heard
<1> QED BY <1>3 DEF Heard

LEMMA WaySame ==
  ASSUME UNCHANGED <<slot, taken, uiQueue, list>>
  PROVE  OnItsWay' = OnItsWay
BY DEF OnItsWay, IdsOf

LEMMA HeardNext == Base /\ Heard /\ [Next]_vars => Heard'
<1> SUFFICES ASSUME Base, Heard, [Next]_vars PROVE Heard'
  OBVIOUS
<1>0. Base' /\ lastSeq \in Nat /\ lastSeq <= lastSeq /\ lastSeq' \in Nat
  BY BaseNext DEF Base, StreamTypes
<1>1. ASSUME UNCHANGED <<streamVars, uiQueue, list>> PROVE Heard'
  <2>1. UNCHANGED <<slot, taken, uiQueue, list, channel, lastSeq, paused>>
    BY <1>1 DEF streamVars
  <2>2. OnItsWay' = OnItsWay
    BY <2>1, WaySame
  <2> QED BY <1>0, <2>1, <2>2, HeardLess
<1>2. ASSUME NEW t \in Tasks, Engine(t) PROVE Heard'
  <2>1. CASE BeginFlow(t) \/ InsertFlow(t) \/ \E id \in Seqs : ChangeFlow(t, id)
    BY <1>1, <2>1, BeginBase, InsertBase, ChangeBase DEF uiVars
  <2>2. CASE EmitFlow(t)
    <3> DEFINE f == Snap(t)
    <3>1. f \in Shots /\ Emit(f) /\ UNCHANGED <<uiQueue, list>>
      BY <2>2, EmitBase DEF uiVars
    <3> HIDE DEF f
    <3>2. /\ UNCHANGED <<channel, taken, takenFor>>
          /\ \/ channel = 0 /\ UNCHANGED streamVars
             \/ /\ channel # 0 /\ paused.on /\ UNCHANGED <<queue, slot>>
                /\ paused'.on /\ paused'.through = paused.through /\ lastSeq' >= lastSeq
             \/ /\ channel # 0 /\ ~paused.on /\ UNCHANGED paused
                /\ DOMAIN slot' = DOMAIN slot \union {f.id}
                /\ lastSeq' >= lastSeq /\ lastSeq' >= f.id
      BY <3>1, EmitFacts DEF Base
    <3>3. CASE channel = 0 /\ UNCHANGED streamVars
      BY <1>1, <3>1, <3>3
    <3>4. CASE /\ channel # 0 /\ paused.on /\ UNCHANGED <<queue, slot>>
               /\ paused'.on /\ paused'.through = paused.through /\ lastSeq' >= lastSeq
      <4>1. OnItsWay' = OnItsWay
        BY <3>1, <3>2, <3>4, WaySame
      <4>2. lastSeq <= lastSeq'
        BY <1>0, <3>4 DEF Base, StreamTypes
      <4> QED BY <1>0, <3>2, <3>4, <4>1, <4>2, HeardLess
    <3>5. CASE /\ channel # 0 /\ ~paused.on /\ UNCHANGED paused
               /\ DOMAIN slot' = DOMAIN slot \union {f.id}
               /\ lastSeq' >= lastSeq /\ lastSeq' >= f.id
      <4>1. OnItsWay' = OnItsWay \union {f.id}
        BY <3>1, <3>2, <3>5 DEF OnItsWay, IdsOf
      <4>2. lastSeq' \in Nat /\ f.id \in Nat
        BY <1>0, <3>1, StreamAssumption DEF Base, StreamTypes, Shots
      <4>3. OnItsWay \subseteq Nat
        BY WayTypes
      <4>4. \A i \in OnItsWay' : i <= lastSeq'
        <5> SUFFICES ASSUME NEW i \in OnItsWay' PROVE i <= lastSeq'
          OBVIOUS
        <5>1. CASE i = f.id
          BY <3>5, <4>2, <5>1
        <5>2. CASE i \in OnItsWay
          <6>1. i <= lastSeq /\ i \in Nat
            BY <4>3, <5>2 DEF Heard
          <6> QED BY <1>0, <3>5, <4>2, <6>1
        <5> QED BY <4>1, <5>1, <5>2
      <4> QED BY <3>2, <3>5, <4>4 DEF Heard
    <3> QED BY <3>2, <3>3, <3>4, <3>5
  <2> QED BY <1>2, <2>1, <2>2 DEF Engine
<1>3. CASE Restart \/ SetRecording \/ RunClear \/ UNCHANGED vars
  <2>1. UNCHANGED <<streamVars, uiQueue, list>>
    BY <1>3, RestartBase, RecordingBase, ClearBase DEF vars, uiVars
  <2> QED BY <1>1, <2>1
<1>4. CASE FlushTake
  <2>1. /\ UNCHANGED <<channel, lastSeq, paused, uiQueue, list>>
        /\ DOMAIN slot' = {} /\ IdsOf(taken) = {} /\ IdsOf(taken') = DOMAIN slot
    BY <1>4, TakeBase DEF uiVars
  <2>2. OnItsWay' = DOMAIN slot' \union IdsOf(taken') \union DOMAIN uiQueue' \union DOMAIN list'
    BY DEF OnItsWay, IdsOf
  <2>3. OnItsWay' \subseteq OnItsWay
    BY <2>1, <2>2 DEF OnItsWay
  <2> QED BY <1>0, <2>1, <2>3, HeardLess
<1>5. CASE FlushSend
  <2>1. UNCHANGED <<channel, slot, lastSeq, paused, list>> /\ (takenFor # page => uiQueue' = uiQueue)
    BY <1>5, SendBase
  <2>2. taken \in Seq(Shots) /\ Distinct(taken) /\ Send
    BY <1>5 DEF Base, StreamTypes, FlushSend
  <2>3. IdsOf(taken) = IdsOf(Message) \union IdsOf(taken')
    BY <2>2, SendFacts
  <2>4. takenFor = page => DOMAIN uiQueue' = DOMAIN uiQueue \union IdsOf(Message)
    BY <1>5, <2>2, DeliverFacts
  <2>5. OnItsWay' = DOMAIN slot' \union IdsOf(taken') \union DOMAIN uiQueue' \union DOMAIN list'
    BY DEF OnItsWay, IdsOf
  <2>6. OnItsWay' \subseteq OnItsWay
    BY <2>1, <2>3, <2>4, <2>5 DEF OnItsWay
  <2> QED BY <1>0, <2>1, <2>6, HeardLess
<1>6. CASE PageFlush \/ ClearAll \/ Reload
  <2>1. /\ UNCHANGED streamVars
        /\ DOMAIN uiQueue' = {} /\ DOMAIN list' \subseteq DOMAIN list \union DOMAIN uiQueue
    BY <1>6, PageFlushBase, ClearAllBase, ReloadBase
  <2>2. UNCHANGED <<channel, lastSeq, paused, slot, taken>>
    BY <2>1 DEF streamVars
  <2>3. OnItsWay' \subseteq OnItsWay
    BY <2>1, <2>2 DEF OnItsWay, IdsOf
  <2> QED BY <1>0, <2>2, <2>3, HeardLess
<1>7. CASE RunBind
  <2>1. /\ UNCHANGED <<slot, taken, uiQueue, list, lastSeq>> /\ ~paused'.on
        /\ channel' \in Nat /\ channel < channel'
    BY <1>7, BindBase
  <2>2. OnItsWay' = OnItsWay
    BY <2>1, WaySame
  <2>3. channel' # 0
    BY <2>1 DEF Base, StreamTypes
  <2> QED BY <1>0, <2>1, <2>2, <2>3, HeardLess
<1>8. CASE RunPause
  <2>1. /\ UNCHANGED <<channel, slot, taken, uiQueue, list, lastSeq>>
        /\ \/ paused' = paused
           \/ paused'.through = lastSeq /\ paused'.seen = {}
    BY <1>8, PauseBase
  <2>2. OnItsWay' = OnItsWay
    BY <2>1, WaySame
  <2> QED BY <2>1, <2>2 DEF Heard
<1>9. CASE RunResume
  <2>1. /\ UNCHANGED <<channel, lastSeq, taken, uiQueue, list>> /\ ~paused'.on
        /\ DOMAIN slot' = DOMAIN slot \union (paused.seen \intersect Store!Logged)
    BY <1>9, ResumeBase
  <2>2. OnItsWay' \subseteq OnItsWay \union paused.seen
    BY <2>1 DEF OnItsWay, IdsOf
  <2>3. \A i \in paused.seen : i <= lastSeq
    <3>1. /\ paused.through \in Nat /\ lastSeq \in Nat /\ paused.through <= lastSeq
          /\ \A i \in paused.seen : i \in Nat /\ i <= paused.through
      BY StreamAssumption DEF Base, PauseNotes, StreamTypes
    <3> QED BY <3>1
  <2>4. \A i \in OnItsWay' : i <= lastSeq'
    BY <2>1, <2>2, <2>3 DEF Heard
  <2>5. channel' = 0 => paused'.seen = {}
    <3>1. paused' = NotPaused
      BY <1>9 DEF RunResume, Resume
    <3> QED BY <3>1 DEF NotPaused
  <2>6. channel' = 0 => OnItsWay' = {}
    BY <2>1, <2>2 DEF Heard
  <2> QED BY <2>1, <2>4, <2>5, <2>6 DEF Heard
<1>10. CASE RunDiscard
  <2>1. /\ UNCHANGED <<channel, lastSeq, taken, uiQueue, list>>
        /\ DOMAIN slot' = {} /\ paused'.on = paused.on /\ paused'.through = paused.through
        /\ paused'.seen = {}
    BY <1>10, DiscardBase DEF uiVars
  <2>2. OnItsWay' \subseteq OnItsWay
    BY <2>1 DEF OnItsWay, IdsOf
  <2> QED BY <1>0, <2>1, <2>2, HeardLess
<1> QED BY <1>2, <1>3, <1>4, <1>5, <1>6, <1>7, <1>8, <1>9, <1>10 DEF Next, App

(* A change of a flow is in hand, and is the newest of it. *)
LEMMA ChangeIsNewest ==
  ASSUME Base, Base', HandIsNewest, Apart', NEW t \in Tasks,
         holding[t].at # "emit", holding'[t].at = "emit", StoreChange(holding'[t]),
         \A u \in Tasks \ {t} : holding'[u] = holding[u]
  PROVE  HandIsNewest'
<1> SUFFICES ASSUME NEW u \in Tasks, holding'[u].at = "emit", NEW i \in (Store!Logged)', i = holding'[u].id
             PROVE  holding'[u].data = Store!At(i)'
  <2>1. HandIsNewest' <=> \A u \in Tasks : \A i : 
          holding'[u].at = "emit" /\ i = holding'[u].id /\ i \in (Store!Logged)' =>
            holding'[u].data = Store!At(i)'
    BY DEF HandIsNewest
  <2> QED BY <2>1
<1>1. \A j \in (Store!Logged)' : Store!At(j)' = IF j = holding'[t].id THEN holding'[t].data ELSE Store!At(j)
  BY DEF StoreChange
<1>2. CASE u = t
  BY <1>1, <1>2
<1>3. CASE u # t
  <2>1. i # holding'[t].id
    BY <1>3 DEF Apart
  <2>2. i \in Store!Logged
    BY <2>1 DEF StoreChange
  <2>3. holding[u].at = "emit" /\ holding[u].id = i /\ holding'[u].data = holding[u].data
    BY <1>3
  <2>4. holding[u].data = Store!At(i)
    BY <2>2, <2>3 DEF HandIsNewest
  <2> QED BY <1>1, <2>1, <2>3, <2>4
<1> QED BY <1>2, <1>3

(* Nothing else puts a snapshot in hand. *)
LEMMA HandSame ==
  ASSUME HandIsNewest, UNCHANGED log,
         \A u \in Tasks : holding'[u].at = "emit" => holding'[u] = holding[u]
  PROVE  HandIsNewest'
<1>1. (Store!Logged)' = Store!Logged /\ \A i : Store!At(i)' = Store!At(i)
  BY LoggedSame
<1>2. ASSUME NEW u \in Tasks, holding'[u].at = "emit", NEW i \in Store!Logged, i = holding'[u].id
      PROVE  holding'[u].data = Store!At(i)
  BY <1>2 DEF HandIsNewest
<1>3. HandIsNewest' <=> \A u \in Tasks : \A i :
        holding'[u].at = "emit" /\ i = holding'[u].id /\ i \in (Store!Logged)' =>
          holding'[u].data = Store!At(i)'
  BY DEF HandIsNewest
<1> QED BY <1>1, <1>2, <1>3

LEMMA HandNext == Base /\ HandIsNewest /\ Apart' /\ [Next]_vars => HandIsNewest'
<1> SUFFICES ASSUME Base, HandIsNewest, Apart', [Next]_vars PROVE HandIsNewest'
  OBVIOUS
<1>1. ASSUME NEW t \in Tasks, Engine(t) PROVE HandIsNewest'
  <2>1. CASE BeginFlow(t)
    BY <2>1, BeginBase, HandSame
  <2>2. CASE InsertFlow(t) \/ \E id \in Seqs : ChangeFlow(t, id)
    BY <2>2, InsertBase, ChangeBase, ChangeIsNewest
  <2>3. CASE EmitFlow(t)
    BY <2>3, EmitBase, HandSame
  <2> QED BY <1>1, <2>1, <2>2, <2>3 DEF Engine
<1>2. CASE RunClear
  BY <1>2 DEF RunClear, Store!Clear, Store!Logged, HandIsNewest
<1>3. ASSUME UNCHANGED <<log, holding>> PROVE HandIsNewest'
  BY <1>3, HandSame
<1>4. CASE Restart \/ FlushTake \/ FlushSend \/ PageFlush \/ SetRecording \/ ClearAll \/ Reload
  BY <1>3, <1>4, RestartBase, TakeBase, SendBase, PageFlushBase, RecordingBase, ClearAllBase, ReloadBase
<1>5. CASE RunBind \/ RunPause \/ RunResume \/ RunDiscard
  BY <1>3, <1>5, BindBase, PauseBase, ResumeBase, DiscardBase
<1>6. CASE UNCHANGED vars
  BY <1>3, <1>6 DEF vars
<1> QED BY <1>1, <1>2, <1>4, <1>5, <1>6 DEF Next, App

LEMMA LastSame ==
  ASSUME UNCHANGED <<queue, slot, taken, uiQueue, list>>, NEW i, Store!At(i)' = Store!At(i)
  PROVE  LastIsNewest(i)' <=> LastIsNewest(i)
<1>1. Stands' = Stands /\ IdsOf(taken') = IdsOf(taken)
  BY DEF Stands
<1> QED BY <1>1 DEF LastIsNewest

LEMMA NothingOnItsWay ==
  ASSUME NEW i, i \notin OnItsWay PROVE LastIsNewest(i)
BY DEF OnItsWay, LastIsNewest

LEMMA TaskArrives ==
  ASSUME Base, Heard, HandIsNewest, NewestArrives, NEW t \in Tasks, Engine(t)
  PROVE  NewestArrives'
<1>1. CASE BeginFlow(t)
  <2>1. /\ UNCHANGED <<streamVars, log, uiVars, clears>>
        /\ holding[t].at = "idle" /\ \A u \in Tasks \ {t} : holding'[u] = holding[u]
    BY <1>1, BeginBase
  <2>2. \A i : InHand(i) => InHand(i)'
    BY <2>1, InHandKept
  <2>3. (Store!Logged)' = Store!Logged /\ \A i : Store!At(i)' = Store!At(i)
    BY <2>1, LoggedSame
  <2>4. UNCHANGED <<queue, slot, taken, uiQueue, list, paused, page, clears>>
    BY <2>1 DEF uiVars, streamVars
  <2>5. \A i : LastIsNewest(i)' <=> LastIsNewest(i)
    BY <2>3, <2>4, LastSame
  <2> QED BY <2>2, <2>3, <2>4, <2>5 DEF NewestArrives, Undisturbed, Noted
<1>2. ASSUME InsertFlow(t) \/ \E id \in Seqs : ChangeFlow(t, id)
      PROVE  NewestArrives'
  <2>1. /\ UNCHANGED <<streamVars, uiVars, clears>>
        /\ holding[t].at # "emit" /\ holding'[t].at = "emit"
        /\ StoreChange(holding'[t])
        /\ \A u \in Tasks \ {t} : holding'[u] = holding[u]
    BY <1>2, InsertBase, ChangeBase
  <2>2. \A i : InHand(i) => InHand(i)'
    BY <2>1, InHandKept
  <2>3. \A i : i = holding'[t].id => InHand(i)'
    BY <2>1 DEF InHand
  <2>4. \A i \in (Store!Logged)' : i # holding'[t].id => i \in Store!Logged /\ Store!At(i)' = Store!At(i)
    BY <2>1 DEF StoreChange
  <2>5. UNCHANGED <<queue, slot, taken, uiQueue, list, paused, page, clears>>
    BY <2>1 DEF uiVars, streamVars
  <2>6. \A i \in (Store!Logged)' : i # holding'[t].id => (LastIsNewest(i)' <=> LastIsNewest(i))
    BY <2>4, <2>5, LastSame
  <2> QED BY <2>2, <2>3, <2>4, <2>5, <2>6 DEF NewestArrives, Undisturbed, Noted
<1>3. CASE EmitFlow(t)
  <2> DEFINE f == Snap(t)
  <2>1. /\ UNCHANGED <<log, uiVars, clears>> /\ holding[t].at = "emit"
        /\ f \in Shots /\ Emit(f) /\ f.id = holding[t].id /\ f.data = holding[t].data
        /\ \A u \in Tasks \ {t} : holding'[u] = holding[u]
    BY <1>3, EmitBase DEF Snap
  <2> HIDE DEF f
  <2>2. \A i : InHand(i) => i = f.id \/ InHand(i)'
    BY <2>1 DEF InHand
  <2>3. (Store!Logged)' = Store!Logged /\ \A i : Store!At(i)' = Store!At(i)
    BY <2>1, LoggedSame
  <2>4. UNCHANGED <<page, uiQueue, list, clears>>
    BY <2>1 DEF uiVars
  <2>5. f.id \in Store!Logged => f.data = Store!At(f.id)
    BY <2>1 DEF HandIsNewest
  <2>6. /\ UNCHANGED <<channel, taken, takenFor>>
        /\ \/ channel = 0 /\ UNCHANGED streamVars
           \/ /\ channel # 0 /\ paused.on /\ UNCHANGED <<queue, slot>> /\ paused'.on
              /\ paused'.seen = paused.seen \union IF f.id <= paused.through THEN {f.id} ELSE {}
           \/ /\ ~paused.on /\ UNCHANGED paused
              /\ DOMAIN slot' = DOMAIN slot \union {f.id}
              /\ Shows(Stands', f.id) = f.data
              /\ \A i \in DOMAIN slot : i # f.id => Shows(Stands', i) = Shows(Stands, i)
    BY <2>1, EmitFacts DEF Base
  <2>7. CASE channel = 0 /\ UNCHANGED streamVars
    <3>1. UNCHANGED <<queue, slot, taken, paused>> /\ OnItsWay = {}
      BY <2>7 DEF streamVars, Heard
    <3>2. \A i : LastIsNewest(i)'
      BY <2>3, <2>4, <3>1, LastSame, NothingOnItsWay
    <3> QED BY <3>2 DEF NewestArrives
  <2>8. CASE /\ paused.on /\ UNCHANGED <<queue, slot>> /\ paused'.on
             /\ paused'.seen = paused.seen \union IF f.id <= paused.through THEN {f.id} ELSE {}
    <3>1. \A i : LastIsNewest(i)' <=> LastIsNewest(i)
      BY <2>3, <2>4, <2>6, <2>8, LastSame
    <3>2. \A i : Noted(i) => Noted(i)'
      BY <2>8 DEF Noted
    <3>3. \A i : i = f.id => Noted(i)' \/ LastIsNewest(i)'
      <4>1. CASE f.id <= paused.through
        BY <2>8, <4>1 DEF Noted
      <4>2. CASE ~(f.id <= paused.through)
        <5>1. f.id \notin OnItsWay
          BY <2>8, <4>2 DEF Heard
        <5> QED BY <3>1, <5>1, NothingOnItsWay
      <4> QED BY <4>1, <4>2
    <3> QED BY <2>2, <2>3, <2>4, <3>1, <3>2, <3>3 DEF NewestArrives, Undisturbed
  <2>9. CASE /\ ~paused.on /\ UNCHANGED paused
             /\ DOMAIN slot' = DOMAIN slot \union {f.id}
             /\ Shows(Stands', f.id) = f.data
             /\ \A i \in DOMAIN slot : i # f.id => Shows(Stands', i) = Shows(Stands, i)
    <3>1. \A i : i # f.id => (LastIsNewest(i)' <=> LastIsNewest(i))
      <4>1. IdsOf(taken') = IdsOf(taken) /\ UNCHANGED taken
        BY <2>6
      <4> QED BY <2>3, <2>4, <2>9, <4>1 DEF LastIsNewest
    <3>2. \A i \in Store!Logged : i = f.id => LastIsNewest(i)'
      BY <2>3, <2>5, <2>9 DEF LastIsNewest
    <3>3. \A i : Noted(i) => Noted(i)'
      BY <2>9 DEF Noted
    <3> QED BY <2>2, <2>3, <2>4, <3>1, <3>2, <3>3 DEF NewestArrives, Undisturbed
  <2> QED BY <2>6, <2>7, <2>8, <2>9
<1> QED BY <1>1, <1>2, <1>3 DEF Engine

LEMMA FlushArrives ==
  ASSUME Base, Heard, NewestArrives, FlushTake \/ FlushSend \/ PageFlush
  PROVE  NewestArrives'
<1>1. CASE FlushTake
  <2>1. /\ UNCHANGED <<paused, log, holding, page, uiQueue, list, clears>>
        /\ taken' = queue /\ DOMAIN slot' = {} /\ IdsOf(taken) = {} /\ IdsOf(taken') = DOMAIN slot
    BY <1>1, TakeBase DEF uiVars
  <2>2. (Store!Logged)' = Store!Logged /\ \A i : Store!At(i)' = Store!At(i)
    BY <2>1, LoggedSame
  <2>3. Sound(Stands) /\ Stands.q = queue /\ Stands.at = slot
    BY DEF Base, StreamTypes, Stands
  <2>4. ASSUME NEW i, LastIsNewest(i) PROVE LastIsNewest(i)'
    <3>1. CASE i \in DOMAIN slot
      <4>1. Shows(Stands, i) = Store!At(i)
        BY <2>4, <3>1 DEF LastIsNewest
      <4>2. \A n \in 1..Len(taken') : taken'[n].id = i => n = slot[i]
        BY <2>1, <2>3 DEF Sound
      <4>3. \A n \in 1..Len(taken') : taken'[n].id = i => taken'[n].data = Store!At(i)
        BY <2>1, <2>3, <4>1, <4>2 DEF Shows
      <4> QED BY <2>1, <2>2, <3>1, <4>3 DEF LastIsNewest
    <3>2. CASE i \notin DOMAIN slot
      BY <2>1, <2>2, <2>4, <3>2 DEF LastIsNewest
    <3> QED BY <3>1, <3>2
  <2> QED BY <2>1, <2>2, <2>4 DEF NewestArrives, Undisturbed, Noted, InHand
<1>2. CASE FlushSend
  <2>1. /\ UNCHANGED <<queue, slot, paused, log, holding, page, list, clears>>
        /\ takenFor # 0
    BY <1>2, SendBase
  <2>2. (Store!Logged)' = Store!Logged /\ \A i : Store!At(i)' = Store!At(i)
    BY <2>1, LoggedSame
  <2>3. taken \in Seq(Shots) /\ Distinct(taken) /\ Send
    BY <1>2 DEF Base, StreamTypes, FlushSend
  <2>4. /\ \A n \in 1..Len(Message) : n \in 1..Len(taken) /\ Message[n] = taken[n]
        /\ IdsOf(taken) = IdsOf(Message) \union IdsOf(taken')
        /\ \A n \in 1..Len(taken') : taken'[n] = taken[n + Len(Message)]
                                     /\ n + Len(Message) \in 1..Len(taken)
    BY <2>3, SendFacts
  <2>5. ASSUME Undisturbed, NEW i, LastIsNewest(i) PROVE LastIsNewest(i)'
    <3>1. takenFor = page
      BY <2>1, <2>5 DEF Undisturbed, Base, StreamTypes, PageTypes
    <3>2. /\ DOMAIN uiQueue' = DOMAIN uiQueue \union IdsOf(Message)
          /\ \A n \in 1..Len(Message) : uiQueue'[taken[n].id] = taken[n].data
          /\ \A j \in DOMAIN uiQueue \ IdsOf(Message) : uiQueue'[j] = uiQueue[j]
      BY <1>2, <2>3, <3>1, DeliverFacts
    <3>3. Stands' = Stands
      BY <2>1 DEF Stands
    <3>4. CASE i \in DOMAIN slot
      BY <2>1, <2>2, <2>5, <3>3, <3>4 DEF LastIsNewest
    <3>5. CASE i \notin DOMAIN slot /\ i \in IdsOf(taken)
      <4>1. \A n \in 1..Len(taken) : taken[n].id = i => taken[n].data = Store!At(i)
        BY <2>5, <3>5 DEF LastIsNewest
      <4>2. CASE i \in IdsOf(taken')
        <5>1. \A n \in 1..Len(taken') : taken'[n].id = i => taken'[n].data = Store!At(i)
          BY <2>4, <4>1
        <5> QED BY <2>1, <2>2, <3>5, <4>2, <5>1 DEF LastIsNewest
      <4>3. CASE i \in IdsOf(Message) /\ i \notin IdsOf(taken')
        <5>1. PICK n \in 1..Len(Message) : Message[n].id = i
          BY <4>3 DEF IdsOf
        <5>2. taken[n].id = i /\ taken[n].data = Store!At(i)
          BY <2>4, <4>1, <5>1
        <5>3. i \in DOMAIN uiQueue' /\ uiQueue'[i] = Store!At(i)
          BY <3>2, <4>3, <5>1, <5>2
        <5> QED BY <2>1, <2>2, <3>5, <4>3, <5>3 DEF LastIsNewest
      <4> QED BY <2>4, <3>5, <4>2, <4>3
    <3>6. CASE i \notin DOMAIN slot /\ i \notin IdsOf(taken)
      <4>1. i \notin IdsOf(Message) /\ i \notin IdsOf(taken')
        BY <2>4, <3>6
      <4> QED BY <2>1, <2>2, <2>5, <3>2, <3>6, <4>1 DEF LastIsNewest
    <3> QED BY <3>4, <3>5, <3>6
  <2> QED BY <2>1, <2>2, <2>5 DEF NewestArrives, Undisturbed, Noted, InHand
<1>3. CASE PageFlush
  <2>1. /\ UNCHANGED <<streamVars, log, holding, page, clears>>
        /\ DOMAIN uiQueue' = {}
        /\ DOMAIN list' \subseteq DOMAIN list \union DOMAIN uiQueue
        /\ \A i \in DOMAIN list' : list'[i] = IF i \in DOMAIN uiQueue THEN uiQueue[i] ELSE list[i]
    BY <1>3, PageFlushBase
  <2>2. (Store!Logged)' = Store!Logged /\ \A i : Store!At(i)' = Store!At(i)
    BY <2>1, LoggedSame
  <2>3. Stands' = Stands /\ UNCHANGED <<slot, taken, paused>> /\ IdsOf(taken') = IdsOf(taken)
    BY <2>1 DEF streamVars, Stands
  <2>4. \A i : LastIsNewest(i) => LastIsNewest(i)'
    BY <2>1, <2>2, <2>3 DEF LastIsNewest
  <2> QED BY <2>1, <2>2, <2>3, <2>4 DEF NewestArrives, Undisturbed, Noted, InHand
<1> QED BY <1>1, <1>2, <1>3

LEMMA AppArrives ==
  ASSUME Base, Heard, NewestArrives, App
  PROVE  NewestArrives'
<1>1. CASE RunBind
  <2>1. /\ UNCHANGED <<queue, slot, taken, log, holding, page, uiQueue, list, clears>>
        /\ channel < page
    BY <1>1, BindBase
  <2>2. (Store!Logged)' = Store!Logged /\ \A i : Store!At(i)' = Store!At(i)
    BY <2>1, LoggedSame
  <2>3. Undisturbed => channel = 0
    BY <2>1 DEF Undisturbed, Base, StreamTypes
  <2>4. Undisturbed => \A i : ~Noted(i)
    BY <2>3 DEF Heard, Noted
  <2>5. \A i : LastIsNewest(i)' <=> LastIsNewest(i)
    BY <2>1, <2>2, LastSame
  <2> QED BY <2>1, <2>2, <2>4, <2>5 DEF NewestArrives, Undisturbed, InHand
<1>2. CASE RunPause
  <2>1. /\ UNCHANGED <<queue, slot, taken, log, holding, page, uiQueue, list, clears>>
        /\ paused' = paused \/ ~paused.on
    BY <1>2, PauseBase
  <2>2. (Store!Logged)' = Store!Logged /\ \A i : Store!At(i)' = Store!At(i)
    BY <2>1, LoggedSame
  <2>3. \A i : LastIsNewest(i)' <=> LastIsNewest(i)
    BY <2>1, <2>2, LastSame
  <2>4. \A i : Noted(i) => Noted(i)'
    BY <2>1 DEF Noted
  <2> QED BY <2>1, <2>2, <2>3, <2>4 DEF NewestArrives, Undisturbed, InHand
<1>3. CASE RunResume
  <2>1. /\ UNCHANGED <<taken, log, holding, page, uiQueue, list, clears>>
        /\ DOMAIN slot' = DOMAIN slot \union (paused.seen \intersect Store!Logged)
        /\ \A i \in DOMAIN slot' :
              Shows(Stands', i) = IF i \in paused.seen /\ i \in Store!Logged
                                    THEN Store!At(i) ELSE Shows(Stands, i)
    BY <1>3, ResumeBase
  <2>2. (Store!Logged)' = Store!Logged /\ \A i : Store!At(i)' = Store!At(i)
    BY <2>1, LoggedSame
  <2>3. \A i \in Store!Logged : i \in paused.seen => LastIsNewest(i)'
    BY <2>1, <2>2 DEF LastIsNewest
  <2>4. IdsOf(taken') = IdsOf(taken)
    BY <2>1
  <2>5. \A i : i \notin paused.seen => (LastIsNewest(i)' <=> LastIsNewest(i))
    BY <2>1, <2>2, <2>4 DEF LastIsNewest
  <2> QED BY <2>1, <2>2, <2>3, <2>5 DEF NewestArrives, Undisturbed, InHand, Noted
<1>4. CASE RunClear \/ RunDiscard
  BY <1>4, ClearBase, DiscardBase DEF NewestArrives, Undisturbed
<1> QED BY <1>1, <1>2, <1>3, <1>4 DEF App

LEMMA ArrivesNext ==
  Base /\ Heard /\ HandIsNewest /\ NewestArrives /\ [Next]_vars => NewestArrives'
<1> SUFFICES ASSUME Base, Heard, HandIsNewest, NewestArrives, [Next]_vars PROVE NewestArrives'
  OBVIOUS
<1>1. ASSUME UNCHANGED <<streamVars, log, holding, page, uiQueue, list, clears>>
      PROVE  NewestArrives'
  <2>1. (Store!Logged)' = Store!Logged /\ \A i : Store!At(i)' = Store!At(i)
    BY <1>1, LoggedSame
  <2>2. UNCHANGED <<queue, slot, taken, paused>>
    BY <1>1 DEF streamVars
  <2>3. \A i : LastIsNewest(i)' <=> LastIsNewest(i)
    BY <1>1, <2>1, <2>2, LastSame
  <2> QED BY <1>1, <2>1, <2>2, <2>3 DEF NewestArrives, Undisturbed, InHand, Noted
<1>2. CASE Restart \/ SetRecording \/ UNCHANGED vars
  BY <1>1, <1>2, RestartBase, RecordingBase DEF vars, uiVars
<1>3. CASE ClearAll \/ Reload
  BY <1>3, ClearAllBase, ReloadBase DEF NewestArrives, Undisturbed
<1>4. CASE \E t \in Tasks : Engine(t)
  BY <1>4, TaskArrives
<1>5. CASE FlushTake \/ FlushSend \/ PageFlush
  BY <1>5, FlushArrives
<1>6. CASE App
  BY <1>6, AppArrives
<1> QED BY <1>2, <1>3, <1>4, <1>5, <1>6 DEF Next

LEMMA InitFresh == Init => Fresh
<1> SUFFICES ASSUME Init PROVE Fresh
  OBVIOUS
<1>1. /\ DOMAIN slot = {} /\ taken = <<>> /\ DOMAIN uiQueue = {} /\ DOMAIN list = {}
      /\ paused = NotPaused /\ log = <<>>
  BY DEF Init, StreamInit, Empty, Store!Init
<1>2. OnItsWay = {} /\ paused.seen = {}
  BY <1>1 DEF OnItsWay, IdsOf, NotPaused
<1>3. Store!Logged = {}
  BY <1>1 DEF Store!Logged
<1> QED BY <1>2, <1>3 DEF Fresh, Heard, HandIsNewest, NewestArrives

LEMMA NewestListed == Base /\ Fresh => ListShowsStore
<1> SUFFICES ASSUME Base, Fresh, Settled, Live, Undisturbed,
                    NEW i \in DOMAIN list \intersect Store!Logged
             PROVE  list[i] = Store!At(i)
  BY DEF ListShowsStore
<1>1. ~InHand(i) /\ DOMAIN uiQueue = {} /\ ~Noted(i) /\ queue = <<>> /\ taken = <<>>
  BY DEF Settled, Live, InHand, Noted, Empty
<1>2. DOMAIN slot = {}
  <2>1. Sound(Stands) /\ Stands.q = <<>> /\ Stands.at = slot
    BY <1>1 DEF Base, StreamTypes, Stands
  <2> QED BY <2>1 DEF Sound, IdsOf
<1>3. IdsOf(taken) = {}
  BY <1>1 DEF IdsOf
<1>4. LastIsNewest(i)
  BY <1>1 DEF Fresh, NewestArrives
<1> QED BY <1>1, <1>2, <1>3, <1>4 DEF LastIsNewest

(* As long as no two tasks have a snapshot of one flow in hand at a time,  *)
(* the list of the first page shows, once everything on its way has        *)
(* arrived and nothing was cleared, what the store holds of each flow:     *)
(* replaced snapshots, split batches, pauses, restarts and evictions lose  *)
(* no change (state.rs, UiStream; flow.rs, Shared::update). Two tasks may  *)
(* emit in the other order than the store took their changes in.           *)
THEOREM NewestIsListed == Spec /\ []Apart => []ListShowsStore
<1>1. Base /\ Fresh /\ Apart' /\ [Next]_vars => Fresh'
  BY HeardNext, HandNext, ArrivesNext DEF Fresh
<1> QED BY <1>1, InitFresh, SpecBase, NewestListed, PTL DEF Spec

(* So it is for one task, as in the run.                                   *)
THEOREM OneTaskIsListed ==
  ASSUME \A t, u \in Tasks : t = u
  PROVE  Spec => []ListShowsStore
<1>1. Apart
  BY DEF Apart
<1> QED BY <1>1, NewestIsListed, PTL
=============================================================================
