------------------------- MODULE ConnectionsProofs -------------------------
(***************************************************************************)
(* What holds of connections and of the sockets on them for all values of  *)
(* the constants: that the panel accounts for every frame of a listed flow *)
(* and keeps within its budgets, and that a flow is charged for its own    *)
(* connect and a connect's phases are its own.                             *)
(***************************************************************************)
EXTENDS Sockets, Timings, FiniteSetTheorems, SequenceTheorems, WellFoundedInduction, NaturalsInduction, TLAPS

------------------------------------------------------------------------------
(* Sockets: what every state satisfies. *)

Frames    == [id : Socket, when : Nat, size : Nat, close : BOOLEAN]
Snapshots == [id : Socket, state : {"pending", "completed"}]
Batches   == [flows : Seq(Snapshots), ws : Seq(Frames), dropped : [Socket -> Nat]]
Takings   == [flows : Seq(Snapshots), ws : Seq(Frames), dropped : [Socket -> Nat], on : BOOLEAN]
Hands     == [at : {"emit", "finish", "retire"}, frame : Frames] \union {AtRest}
Openings  == [place : Places, open : BOOLEAN]

SocketTypes ==
  /\ sockets \in Seq(Openings) /\ Len(sockets) <= MaxSockets
  /\ \A p \in DOMAIN routes : routes[p] \in DOMAIN sockets
  /\ numbered \in [Socket -> Nat] /\ lost \in [Socket -> Nat]
  /\ hand \in [Socket -> [Directions -> Hands]]
  /\ stream \in Batches /\ page \in Batches /\ taken \in Takings
  /\ \A s \in DOMAIN shown : s \in Socket /\ shown[s] \in Seq(Frames)

(* The flows the page has heard of. *)
Known == evicted \union IdsOf(list) \union IdsOf(page.flows)

(* No frame is ahead of its flow. *)
FlowsFirst ==
  /\ \A s \in Socket, d \in Directions : hand[s][d].at # "idle" => hand[s][d].frame.id \in DOMAIN sockets
  /\ \A s \in Socket : InQueue(s, page) # 0 => s \in Known
  /\ \A s \in Socket : InQueue(s, taken) # 0 => s \in Known \union IdsOf(taken.flows)
  /\ \A s \in Socket : InQueue(s, stream) # 0 => s \in DOMAIN sockets
  /\ DOMAIN sockets \subseteq Known \union IdsOf(taken.flows) \union IdsOf(stream.flows)
  /\ ~taken.on => taken = NotTaken

Shown(s) == IF s \in DOMAIN shown THEN Len(shown[s]) ELSE 0

Balanced ==
  \A s \in Socket \ evicted :
    numbered[s] = InHand(s) + InQueue(s, stream) + InQueue(s, taken) + InQueue(s, page)
                  + Shown(s) + lost[s]

SocketsInv == SocketTypes /\ FlowsFirst /\ Balanced /\ FramesBounded
------------------------------------------------------------------------------
(* Sums and the frames of one flow. *)

LEMMA Smallest ==
  ASSUME NEW S \in SUBSET Nat, S # {}
  PROVE  \E n \in S : \A m \in S : n <= m
<1>1. PICK n \in S : \A m \in S : <<m, n>> \notin OpToRel(<, Nat)
  BY NatLessThanWellFounded, WFMin
<1>2. \A m \in S : ~ (m < n)
  BY <1>1 DEF OpToRel
<1> QED BY <1>2

(* The first place at which something goes wrong comes after one at which  *)
(* it does not.                                                            *)
LEMMA FirstWrong ==
  ASSUME NEW N \in Nat, NEW S \in SUBSET (0..N), S # {}, 0 \notin S
  PROVE  \E n \in 1..N : n \in S /\ n - 1 \in 0..N /\ n - 1 \notin S
<1>1. PICK n \in S : \A m \in S : n <= m
  <2>1. S \in SUBSET Nat
    OBVIOUS
  <2> QED BY <2>1, Smallest
<1>2. n \in 1..N /\ n - 1 \in 0..N /\ ~ (n <= n - 1)
  OBVIOUS
<1> QED BY <1>1, <1>2

Summing(sum, w, N) == sum = [n \in 0..N |-> IF n = 0 THEN 0 ELSE sum[n - 1] + w[n]]

LEMMA SumExists ==
  ASSUME NEW w, NEW N \in Nat
  PROVE  \E sum : Summing(sum, w, N)
<1> DEFINE S == {n \in 0..N : ~ \E sum : Summing(sum, w, n)}
<1>1. 0 \notin S
  <2> DEFINE none == [n \in 0..0 |-> 0]
  <2>1. Summing(none, w, 0)
    BY DEF Summing
  <2> QED BY <2>1
<1>2. S = {}
  <2> SUFFICES ASSUME S # {} PROVE FALSE
    OBVIOUS
  <2>1. PICK n \in 1..N : n \in S /\ n - 1 \in 0..N /\ n - 1 \notin S
    <3>1. S \in SUBSET (0..N)
      OBVIOUS
    <3> HIDE DEF S
    <3> QED BY <1>1, <3>1, FirstWrong
  <2>2. PICK sum : Summing(sum, w, n - 1)
    BY <2>1
  <2> DEFINE more == [k \in 0..n |-> IF k = n THEN sum[n - 1] + w[n] ELSE sum[k]]
  <2>3. Summing(more, w, n)
    <3>1. \A k \in 0..n : k # n => k \in 0..(n - 1)
      OBVIOUS
    <3>2. \A k \in 0..(n - 1) : sum[k] = IF k = 0 THEN 0 ELSE sum[k - 1] + w[k]
      BY <2>2 DEF Summing
    <3>3. \A k \in 0..n : k # 0 => k - 1 \in 0..n /\ k - 1 # n
      OBVIOUS
    <3>4. \A k \in 0..n : more[k] = IF k = 0 THEN 0 ELSE more[k - 1] + w[k]
      BY <3>1, <3>2, <3>3
    <3> QED BY <3>4 DEF Summing
  <2> QED BY <2>1, <2>3
<1> QED BY <1>2

LEMMA TotalFacts ==
  ASSUME NEW w, Len(w) \in Nat
  PROVE  \E sum : Summing(sum, w, Len(w)) /\ Total(w) = sum[Len(w)]
<1>1. Total(w) = (CHOOSE sum : Summing(sum, w, Len(w)))[Len(w)]
  BY DEF Total, Summing
<1> QED BY <1>1, SumExists

InOrder(x, y) == x \in Nat /\ y \in Nat /\ x <= y

LEMMA OrderAdds ==
  ASSUME NEW x, NEW y, NEW p, NEW q, InOrder(x, y), InOrder(p, q)
  PROVE  InOrder(x + p, y + q)
  BY DEF InOrder

LEMMA SumsInOrder ==
  ASSUME NEW N \in Nat, NEW v \in [1..N -> Nat], NEW w \in [1..N -> Nat],
         \A n \in 1..N : v[n] <= w[n],
         NEW a, NEW b, Summing(a, v, N), Summing(b, w, N)
  PROVE  \A n \in 0..N : a[n] \in Nat /\ b[n] \in Nat /\ a[n] <= b[n]
<1> DEFINE S == {n \in 0..N : ~ (a[n] \in Nat /\ b[n] \in Nat /\ a[n] <= b[n])}
<1>1. 0 \notin S
  <2>1. a[0] = 0 /\ b[0] = 0
    BY DEF Summing
  <2> QED BY <2>1
<1>2. ASSUME S # {} PROVE FALSE
  <2>1. PICK n \in 1..N : n \in S /\ n - 1 \in 0..N /\ n - 1 \notin S
    <3>1. S \in SUBSET (0..N)
      OBVIOUS
    <3> HIDE DEF S
    <3> QED BY <1>1, <1>2, <3>1, FirstWrong
  <2>2. a[n] = a[n - 1] + v[n] /\ b[n] = b[n - 1] + w[n]
    <3>1. n \in 0..N /\ n # 0
      OBVIOUS
    <3> QED BY <3>1 DEF Summing
  <2>3. InOrder(v[n], w[n])
    BY DEF InOrder
  <2>4. InOrder(a[n - 1], b[n - 1])
    BY <2>1 DEF InOrder
  <2>5. InOrder(a[n - 1] + v[n], b[n - 1] + w[n])
    <3> HIDE DEF S
    <3> QED BY <2>3, <2>4, OrderAdds
  <2>6. InOrder(a[n], b[n])
    BY <2>2, <2>5
  <2> QED BY <2>1, <2>6 DEF InOrder
<1> QED BY <1>2

(* Sums of as many numbers, each no more than the other. *)
LEMMA TotalsInOrder ==
  ASSUME NEW N \in Nat, NEW v \in [1..N -> Nat], NEW w \in [1..N -> Nat],
         \A n \in 1..N : v[n] <= w[n]
  PROVE  Total(v) \in Nat /\ Total(w) \in Nat /\ Total(v) <= Total(w)
<1>1. Len(v) = N /\ Len(w) = N /\ N \in 0..N
  OBVIOUS
<1>2. PICK a : Summing(a, v, N) /\ Total(v) = a[N]
  BY <1>1, TotalFacts
<1>3. PICK b : Summing(b, w, N) /\ Total(w) = b[N]
  BY <1>1, TotalFacts
<1>4. a[N] \in Nat /\ b[N] \in Nat /\ a[N] <= b[N]
  BY <1>1, <1>2, <1>3, SumsInOrder
<1> QED BY <1>2, <1>3, <1>4

LEMMA TotalOfNothing ==
  ASSUME NEW N \in Nat
  PROVE  Total([n \in 1..N |-> 0]) = 0
<1> DEFINE w == [n \in 1..N |-> 0]
           z == [n \in 0..N |-> 0]
           S(a) == {n \in 0..N : a[n] # 0}
<1>1. Len(w) = N /\ N \in 0..N
  OBVIOUS
<1>2. PICK a : Summing(a, w, N) /\ Total(w) = a[N]
  BY <1>1, TotalFacts
<1>3. 0 \notin S(a)
  BY <1>2 DEF Summing
<1>4. ASSUME S(a) # {} PROVE FALSE
  <2>1. PICK n \in 1..N : n \in S(a) /\ n - 1 \in 0..N /\ n - 1 \notin S(a)
    <3>1. S(a) \in SUBSET (0..N)
      OBVIOUS
    <3> HIDE DEF S
    <3> QED BY <1>3, <1>4, <3>1, FirstWrong
  <2>2. a[n] = a[n - 1] + w[n]
    <3>1. n \in 0..N /\ n # 0
      OBVIOUS
    <3> QED BY <1>2, <3>1 DEF Summing
  <2> QED BY <2>1, <2>2
<1> QED BY <1>1, <1>2, <1>4

Sifting(of, ws, id, N) ==
  of = [n \in 0..N |->
          IF n = 0 THEN <<>> ELSE IF ws[n].id = id THEN Append(of[n - 1], ws[n]) ELSE of[n - 1]]

LEMMA SiftExists ==
  ASSUME NEW ws, NEW id, NEW N \in Nat
  PROVE  \E of : Sifting(of, ws, id, N)
<1> DEFINE S == {n \in 0..N : ~ \E of : Sifting(of, ws, id, n)}
<1>1. 0 \notin S
  <2> DEFINE none == [n \in 0..0 |-> <<>>]
  <2>1. Sifting(none, ws, id, 0)
    BY DEF Sifting
  <2> QED BY <2>1
<1>2. ASSUME S # {} PROVE FALSE
  <2>1. PICK n \in 1..N : n \in S /\ n - 1 \in 0..N /\ n - 1 \notin S
    <3>1. S \in SUBSET (0..N)
      OBVIOUS
    <3> HIDE DEF S
    <3> QED BY <1>1, <1>2, <3>1, FirstWrong
  <2>2. PICK of : Sifting(of, ws, id, n - 1)
    BY <2>1
  <2> DEFINE next == IF ws[n].id = id THEN Append(of[n - 1], ws[n]) ELSE of[n - 1]
             more == [k \in 0..n |-> IF k = n THEN next ELSE of[k]]
  <2>3. Sifting(more, ws, id, n)
    <3>1. \A k \in 0..n : k # n => k \in 0..(n - 1)
      OBVIOUS
    <3>2. \A k \in 0..(n - 1) : of[k] = IF k = 0 THEN <<>> ELSE
             IF ws[k].id = id THEN Append(of[k - 1], ws[k]) ELSE of[k - 1]
      BY <2>2 DEF Sifting
    <3>3. \A k \in 0..n : k # 0 => k - 1 \in 0..n /\ k - 1 # n
      OBVIOUS
    <3>4. \A k \in 0..n : more[k] = IF k = 0 THEN <<>> ELSE
             IF ws[k].id = id THEN Append(more[k - 1], ws[k]) ELSE more[k - 1]
      BY <3>1, <3>2, <3>3
    <3> QED BY <3>4 DEF Sifting
  <2> QED BY <2>1, <2>3
<1> QED BY <1>2

LEMMA OfFlowFacts ==
  ASSUME NEW ws, NEW id, Len(ws) \in Nat
  PROVE  \E of : Sifting(of, ws, id, Len(ws)) /\ OfFlow(ws, id) = of[Len(ws)]
<1>1. OfFlow(ws, id) = (CHOOSE of : Sifting(of, ws, id, Len(ws)))[Len(ws)]
  BY DEF OfFlow, Sifting
<1> QED BY <1>1, SiftExists

LEMMA SiftTypes ==
  ASSUME NEW ws \in Seq(Frames), NEW id, NEW of, Sifting(of, ws, id, Len(ws))
  PROVE  \A n \in 0..Len(ws) : of[n] \in Seq(Frames)
<1> DEFINE N == Len(ws)
           S == {n \in 0..N : of[n] \notin Seq(Frames)}
<1>1. 0 \notin S
  BY DEF Sifting
<1>2. ASSUME S # {} PROVE FALSE
  <2>1. PICK n \in 1..N : n \in S /\ n - 1 \in 0..N /\ n - 1 \notin S
    <3>1. S \in SUBSET (0..N) /\ N \in Nat
      OBVIOUS
    <3> HIDE DEF S, N
    <3> QED BY <1>1, <1>2, <3>1, FirstWrong
  <2>2. of[n] = IF ws[n].id = id THEN Append(of[n - 1], ws[n]) ELSE of[n - 1]
    <3>1. n \in 0..N /\ n # 0
      OBVIOUS
    <3> QED BY <3>1 DEF Sifting
  <2>3. ws[n] \in Frames
    OBVIOUS
  <2>4. of[n - 1] \in Seq(Frames)
    BY <2>1
  <2>5. Append(of[n - 1], ws[n]) \in Seq(Frames)
    <3> HIDE DEF Frames
    <3> QED BY ONLY <2>3, <2>4, AppendProperties
  <2> QED BY ONLY <2>1, <2>2, <2>4, <2>5
<1> QED BY <1>2

LEMMA OfFlowType ==
  ASSUME NEW ws \in Seq(Frames), NEW id
  PROVE  OfFlow(ws, id) \in Seq(Frames) /\ Of(id, ws) \in Nat
<1>1. Len(ws) \in Nat /\ Len(ws) \in 0..Len(ws)
  OBVIOUS
<1>2. OfFlow(ws, id) \in Seq(Frames)
  BY <1>1, OfFlowFacts, SiftTypes
<1> QED BY <1>2 DEF Of

LEMMA OfNone ==
  ASSUME NEW id
  PROVE  Of(id, <<>>) = 0
<1>1. Len(<<>>) = 0 /\ 0 \in Nat
  OBVIOUS
<1>2. PICK of : Sifting(of, <<>>, id, 0) /\ OfFlow(<<>>, id) = of[0]
  BY <1>1, OfFlowFacts
<1> QED BY <1>1, <1>2 DEF Sifting, Of

LEMMA OfAbsent ==
  ASSUME NEW ws \in Seq(Frames), NEW id, id \notin IdsOf(ws)
  PROVE  Of(id, ws) = 0 /\ OfFlow(ws, id) = <<>>
<1> DEFINE N == Len(ws)
           S(of) == {n \in 0..N : of[n] # <<>>}
<1>1. N \in Nat /\ N \in 0..N
  OBVIOUS
<1>2. PICK of : Sifting(of, ws, id, N) /\ OfFlow(ws, id) = of[N]
  BY <1>1, OfFlowFacts
<1>3. 0 \notin S(of)
  BY <1>2 DEF Sifting
<1>4. ASSUME S(of) # {} PROVE FALSE
  <2>1. PICK n \in 1..N : n \in S(of) /\ n - 1 \in 0..N /\ n - 1 \notin S(of)
    <3>1. S(of) \in SUBSET (0..N)
      OBVIOUS
    <3> HIDE DEF S, N
    <3> QED BY <1>1, <1>3, <1>4, <3>1, FirstWrong
  <2>2. of[n] = IF ws[n].id = id THEN Append(of[n - 1], ws[n]) ELSE of[n - 1]
    <3>1. n \in 0..N /\ n # 0
      OBVIOUS
    <3> QED BY <1>2, <3>1 DEF Sifting
  <2>3. ws[n].id # id
    BY DEF IdsOf
  <2> QED BY <2>1, <2>2, <2>3
<1> QED BY <1>1, <1>2, <1>4 DEF Of

LEMMA SiftOfPart ==
  ASSUME NEW ws \in Seq(Frames), NEW us \in Seq(Frames), NEW id, NEW all, NEW of,
         Sifting(all, ws \o us, id, Len(ws \o us)), Sifting(of, ws, id, Len(ws))
  PROVE  all[Len(ws)] = of[Len(ws)]
<1> DEFINE N == Len(ws)
           S == {n \in 0..N : all[n] # of[n]}
<1>1. /\ N \in Nat /\ N \in 0..N /\ \A n \in 0..N : n \in 0..Len(ws \o us)
      /\ \A n \in 1..N : (ws \o us)[n] = ws[n]
  OBVIOUS
<1>2. 0 \notin S
  BY <1>1 DEF Sifting
<1>3. ASSUME S # {} PROVE FALSE
  <2>1. PICK n \in 1..N : n \in S /\ n - 1 \in 0..N /\ n - 1 \notin S
    <3>1. S \in SUBSET (0..N)
      OBVIOUS
    <3> HIDE DEF S, N
    <3> QED BY <1>1, <1>2, <1>3, <3>1, FirstWrong
  <2>2. n \in 0..N /\ n # 0 /\ n \in 0..Len(ws \o us)
    BY <1>1
  <2>3. all[n] = IF (ws \o us)[n].id = id THEN Append(all[n - 1], (ws \o us)[n]) ELSE all[n - 1]
    BY <2>2 DEF Sifting
  <2>4. of[n] = IF ws[n].id = id THEN Append(of[n - 1], ws[n]) ELSE of[n - 1]
    BY <2>2 DEF Sifting
  <2>5. (ws \o us)[n] = ws[n] /\ all[n - 1] = of[n - 1] /\ all[n] # of[n]
    BY <1>1, <2>1
  <2> QED BY ONLY <2>3, <2>4, <2>5
<1> QED BY <1>1, <1>3

AddsUp(all, of, k, l) == Len(all[k + l]) = Len(all[k]) + Len(of[l])

LEMMA SiftOfRest ==
  ASSUME NEW ws \in Seq(Frames), NEW us \in Seq(Frames), NEW id, NEW all, NEW of,
         Sifting(all, ws \o us, id, Len(ws \o us)), Sifting(of, us, id, Len(us))
  PROVE  AddsUp(all, of, Len(ws), Len(us))
<1> DEFINE k == Len(ws)
           N == Len(us)
           xs == ws \o us
           S == {n \in 0..N : Len(all[k + n]) # Len(all[k]) + Len(of[n])}
<1>1. /\ k \in Nat /\ N \in Nat /\ N \in 0..N /\ \A n \in 0..N : k + n \in 0..Len(xs)
      /\ \A n \in 1..N : xs[k + n] = us[n]
      /\ xs \in Seq(Frames) /\ 0 \in 0..N
  OBVIOUS
<1>2. \A n \in 0..N : all[k + n] \in Seq(Frames) /\ of[n] \in Seq(Frames)
  <2>1. \A m \in 0..Len(xs) : all[m] \in Seq(Frames)
    <3> HIDE DEF xs
    <3> QED BY <1>1, SiftTypes DEF xs
  <2>2. \A n \in 0..N : of[n] \in Seq(Frames)
    BY SiftTypes
  <2> HIDE DEF xs, k, N
  <2> QED BY <1>1, <2>1, <2>2
<1>3. \A n \in 0..N : Len(all[k + n]) \in Nat /\ Len(of[n]) \in Nat
  BY <1>2
<1>4. 0 \notin S
  <2>1. of[0] = <<>> /\ k + 0 = k
    BY <1>1 DEF Sifting
  <2>2. Len(all[k + 0]) \in Nat
    BY <1>1, <1>3
  <2>3. Len(all[k + 0]) = Len(all[k]) + Len(of[0])
    BY <2>1, <2>2
  <2> QED BY <2>3
<1>5. ASSUME S # {} PROVE FALSE
  <2>1. PICK n \in 1..N : n \in S /\ n - 1 \in 0..N /\ n - 1 \notin S
    <3>1. S \in SUBSET (0..N)
      OBVIOUS
    <3> HIDE DEF S, N
    <3> QED BY <1>1, <1>4, <1>5, <3>1, FirstWrong
  <2>2. /\ n \in 0..N /\ n # 0 /\ k + n \in 0..Len(xs) /\ k + n # 0
        /\ (k + n) - 1 = k + (n - 1)
    BY <1>1
  <2>3. all[k + n] = IF xs[k + n].id = id THEN Append(all[k + (n - 1)], xs[k + n]) ELSE all[k + (n - 1)]
    BY <2>2 DEF Sifting
  <2>4. of[n] = IF us[n].id = id THEN Append(of[n - 1], us[n]) ELSE of[n - 1]
    BY <2>2 DEF Sifting
  <2>5. xs[k + n] = us[n] /\ us[n] \in Frames
    BY <1>1
  <2>6. Len(all[k + (n - 1)]) = Len(all[k]) + Len(of[n - 1])
    BY <2>1
  <2>7. Len(all[k + n]) # Len(all[k]) + Len(of[n])
    BY <2>1
  <2>8. all[k + (n - 1)] \in Seq(Frames) /\ of[n - 1] \in Seq(Frames) /\ all[k] \in Seq(Frames)
    <3>1. all[k + 0] \in Seq(Frames) /\ k + 0 = k
      BY <1>1, <1>2
    <3>2. all[k + (n - 1)] \in Seq(Frames) /\ of[n - 1] \in Seq(Frames)
      BY <1>2, <2>1
    <3> QED BY <3>1, <3>2
  <2>9. CASE us[n].id = id
    <3>1. all[k + n] = Append(all[k + (n - 1)], us[n]) /\ of[n] = Append(of[n - 1], us[n])
      BY <2>3, <2>4, <2>5, <2>9
    <3>2. /\ Len(Append(all[k + (n - 1)], us[n])) = Len(all[k + (n - 1)]) + 1
          /\ Len(Append(of[n - 1], us[n])) = Len(of[n - 1]) + 1
      BY ONLY <2>5, <2>8, AppendProperties
    <3>3. Len(all[k]) \in Nat /\ Len(of[n - 1]) \in Nat
      BY ONLY <2>8, LenProperties
    <3>4. Len(all[k + n]) = Len(all[k + (n - 1)]) + 1 /\ Len(of[n]) = Len(of[n - 1]) + 1
      BY ONLY <3>1, <3>2
    <3> DEFINE x == Len(all[k + n])
               p == Len(all[k + (n - 1)])
               q == Len(all[k])
               r == Len(of[n - 1])
               y == Len(of[n])
    <3>5. p = q + r /\ x # q + y /\ q \in Nat /\ r \in Nat /\ x = p + 1 /\ y = r + 1
      BY ONLY <2>6, <2>7, <3>3, <3>4
    <3> HIDE DEF x, p, q, r, y
    <3> QED BY ONLY <3>5
  <2>10. CASE us[n].id # id
    BY ONLY <2>3, <2>4, <2>5, <2>6, <2>7, <2>10
  <2> QED BY <2>9, <2>10
<1> QED BY <1>1, <1>5 DEF AddsUp

LEMMA OfConcat ==
  ASSUME NEW ws \in Seq(Frames), NEW us \in Seq(Frames), NEW id
  PROVE  Of(id, ws \o us) = Of(id, ws) + Of(id, us)
<1>1. /\ ws \o us \in Seq(Frames) /\ Len(ws) \in Nat /\ Len(us) \in Nat
      /\ Len(ws \o us) = Len(ws) + Len(us) /\ Len(ws \o us) \in Nat
  OBVIOUS
<1>2. PICK all : Sifting(all, ws \o us, id, Len(ws \o us)) /\ OfFlow(ws \o us, id) = all[Len(ws \o us)]
  BY <1>1, OfFlowFacts
<1>3. PICK a : Sifting(a, ws, id, Len(ws)) /\ OfFlow(ws, id) = a[Len(ws)]
  BY <1>1, OfFlowFacts
<1>4. PICK b : Sifting(b, us, id, Len(us)) /\ OfFlow(us, id) = b[Len(us)]
  BY <1>1, OfFlowFacts
<1>5. all[Len(ws)] = a[Len(ws)]
  BY <1>2, <1>3, SiftOfPart
<1>6. AddsUp(all, b, Len(ws), Len(us))
  BY ONLY <1>2, <1>4, SiftOfRest, ws \in Seq(Frames), us \in Seq(Frames)
<1>7. Len(all[Len(ws) + Len(us)]) = Len(a[Len(ws)]) + Len(b[Len(us)])
  BY ONLY <1>5, <1>6 DEF AddsUp
<1> QED BY ONLY <1>1, <1>2, <1>3, <1>4, <1>7 DEF Of

------------------------------------------------------------------------------
(* Cutting queues. *)

LEMMA MinIsOne ==
  ASSUME NEW S \in SUBSET Nat, S # {}
  PROVE  Min(S) \in S
<1>1. \E n \in S : \A m \in S : n <= m
  BY Smallest
<1> QED BY <1>1 DEF Min

LEMMA MaxIsOne ==
  ASSUME NEW N \in Nat, NEW S \in SUBSET (0..N), S # {}
  PROVE  Max(S) \in S
<1> DEFINE below == {N - n : n \in S}
<1>1. below \in SUBSET Nat /\ below # {}
  <2>1. \A n \in S : N - n \in Nat
    OBVIOUS
  <2> QED BY <2>1
<1>2. PICK m \in below : \A k \in below : m <= k
  <2> HIDE DEF below
  <2> QED BY <1>1, Smallest
<1>3. PICK n \in S : m = N - n
  OBVIOUS
<1>4. \A k \in S : n >= k
  BY <1>2, <1>3
<1>5. \E x \in S : \A y \in S : x >= y
  BY <1>4
<1> QED BY <1>5 DEF Max

LEMMA CutFacts ==
  ASSUME NEW T, NEW ws \in Seq(T), NEW n \in 0..Len(ws)
  PROVE  /\ First(ws, n) \in Seq(T) /\ From(ws, n) \in Seq(T)
         /\ First(ws, n) \o From(ws, n) = ws
         /\ Len(First(ws, n)) = n /\ Len(From(ws, n)) = Len(ws) - n
         /\ IdsOf(ws) = IdsOf(First(ws, n)) \union IdsOf(From(ws, n))
<1>1. First(ws, n) \in Seq(T) /\ From(ws, n) \in Seq(T)
  BY DEF First, From
<1>2. Len(First(ws, n)) = n /\ Len(From(ws, n)) = Len(ws) - n
  BY DEF First, From
<1>3. /\ \A k \in 1..n : First(ws, n)[k] = ws[k]
      /\ \A k \in 1..(Len(ws) - n) : From(ws, n)[k] = ws[k + n]
  BY DEF First, From
<1>4. First(ws, n) \o From(ws, n) = ws
  <2>1. First(ws, n) \o From(ws, n) \in Seq(T) /\ Len(First(ws, n) \o From(ws, n)) = Len(ws)
    BY <1>1, <1>2
  <2>2. ASSUME NEW k \in 1..Len(ws)
        PROVE  (First(ws, n) \o From(ws, n))[k] = ws[k]
    <3>1. CASE k <= n
      BY <1>1, <1>2, <1>3, <3>1, ConcatProperties
    <3>2. CASE ~ (k <= n)
      <4>1. k - n \in 1..(Len(ws) - n) /\ (k - n) + n = k
        BY <3>2
      <4>2. (First(ws, n) \o From(ws, n))[k] = From(ws, n)[k - n]
        BY <1>1, <1>2, <3>2, <4>1, ConcatProperties
      <4> QED BY <1>3, <4>1, <4>2
    <3> QED BY <3>1, <3>2
  <2> QED BY <2>1, <2>2, SeqEqual
<1>5. IdsOf(ws) = IdsOf(First(ws, n)) \union IdsOf(From(ws, n))
  <2>1. /\ DOMAIN ws = 1..Len(ws) /\ DOMAIN First(ws, n) = 1..n
        /\ DOMAIN From(ws, n) = 1..(Len(ws) - n) /\ n \in Nat /\ Len(ws) \in Nat
    BY <1>1, <1>2
  <2>2. \A k \in DOMAIN First(ws, n) : k \in DOMAIN ws /\ First(ws, n)[k] = ws[k]
    BY <1>3, <2>1
  <2>3. \A k \in DOMAIN From(ws, n) : k + n \in DOMAIN ws /\ From(ws, n)[k] = ws[k + n]
    BY <1>3, <2>1
  <2>4. ASSUME NEW k \in DOMAIN ws
        PROVE  \/ \E j \in DOMAIN First(ws, n) : First(ws, n)[j] = ws[k]
               \/ \E j \in DOMAIN From(ws, n) : From(ws, n)[j] = ws[k]
    <3>1. CASE k <= n
      BY <1>3, <2>1, <3>1
    <3>2. CASE ~ (k <= n)
      <4>1. k - n \in 1..(Len(ws) - n) /\ (k - n) + n = k
        BY <2>1, <3>2
      <4> QED BY <1>3, <2>1, <4>1
    <3> QED BY <3>1, <3>2
  <2>5. \A x : x \in IdsOf(ws) <=> x \in IdsOf(First(ws, n)) \union IdsOf(From(ws, n))
    BY <2>2, <2>3, <2>4 DEF IdsOf
  <2> QED BY <2>5
<1> QED BY <1>1, <1>2, <1>4, <1>5

LEMMA OfCut ==
  ASSUME NEW ws \in Seq(Frames), NEW n \in 0..Len(ws), NEW id
  PROVE  Of(id, First(ws, n)) + Of(id, From(ws, n)) = Of(id, ws)
<1> DEFINE a == First(ws, n)
           b == From(ws, n)
<1>1. a \in Seq(Frames) /\ b \in Seq(Frames) /\ a \o b = ws
  BY CutFacts
<1> HIDE DEF a, b
<1>2. Of(id, a \o b) = Of(id, a) + Of(id, b)
  BY ONLY <1>1, OfConcat
<1> QED BY ONLY <1>1, <1>2 DEF a, b

LEMMA TrimFacts ==
  ASSUME NEW q \in Batches, NEW frames \in Nat, NEW bytes \in Nat
  PROVE  /\ Trim(q, frames, bytes) \in Batches
         /\ Trim(q, frames, bytes).flows = q.flows
         /\ \A s \in Socket : InQueue(s, Trim(q, frames, bytes)) = InQueue(s, q)
         /\ Len(Trim(q, frames, bytes).ws) > 1
              => /\ Len(Trim(q, frames, bytes).ws) <= frames
                 /\ Bytes(Trim(q, frames, bytes).ws) <= bytes
<1> DEFINE fits(n) == Len(From(q.ws, n)) <= frames /\ Bytes(From(q.ws, n)) <= bytes
           cuts == {n \in 0..Len(q.ws) : fits(n) \/ n >= Len(q.ws) - 1}
           cut == Min(cuts)
<1>1. q.ws \in Seq(Frames) /\ q.dropped \in [Socket -> Nat] /\ q.flows \in Seq(Snapshots) /\ Len(q.ws) \in Nat
  BY DEF Batches
<1>2. cut \in cuts
  <2>1. Len(q.ws) \in cuts /\ cuts \in SUBSET Nat
    BY <1>1
  <2> HIDE DEF cuts
  <2> QED BY <2>1, MinIsOne
<1>3. Trim(q, frames, bytes) = [q EXCEPT !.ws = From(@, cut), !.dropped = Count(@, First(q.ws, cut))]
  BY DEF Trim
<1>4. cut \in 0..Len(q.ws) /\ (fits(cut) \/ cut >= Len(q.ws) - 1)
  BY <1>2
<1> HIDE DEF cut, cuts
<1>5. /\ First(q.ws, cut) \in Seq(Frames) /\ From(q.ws, cut) \in Seq(Frames)
      /\ Len(From(q.ws, cut)) = Len(q.ws) - cut
  BY <1>1, <1>4, CutFacts
<1>6. \A s \in Socket : /\ Of(s, First(q.ws, cut)) \in Nat /\ Of(s, From(q.ws, cut)) \in Nat
                        /\ Of(s, First(q.ws, cut)) + Of(s, From(q.ws, cut)) = Of(s, q.ws)
  BY <1>1, <1>4, <1>5, OfCut, OfFlowType
<1>7. Count(q.dropped, First(q.ws, cut)) \in [Socket -> Nat]
  BY <1>1, <1>6 DEF Count
<1>8. /\ Trim(q, frames, bytes).ws = From(q.ws, cut)
      /\ Trim(q, frames, bytes).dropped = Count(q.dropped, First(q.ws, cut))
      /\ Trim(q, frames, bytes).flows = q.flows
      /\ Trim(q, frames, bytes) \in Batches
  BY <1>3, <1>5, <1>7 DEF Batches
<1>9. \A s \in Socket : InQueue(s, Trim(q, frames, bytes)) = InQueue(s, q)
  BY <1>1, <1>6, <1>8 DEF InQueue, Count
<1>10. Len(From(q.ws, cut)) > 1 => fits(cut)
  BY <1>1, <1>4, <1>5
<1> QED BY <1>8, <1>9, <1>10

LEMMA TickFacts ==
  ASSUME stream \in Batches
  PROVE  TickFrames \in 0..Len(stream.ws)
<1> DEFINE S == {n \in 0..Len(stream.ws) : n <= 1 \/ Bytes(First(stream.ws, n)) <= TickBytes}
<1>1. Len(stream.ws) \in Nat
  BY DEF Batches
<1>2. S \in SUBSET (0..Len(stream.ws)) /\ 0 \in S
  BY <1>1
<1>3. TickFrames = Max(S)
  BY DEF TickFrames
<1> HIDE DEF S
<1> QED BY <1>1, <1>2, <1>3, MaxIsOne

------------------------------------------------------------------------------
(* Merging snapshots. *)

LEMMA PutFlowFacts ==
  ASSUME NEW fs \in Seq(Snapshots), NEW f \in Snapshots
  PROVE  /\ PutFlow(fs, f) \in Seq(Snapshots)
         /\ IdsOf(fs) \subseteq IdsOf(PutFlow(fs, f))
         /\ f.id \in IdsOf(PutFlow(fs, f))
<1>1. CASE f.id \in IdsOf(fs)
  <2> DEFINE g == [n \in DOMAIN fs |-> IF fs[n].id = f.id THEN f ELSE fs[n]]
  <2>1. PutFlow(fs, f) = g
    BY <1>1 DEF PutFlow
  <2>2. DOMAIN fs = 1..Len(fs) /\ Len(fs) \in Nat /\ \A n \in DOMAIN fs : fs[n] \in Snapshots
    OBVIOUS
  <2>3. g \in [1..Len(fs) -> Snapshots]
    BY <2>2
  <2>4. g \in Seq(Snapshots)
    <3> HIDE DEF g
    <3> QED BY <2>2, <2>3, SeqDef
  <2>5. \A n \in DOMAIN fs : n \in DOMAIN g /\ g[n].id = fs[n].id
    OBVIOUS
  <2>6. IdsOf(fs) \subseteq IdsOf(g)
    BY <2>5 DEF IdsOf
  <2> QED BY <1>1, <2>1, <2>4, <2>6
<1>2. CASE f.id \notin IdsOf(fs)
  <2> DEFINE g == Append(fs, f)
  <2>1. PutFlow(fs, f) = g
    BY <1>2 DEF PutFlow
  <2>2. /\ g \in Seq(Snapshots) /\ Len(g) = Len(fs) + 1
        /\ \A n \in 1..Len(fs) : g[n] = fs[n]
        /\ g[Len(fs) + 1] = f
    BY AppendProperties
  <2>3. /\ DOMAIN fs = 1..Len(fs) /\ DOMAIN g = 1..(Len(fs) + 1) /\ Len(fs) \in Nat
    BY <2>2
  <2>4. (\A n \in DOMAIN fs : n \in DOMAIN g) /\ Len(fs) + 1 \in DOMAIN g
    BY <2>3
  <2> HIDE DEF g
  <2>5. IdsOf(fs) \subseteq IdsOf(g) /\ f.id \in IdsOf(g)
    BY <2>2, <2>3, <2>4 DEF IdsOf
  <2> QED BY <2>1, <2>2, <2>5
<1> QED BY <1>1, <1>2

Merging(to, fs, gs, N) == to = [n \in 0..N |-> IF n = 0 THEN fs ELSE PutFlow(to[n - 1], gs[n])]

LEMMA MergeExists ==
  ASSUME NEW fs, NEW gs, NEW N \in Nat
  PROVE  \E to : Merging(to, fs, gs, N)
<1> DEFINE S == {n \in 0..N : ~ \E to : Merging(to, fs, gs, n)}
<1>1. 0 \notin S
  <2> DEFINE none == [n \in 0..0 |-> fs]
  <2>1. Merging(none, fs, gs, 0)
    BY DEF Merging
  <2> QED BY <2>1
<1>2. ASSUME S # {} PROVE FALSE
  <2>1. PICK n \in 1..N : n \in S /\ n - 1 \in 0..N /\ n - 1 \notin S
    <3>1. S \in SUBSET (0..N)
      OBVIOUS
    <3> HIDE DEF S
    <3> QED BY <1>1, <1>2, <3>1, FirstWrong
  <2>2. PICK to : Merging(to, fs, gs, n - 1)
    BY <2>1
  <2> DEFINE next == PutFlow(to[n - 1], gs[n])
             more == [k \in 0..n |-> IF k = n THEN next ELSE to[k]]
  <2>3. Merging(more, fs, gs, n)
    <3>1. \A k \in 0..n : k # n => k \in 0..(n - 1)
      OBVIOUS
    <3>2. \A k \in 0..(n - 1) : to[k] = IF k = 0 THEN fs ELSE PutFlow(to[k - 1], gs[k])
      BY <2>2 DEF Merging
    <3>3. \A k \in 0..n : k # 0 => k - 1 \in 0..n /\ k - 1 # n
      OBVIOUS
    <3>4. \A k \in 0..n : more[k] = IF k = 0 THEN fs ELSE PutFlow(more[k - 1], gs[k])
      BY <3>1, <3>2, <3>3
    <3> QED BY <3>4 DEF Merging
  <2> QED BY <2>1, <2>3
<1> QED BY <1>2

LEMMA MergedFacts ==
  ASSUME NEW fs \in Seq(Snapshots), NEW gs \in Seq(Snapshots)
  PROVE  /\ Merged(fs, gs) \in Seq(Snapshots)
         /\ IdsOf(fs) \union IdsOf(gs) \subseteq IdsOf(Merged(fs, gs))
<1> DEFINE N == Len(gs)
           Good(to, n) == /\ to[n] \in Seq(Snapshots)
                          /\ IdsOf(fs) \subseteq IdsOf(to[n])
                          /\ \A k \in 1..n : gs[k].id \in IdsOf(to[n])
           S(to) == {n \in 0..N : ~Good(to, n)}
<1>1. N \in Nat /\ N \in 0..N /\ DOMAIN gs = 1..N
  OBVIOUS
<1>2. PICK to : Merging(to, fs, gs, N) /\ Merged(fs, gs) = to[N]
  <2>1. Merged(fs, gs) = (CHOOSE to : Merging(to, fs, gs, N))[N]
    BY DEF Merged, Merging
  <2> HIDE DEF N
  <2> QED BY <1>1, <2>1, MergeExists
<1>3. 0 \notin S(to)
  BY <1>2 DEF Merging
<1>4. ASSUME S(to) # {} PROVE FALSE
  <2>1. PICK n \in 1..N : n \in S(to) /\ n - 1 \in 0..N /\ n - 1 \notin S(to)
    <3>1. S(to) \in SUBSET (0..N)
      OBVIOUS
    <3> HIDE DEF S, N
    <3> QED BY <1>1, <1>3, <1>4, <3>1, FirstWrong
  <2>2. to[n] = PutFlow(to[n - 1], gs[n])
    <3>1. n \in 0..N /\ n # 0
      OBVIOUS
    <3> QED BY <1>2, <3>1 DEF Merging
  <2>3. gs[n] \in Snapshots
    OBVIOUS
  <2>4. Good(to, n - 1)
    BY <2>1
  <2>5. /\ to[n] \in Seq(Snapshots) /\ IdsOf(to[n - 1]) \subseteq IdsOf(to[n])
        /\ gs[n].id \in IdsOf(to[n])
    BY ONLY <2>2, <2>3, <2>4, PutFlowFacts
  <2>6. \A k \in 1..n : k = n \/ k \in 1..(n - 1)
    OBVIOUS
  <2>7. Good(to, n)
    BY ONLY <2>4, <2>5, <2>6
  <2> QED BY <2>1, <2>7
<1>5. Good(to, N)
  BY <1>1, <1>4
<1>6. IdsOf(gs) \subseteq IdsOf(to[N])
  BY <1>1, <1>5 DEF IdsOf
<1> QED BY <1>2, <1>5, <1>6

------------------------------------------------------------------------------
(* The panel within its budget. *)

Panel(fr) == DOMAIN fr \subseteq Socket /\ \A s \in DOMAIN fr : fr[s] \in Seq(Frames)

LEMMA ConstantTypes ==
  /\ MaxSockets \in Nat /\ MaxFlowsPerMessage \in Nat \ {0} /\ PageFrames \in Nat
  /\ ListCap \in Nat /\ SocketFrames \in Nat /\ QueueBytes \in Nat /\ PageBytes \in Nat
  /\ ShownBytes \in Nat /\ MaxFrames \in Nat /\ Sizes \subseteq Nat /\ IsFiniteSet(Directions)
BY SocketsAssumption

LEMMA BytesType ==
  ASSUME NEW ws \in Seq(Frames)
  PROVE  Bytes(ws) \in Nat
<1> DEFINE N == Len(ws)
           w == [n \in DOMAIN ws |-> ws[n].size]
<1>1. N \in Nat /\ DOMAIN ws = 1..N /\ \A n \in 1..N : ws[n] \in Frames
  OBVIOUS
<1>2. w \in [1..N -> Nat]
  BY <1>1 DEF Frames
<1>3. \A n \in 1..N : w[n] <= w[n]
  <2> HIDE DEF N
  <2> QED BY <1>2
<1>4. Total(w) \in Nat
  <2> HIDE DEF N, w
  <2> QED BY <1>1, <1>2, <1>3, TotalsInOrder
<1> QED BY <1>4 DEF Bytes

Loads(fr) == [s \in Socket |-> IF s \in DOMAIN fr THEN Bytes(fr[s]) ELSE 0]

LEMMA LoadsType ==
  ASSUME NEW fr, Panel(fr)
  PROVE  Loads(fr) \in [1..MaxSockets -> Nat] /\ PanelBytes(fr) = Total(Loads(fr))
<1>1. \A s \in DOMAIN fr : Bytes(fr[s]) \in Nat
  BY BytesType DEF Panel
<1> QED BY <1>1 DEF Loads, Socket, PanelBytes

(* Letting go of sockets does not add to the bytes. *)
LEMMA FewerBytes ==
  ASSUME NEW fr, Panel(fr), NEW D, NEW fewer, fewer = [s \in DOMAIN fr \ D |-> fr[s]]
  PROVE  Panel(fewer) /\ PanelBytes(fewer) \in Nat /\ PanelBytes(fr) \in Nat
         /\ PanelBytes(fewer) <= PanelBytes(fr)
<1>1. Panel(fewer)
  BY DEF Panel
<1>2. /\ Loads(fewer) \in [1..MaxSockets -> Nat] /\ PanelBytes(fewer) = Total(Loads(fewer))
      /\ Loads(fr) \in [1..MaxSockets -> Nat] /\ PanelBytes(fr) = Total(Loads(fr))
  BY <1>1, LoadsType
<1>3. \A n \in 1..MaxSockets : Loads(fewer)[n] <= Loads(fr)[n]
  <2> SUFFICES ASSUME NEW n \in 1..MaxSockets PROVE Loads(fewer)[n] <= Loads(fr)[n]
    OBVIOUS
  <2>1. Loads(fewer)[n] \in Nat /\ Loads(fr)[n] \in Nat
    BY <1>2
  <2>2. Loads(fewer)[n] = Loads(fr)[n] \/ Loads(fewer)[n] = 0
    BY DEF Loads, Socket
  <2> QED BY <2>1, <2>2
<1> DEFINE v == Loads(fewer)
           w == Loads(fr)
<1>4. v \in [1..MaxSockets -> Nat] /\ w \in [1..MaxSockets -> Nat] /\ \A n \in 1..MaxSockets : v[n] <= w[n]
  BY <1>2, <1>3
<1> HIDE DEF v, w
<1>5. Total(v) \in Nat /\ Total(w) \in Nat /\ Total(v) <= Total(w)
  BY ONLY <1>4, TotalsInOrder, ConstantTypes
<1> QED BY ONLY <1>1, <1>2, <1>5 DEF v, w

LEMMA EmptyPanel ==
  ASSUME NEW fr, Panel(fr), \A s \in DOMAIN fr : fr[s] = <<>>
  PROVE  PanelBytes(fr) = 0
<1>1. Bytes(<<>>) = 0
  <2>1. [n \in DOMAIN <<>> |-> <<>>[n].size] = [n \in 1..0 |-> 0]
    OBVIOUS
  <2> QED BY <2>1, TotalOfNothing DEF Bytes
<1>2. Loads(fr) = [n \in 1..MaxSockets |-> 0]
  BY <1>1 DEF Loads, Socket
<1> QED BY <1>2, LoadsType, TotalOfNothing, ConstantTypes

LEMMA PanelFinite ==
  ASSUME NEW fr, Panel(fr)
  PROVE  IsFiniteSet(PanelFrames(fr)) /\ Cardinality(PanelFrames(fr)) \in Nat
<1> DEFINE rows == {{s} \X DOMAIN fr[s] : s \in DOMAIN fr}
<1>1. IsFiniteSet(DOMAIN fr)
  BY FS_Interval, FS_Subset, ConstantTypes DEF Panel, Socket
<1>2. IsFiniteSet(rows)
  <2> DEFINE row == [s \in DOMAIN fr |-> {s} \X DOMAIN fr[s]]
  <2>1. row \in Surjection(DOMAIN fr, rows)
    BY DEF Surjection
  <2> QED BY ONLY <1>1, <2>1, FS_Surjection
<1>3. ASSUME NEW r \in rows PROVE IsFiniteSet(r)
  <2>1. PICK s \in DOMAIN fr : r = {s} \X DOMAIN fr[s]
    OBVIOUS
  <2>2. DOMAIN fr[s] = 1..Len(fr[s]) /\ Len(fr[s]) \in Nat
    BY DEF Panel
  <2>3. IsFiniteSet({s}) /\ IsFiniteSet(DOMAIN fr[s])
    <3>1. IsFiniteSet(1..Len(fr[s]))
      BY ONLY <2>2, FS_Interval
    <3>2. IsFiniteSet({s})
      BY FS_Singleton
    <3> QED BY <2>2, <3>1, <3>2
  <2> QED BY <2>1, <2>3, FS_Product
<1>4. IsFiniteSet(UNION rows)
  <2> HIDE DEF rows
  <2> QED BY <1>2, <1>3, FS_UNION
<1> QED BY <1>4, FS_CardinalityType DEF PanelFrames

LEMMA DropOne ==
  ASSUME NEW fr, Panel(fr), NEW s \in DOMAIN fr, fr[s] # <<>>,
         NEW less, less = [fr EXCEPT ![s] = Tail(@)]
  PROVE  /\ Panel(less) /\ DOMAIN less = DOMAIN fr
         /\ \A t \in DOMAIN fr : Len(less[t]) <= Len(fr[t])
         /\ Cardinality(PanelFrames(less)) = Cardinality(PanelFrames(fr)) - 1
<1> DEFINE last == <<s, Len(fr[s])>>
<1>1. \A t \in DOMAIN fr : fr[t] \in Seq(Frames) /\ Len(fr[t]) \in Nat /\ DOMAIN fr[t] = 1..Len(fr[t])
  BY DEF Panel
<1>2. /\ Tail(fr[s]) \in Seq(Frames) /\ Len(Tail(fr[s])) = Len(fr[s]) - 1
      /\ Len(fr[s]) \in Nat /\ Len(fr[s]) # 0
      /\ DOMAIN Tail(fr[s]) = 1..(Len(fr[s]) - 1)
  <2>1. fr[s] \in Seq(Frames)
    BY <1>1
  <2> QED BY <2>1
<1>3. DOMAIN less = DOMAIN fr /\ less[s] = Tail(fr[s]) /\ \A t \in DOMAIN fr : t # s => less[t] = fr[t]
  OBVIOUS
<1>4. Panel(less)
  <2>1. \A t \in DOMAIN fr : less[t] \in Seq(Frames)
    BY <1>1, <1>2, <1>3
  <2> QED BY <1>3, <2>1 DEF Panel
<1>5. \A t \in DOMAIN fr : Len(less[t]) <= Len(fr[t])
  BY <1>1, <1>2, <1>3
<1>6. \A k : k \in DOMAIN less[s] <=> k \in DOMAIN fr[s] /\ k # Len(fr[s])
  BY <1>1, <1>2, <1>3
<1>7. PanelFrames(less) = PanelFrames(fr) \ {last} /\ last \in PanelFrames(fr)
  <2>1. Len(fr[s]) \in DOMAIN fr[s]
    BY <1>1, <1>2
  <2>2. \A x : x \in PanelFrames(fr) <=> \E t \in DOMAIN fr : \E k \in DOMAIN fr[t] : x = <<t, k>>
    BY DEF PanelFrames
  <2>3. \A x : x \in PanelFrames(less) <=> \E t \in DOMAIN fr : \E k \in DOMAIN less[t] : x = <<t, k>>
    BY <1>3 DEF PanelFrames
  <2>4. \A t \in DOMAIN fr : t # s => DOMAIN less[t] = DOMAIN fr[t]
    BY <1>3
  <2>5. last \in PanelFrames(fr)
    BY <2>1, <2>2
  <2>6. \A x : x \in PanelFrames(less) => x \in PanelFrames(fr) /\ x # last
    BY ONLY <1>6, <2>2, <2>3, <2>4
  <2>7. \A x : x \in PanelFrames(fr) /\ x # last => x \in PanelFrames(less)
    BY ONLY <1>6, <2>2, <2>3, <2>4
  <2> QED BY <2>5, <2>6, <2>7
<1>8. Cardinality(PanelFrames(less)) = Cardinality(PanelFrames(fr)) - 1
  <2> HIDE DEF last
  <2> QED BY ONLY <1>7, PanelFinite, Panel(fr), FS_RemoveElement
<1> QED BY <1>3, <1>4, <1>5, <1>8

LEMMA OldestFacts ==
  ASSUME NEW fr, Panel(fr), NEW r \in DOMAIN fr, fr[r] # <<>>
  PROVE  Oldest(fr) \in DOMAIN fr /\ fr[Oldest(fr)] # <<>>
<1> DEFINE full == {s \in DOMAIN fr : fr[s] # <<>>}
           S == {fr[s][1].when : s \in full}
<1>1. \A s \in full : fr[s][1].when \in Nat
  <2> SUFFICES ASSUME NEW s \in full PROVE fr[s][1].when \in Nat
    OBVIOUS
  <2>1. fr[s] \in Seq(Frames) /\ fr[s] # <<>>
    BY DEF Panel
  <2>2. fr[s][1] \in Frames
    BY <2>1
  <2> QED BY <2>2 DEF Frames
<1>2. S \in SUBSET Nat /\ S # {}
  BY <1>1
<1>3. PICK w \in S : \A x \in S : w <= x
  <2> HIDE DEF S
  <2> QED BY <1>2, Smallest
<1>4. PICK s \in full : w = fr[s][1].when
  OBVIOUS
<1>5. /\ s \in DOMAIN fr /\ fr[s] # <<>>
      /\ \A t \in DOMAIN fr : fr[t] # <<>> => fr[s][1].when <= fr[t][1].when
  BY <1>3, <1>4
<1> QED BY ONLY <1>5 DEF Oldest

Evicting(left, frames, N) ==
  left = [n \in 0..N |->
            IF n = 0 THEN frames
            ELSE IF PanelBytes(left[n - 1]) <= ShownBytes THEN left[n - 1]
            ELSE [left[n - 1] EXCEPT ![Oldest(left[n - 1])] = Tail(@)]]

LEMMA EvictingExists ==
  ASSUME NEW frames, NEW N \in Nat
  PROVE  \E left : Evicting(left, frames, N)
<1> DEFINE S == {n \in 0..N : ~ \E left : Evicting(left, frames, n)}
           Less(fr) == IF PanelBytes(fr) <= ShownBytes THEN fr
                       ELSE [fr EXCEPT ![Oldest(fr)] = Tail(@)]
<1>1. 0 \notin S
  <2> DEFINE none == [n \in 0..0 |-> frames]
  <2>1. Evicting(none, frames, 0)
    BY DEF Evicting
  <2> QED BY <2>1
<1>2. ASSUME S # {} PROVE FALSE
  <2>1. PICK n \in 1..N : n \in S /\ n - 1 \in 0..N /\ n - 1 \notin S
    <3>1. S \in SUBSET (0..N)
      OBVIOUS
    <3> HIDE DEF S
    <3> QED BY <1>1, <1>2, <3>1, FirstWrong
  <2>2. PICK left : Evicting(left, frames, n - 1)
    BY <2>1
  <2> DEFINE more == [k \in 0..n |-> IF k = n THEN Less(left[n - 1]) ELSE left[k]]
  <2>3. Evicting(more, frames, n)
    <3>1. \A k \in 0..n : k # n => k \in 0..(n - 1)
      OBVIOUS
    <3>2. \A k \in 0..(n - 1) : left[k] = IF k = 0 THEN frames ELSE Less(left[k - 1])
      BY <2>2 DEF Evicting
    <3>3. \A k \in 0..n : k # 0 => k - 1 \in 0..n /\ k - 1 # n
      OBVIOUS
    <3>4. \A k \in 0..n : more[k] = IF k = 0 THEN frames ELSE Less(more[k - 1])
      <4> HIDE DEF Less
      <4> QED BY <3>1, <3>2, <3>3
    <3> QED BY <3>4 DEF Evicting
  <2> QED BY <2>1, <2>3
<1> QED BY <1>2

(* What is left after n frames are gone, or as soon as the payload fits.   *)
Remains(fr, frames, n) ==
  /\ Panel(fr) /\ DOMAIN fr = DOMAIN frames
  /\ \A s \in DOMAIN frames : Len(fr[s]) <= Len(frames[s])
  /\ \/ PanelBytes(fr) <= ShownBytes
     \/ Cardinality(PanelFrames(fr)) = Cardinality(PanelFrames(frames)) - n

LEMMA FullPanel ==
  ASSUME NEW fr, Panel(fr), Cardinality(PanelFrames(fr)) # 0
  PROVE  \E s \in DOMAIN fr : fr[s] # <<>>
<1>1. PanelFrames(fr) # {}
  BY FS_EmptySet
<1>2. PICK s \in DOMAIN fr : DOMAIN fr[s] # {}
  BY <1>1 DEF PanelFrames
<1> QED BY <1>2

LEMMA EmptiedPanel ==
  ASSUME NEW fr, Panel(fr), Cardinality(PanelFrames(fr)) = 0
  PROVE  PanelBytes(fr) = 0
<1>1. PanelFrames(fr) = {}
  BY PanelFinite, FS_EmptySet
<1>2. ASSUME NEW s \in DOMAIN fr PROVE fr[s] = <<>>
  <2>1. DOMAIN fr[s] = {} /\ fr[s] \in Seq(Frames)
    <3>1. \A k \in DOMAIN fr[s] : <<s, k>> \in PanelFrames(fr)
      BY DEF PanelFrames
    <3> QED BY <1>1, <3>1 DEF Panel
  <2> QED BY <2>1
<1> QED BY <1>2, EmptyPanel

LEMMA RemainsLess ==
  ASSUME NEW frames, Panel(frames), NEW n \in Nat, n # 0,
         n <= Cardinality(PanelFrames(frames)),
         NEW fr, Remains(fr, frames, n - 1), NEW less,
         less = IF PanelBytes(fr) <= ShownBytes THEN fr ELSE [fr EXCEPT ![Oldest(fr)] = Tail(@)]
  PROVE  Remains(less, frames, n)
<1>1. CASE PanelBytes(fr) <= ShownBytes
  BY <1>1 DEF Remains
<1>2. CASE ~ (PanelBytes(fr) <= ShownBytes)
  <2>1. /\ Panel(fr) /\ Cardinality(PanelFrames(frames)) \in Nat
        /\ Cardinality(PanelFrames(fr)) = Cardinality(PanelFrames(frames)) - (n - 1)
    BY <1>2, PanelFinite DEF Remains
  <2>2. PICK r \in DOMAIN fr : fr[r] # <<>>
    <3>1. Cardinality(PanelFrames(fr)) # 0
      BY <2>1
    <3> QED BY <2>1, <3>1, FullPanel
  <2>3. Oldest(fr) \in DOMAIN fr /\ fr[Oldest(fr)] # <<>>
    BY <2>1, <2>2, OldestFacts
  <2>4. /\ Panel(less) /\ DOMAIN less = DOMAIN fr
        /\ \A t \in DOMAIN fr : Len(less[t]) <= Len(fr[t])
        /\ Cardinality(PanelFrames(less)) = Cardinality(PanelFrames(fr)) - 1
    <3> DEFINE o == Oldest(fr)
    <3>1. less = [fr EXCEPT ![o] = Tail(@)] /\ o \in DOMAIN fr /\ fr[o] # <<>>
      BY <1>2, <2>3
    <3> HIDE DEF o
    <3> QED BY ONLY <2>1, <3>1, DropOne
  <2>5. Cardinality(PanelFrames(less)) = Cardinality(PanelFrames(frames)) - n
    BY ONLY <2>1, <2>4, n \in Nat
  <2>6. \A s \in DOMAIN frames : Len(less[s]) <= Len(frames[s])
    <3>1. \A s \in DOMAIN frames : Len(less[s]) <= Len(fr[s]) /\ Len(fr[s]) <= Len(frames[s])
      BY <2>4 DEF Remains
    <3>2. \A s \in DOMAIN frames : Len(less[s]) \in Nat /\ Len(fr[s]) \in Nat /\ Len(frames[s]) \in Nat
      BY <2>1, <2>4 DEF Remains, Panel
    <3> QED BY ONLY <3>1, <3>2
  <2> QED BY <2>4, <2>5, <2>6 DEF Remains
<1> QED BY <1>1, <1>2

LEMMA BudgetFacts ==
  ASSUME NEW frames, Panel(frames)
  PROVE  /\ Panel(WithinBudget(frames)) /\ DOMAIN WithinBudget(frames) = DOMAIN frames
         /\ \A s \in DOMAIN frames : Len(WithinBudget(frames)[s]) <= Len(frames[s])
         /\ PanelBytes(WithinBudget(frames)) <= ShownBytes
<1> DEFINE N == Cardinality(PanelFrames(frames))
           S(left) == {n \in 0..N : ~Remains(left[n], frames, n)}
<1>1. N \in Nat /\ N \in 0..N
  <2>1. N \in Nat
    BY PanelFinite
  <2> QED BY <2>1
<1>2. PICK left : Evicting(left, frames, N) /\ WithinBudget(frames) = left[N]
  <2>1. WithinBudget(frames) = (CHOOSE left : Evicting(left, frames, N))[N]
    BY DEF WithinBudget, Evicting
  <2> HIDE DEF N
  <2> QED BY <1>1, <2>1, EvictingExists
<1> HIDE DEF N
<1>3. 0 \notin S(left)
  <2>1. left[0] = frames
    BY <1>1, <1>2 DEF Evicting
  <2>2. N - 0 = N
    BY <1>1
  <2>3. \A s \in DOMAIN frames : Len(frames[s]) <= Len(frames[s])
    BY DEF Panel
  <2>4. Remains(frames, frames, 0)
    BY <2>2, <2>3 DEF Remains, N
  <2> QED BY <2>1, <2>4
<1>4. ASSUME S(left) # {} PROVE FALSE
  <2>1. PICK n \in 1..N : n \in S(left) /\ n - 1 \in 0..N /\ n - 1 \notin S(left)
    <3>1. S(left) \in SUBSET (0..N)
      OBVIOUS
    <3> HIDE DEF S
    <3> QED BY <1>1, <1>3, <1>4, <3>1, FirstWrong
  <2>2. left[n] = IF PanelBytes(left[n - 1]) <= ShownBytes THEN left[n - 1]
                  ELSE [left[n - 1] EXCEPT ![Oldest(left[n - 1])] = Tail(@)]
    <3>1. n \in 0..N /\ n # 0
      BY <1>1
    <3> QED BY <1>2, <3>1 DEF Evicting
  <2>3. n \in Nat /\ n # 0 /\ n <= N
    BY <1>1
  <2>4. Remains(left[n - 1], frames, n - 1)
    BY <2>1
  <2>5. Remains(left[n], frames, n)
    BY ONLY <2>2, <2>3, <2>4, RemainsLess, Panel(frames) DEF N
  <2> QED BY <1>1, <2>1, <2>5
<1>5. Remains(left[N], frames, N)
  BY <1>1, <1>4
<1>6. N - N = 0 /\ ShownBytes \in Nat
  BY <1>1, ConstantTypes
<1>7. PanelBytes(left[N]) <= ShownBytes
  BY <1>5, <1>6, EmptiedPanel DEF Remains, N
<1> QED BY <1>2, <1>5, <1>7 DEF Remains

LEMMA MaxOfTwo ==
  ASSUME NEW x \in Int
  PROVE  Max({0, x}) = IF x > 0 THEN x ELSE 0
<1> DEFINE m == IF x > 0 THEN x ELSE 0
<1>1. m \in {0, x} /\ \A y \in {0, x} : m >= y
  OBVIOUS
<1>2. \A z \in {0, x} : (\A y \in {0, x} : z >= y) => z = m
  OBVIOUS
<1> HIDE DEF m
<1>3. Max({0, x}) = m
  BY <1>1, <1>2 DEF Max
<1> QED BY <1>3 DEF m

Grows(all, had, ws) ==
  \A s \in DOMAIN all : Len(all[s]) = (IF s \in DOMAIN had THEN Len(had[s]) ELSE 0) + Of(s, ws)

LEMMA AppendedFacts ==
  ASSUME NEW had, Panel(had), NEW ws \in Seq(Frames), NEW ids,
         NEW all, all = Appended(had, ws, ids)
  PROVE  /\ Panel(all) /\ DOMAIN all = DOMAIN had \union (IdsOf(ws) \intersect ids)
         /\ Grows(all, had, ws)
<1>1. /\ DOMAIN all = DOMAIN had \union (IdsOf(ws) \intersect ids)
      /\ \A s \in DOMAIN all : all[s] = (IF s \in DOMAIN had THEN had[s] ELSE <<>>) \o OfFlow(ws, s)
  BY DEF Appended
<1>2. IdsOf(ws) \subseteq Socket
  <2>1. \A n \in DOMAIN ws : ws[n] \in Frames
    OBVIOUS
  <2> QED BY <2>1 DEF IdsOf, Frames
<1>3. ASSUME NEW s \in DOMAIN all
      PROVE  /\ all[s] \in Seq(Frames)
             /\ Len(all[s]) = (IF s \in DOMAIN had THEN Len(had[s]) ELSE 0) + Of(s, ws)
  <2> DEFINE before == IF s \in DOMAIN had THEN had[s] ELSE <<>>
  <2>1. before \in Seq(Frames) /\ Len(before) = IF s \in DOMAIN had THEN Len(had[s]) ELSE 0
    BY DEF Panel
  <2>2. OfFlow(ws, s) \in Seq(Frames)
    BY OfFlowType
  <2>3. all[s] = before \o OfFlow(ws, s)
    BY <1>1
  <2> HIDE DEF before
  <2>4. all[s] \in Seq(Frames) /\ Len(all[s]) = Len(before) + Len(OfFlow(ws, s))
    BY ONLY <2>1, <2>2, <2>3, ConcatProperties
  <2> QED BY ONLY <2>1, <2>4 DEF Of
<1>4. DOMAIN all \subseteq Socket
  BY <1>1, <1>2 DEF Panel
<1>5. Panel(all)
  BY <1>3, <1>4 DEF Panel
<1> QED BY <1>1, <1>3, <1>5 DEF Grows

LEMMA CappedFacts ==
  ASSUME NEW fr, Panel(fr), NEW capped, capped = Capped(fr)
  PROVE  /\ Panel(capped) /\ DOMAIN capped = DOMAIN fr
         /\ \A s \in DOMAIN fr : Len(capped[s]) <= SocketFrames /\ Len(capped[s]) <= Len(fr[s])
<1>1. DOMAIN capped = DOMAIN fr
  BY DEF Capped
<1>2. ASSUME NEW s \in DOMAIN fr
      PROVE  /\ capped[s] \in Seq(Frames)
             /\ Len(capped[s]) <= SocketFrames /\ Len(capped[s]) <= Len(fr[s])
  <2> DEFINE over == Max({0, Len(fr[s]) - SocketFrames})
  <2>1. fr[s] \in Seq(Frames) /\ Len(fr[s]) \in Nat /\ SocketFrames \in Nat
    BY ConstantTypes DEF Panel
  <2>2. over = IF Len(fr[s]) - SocketFrames > 0 THEN Len(fr[s]) - SocketFrames ELSE 0
    <3>1. Len(fr[s]) - SocketFrames \in Int
      BY <2>1
    <3> QED BY <3>1, MaxOfTwo
  <2>3. capped[s] = From(fr[s], over)
    BY DEF Capped
  <2> HIDE DEF over
  <2>4. over \in 0..Len(fr[s])
    BY ONLY <2>1, <2>2
  <2>5. capped[s] \in Seq(Frames) /\ Len(capped[s]) = Len(fr[s]) - over
    <3> DEFINE g == fr[s]
    <3>1. g \in Seq(Frames) /\ over \in 0..Len(g)
      BY <2>1, <2>4
    <3> HIDE DEF g
    <3>2. From(g, over) \in Seq(Frames) /\ Len(From(g, over)) = Len(g) - over
      BY ONLY <3>1, CutFacts
    <3> QED BY ONLY <2>3, <3>2 DEF g
  <2> QED BY <2>1, <2>2, <2>5
<1> QED BY <1>1, <1>2 DEF Panel

------------------------------------------------------------------------------
(* Frames in hand. *)

Emits(h, id) == h.at = "emit" /\ h.frame.id = id
Emitting(id) == {x \in Socket \X Directions : Emits(hand[x[1]][x[2]], id)}

LEMMA InHandFacts ==
  ASSUME NEW id
  PROVE  InHand(id) = Cardinality(Emitting(id)) /\ IsFiniteSet(Emitting(id)) /\ InHand(id) \in Nat
<1>1. IsFiniteSet(Socket \X Directions)
  <2>1. IsFiniteSet(Socket)
    BY ConstantTypes, FS_Interval DEF Socket
  <2> QED BY <2>1, ConstantTypes, FS_Product
<1>2. IsFiniteSet(Emitting(id))
  BY <1>1, FS_Subset DEF Emitting
<1>3. InHand(id) = Cardinality(Emitting(id))
  BY DEF InHand, Emitting, Emits
<1> QED BY <1>2, <1>3, FS_CardinalityType

LEMMA HandFacts ==
  ASSUME hand \in [Socket -> [Directions -> Hands]], NEW s \in Socket, NEW d \in Directions,
         NEW h, hand' = [hand EXCEPT ![s][d] = h], NEW id
  PROVE  InHand(id)' = InHand(id) - (IF Emits(hand[s][d], id) THEN 1 ELSE 0)
                                  + (IF Emits(h, id) THEN 1 ELSE 0)
<1> DEFINE x == <<s, d>>
           E == Emitting(id)
           F == Emitting(id)'
<1>1. /\ InHand(id) = Cardinality(E) /\ IsFiniteSet(E) /\ Cardinality(E) \in Nat
      /\ InHand(id)' = Cardinality(F)
  <2>1. InHand(id) = Cardinality(E) /\ IsFiniteSet(E)
    BY InHandFacts
  <2>2. InHand(id)' = Cardinality(F)
    BY DEF InHand, Emitting, Emits
  <2> QED BY <2>1, <2>2, FS_CardinalityType
<1>2. hand'[s][d] = h
  OBVIOUS
<1>3. \A t \in Socket, e \in Directions : <<t, e>> # x => hand'[t][e] = hand[t][e]
  OBVIOUS
<1>4. x \in E <=> Emits(hand[s][d], id)
  BY DEF Emitting
<1>5. x \in F <=> Emits(h, id)
  BY <1>2 DEF Emitting, Emits
<1>6. \A y : y # x => (y \in E <=> y \in F)
  <2>1. \A y \in Socket \X Directions : y # x => (y \in E <=> y \in F)
    <3> SUFFICES ASSUME NEW t \in Socket, NEW e \in Directions, <<t, e>> # x
                 PROVE  <<t, e>> \in E <=> <<t, e>> \in F
      OBVIOUS
    <3>1. hand'[t][e] = hand[t][e]
      BY <1>3
    <3> QED BY <3>1 DEF Emitting, Emits
  <2>2. E \subseteq Socket \X Directions /\ F \subseteq Socket \X Directions
    BY DEF Emitting
  <2> QED BY <2>1, <2>2
<1> HIDE DEF E, F, x
<1>7. CASE x \in E /\ x \notin F
  <2>1. F = E \ {x}
    BY <1>6, <1>7
  <2>2. Cardinality(F) = Cardinality(E) - 1
    BY <1>1, <1>7, <2>1, FS_RemoveElement
  <2> QED BY <1>1, <1>4, <1>5, <1>7, <2>2
<1>8. CASE x \notin E /\ x \in F
  <2>1. F = E \union {x}
    BY <1>6, <1>8
  <2>2. Cardinality(F) = Cardinality(E) + 1
    BY <1>1, <1>8, <2>1, FS_AddElement
  <2> QED BY <1>1, <1>4, <1>5, <1>8, <2>2
<1>9. CASE x \in E <=> x \in F
  <2>1. F = E
    <3>1. \A y : y \in E <=> y \in F
      BY ONLY <1>6, <1>9
    <3> QED BY ONLY <3>1
  <2> QED BY <1>1, <1>4, <1>5, <1>9, <2>1
<1> QED BY <1>7, <1>8, <1>9

------------------------------------------------------------------------------
(* The steps. *)

LEMMA QueueFacts ==
  ASSUME SocketTypes, NEW s \in Socket
  PROVE  /\ Of(s, stream.ws) \in Nat /\ stream.dropped[s] \in Nat
         /\ Of(s, taken.ws) \in Nat /\ taken.dropped[s] \in Nat
         /\ Of(s, page.ws) \in Nat /\ page.dropped[s] \in Nat
         /\ Shown(s) \in Nat /\ lost[s] \in Nat /\ numbered[s] \in Nat /\ InHand(s) \in Nat
<1>1. /\ stream.ws \in Seq(Frames) /\ stream.dropped \in [Socket -> Nat]
      /\ taken.ws \in Seq(Frames) /\ taken.dropped \in [Socket -> Nat]
      /\ page.ws \in Seq(Frames) /\ page.dropped \in [Socket -> Nat]
  BY DEF SocketTypes, Batches, Takings
<1>2. Shown(s) \in Nat
  BY DEF Shown, SocketTypes
<1> QED BY <1>1, <1>2, OfFlowType, InHandFacts DEF SocketTypes

LEMMA SocketsInitInv == SocketsInit => SocketsInv
<1> SUFFICES ASSUME SocketsInit PROVE SocketsInv
  OBVIOUS
<1> USE ConstantTypes
<1>1. NoCounts \in [Socket -> Nat]
  BY DEF NoCounts
<1>2. <<>> \in Seq(Snapshots) /\ <<>> \in Seq(Frames) /\ <<>> \in Seq(Openings)
  OBVIOUS
<1>3. EmptyBatch \in Batches /\ NotTaken \in Takings
  BY <1>1, <1>2 DEF EmptyBatch, NotTaken, Batches, Takings
<1>4. hand \in [Socket -> [Directions -> Hands]]
  BY DEF SocketsInit, Hands
<1>5. SocketTypes
  BY <1>1, <1>2, <1>3, <1>4 DEF SocketsInit, SocketTypes
<1>6. \A s \in Socket : InQueue(s, EmptyBatch) = 0 /\ InQueue(s, NotTaken) = 0
  BY OfNone DEF InQueue, EmptyBatch, NotTaken, NoCounts
<1>7. \A s \in Socket, d \in Directions : hand[s][d].at = "idle"
  BY DEF SocketsInit, AtRest
<1>8. DOMAIN sockets = {}
  BY DEF SocketsInit
<1>9. FlowsFirst
  BY <1>6, <1>7, <1>8 DEF SocketsInit, FlowsFirst
<1>10. \A s \in Socket : InHand(s) = 0
  <2>1. \A s \in Socket : Emitting(s) = {}
    BY <1>7 DEF Emitting, Emits
  <2> QED BY <2>1, InHandFacts, FS_EmptySet
<1>11. Balanced
  <2>1. \A s \in Socket : Shown(s) = 0 /\ lost[s] = 0 /\ numbered[s] = 0
    BY DEF SocketsInit, Shown, NoCounts
  <2> QED BY <1>6, <1>10, <2>1 DEF SocketsInit, Balanced
<1>12. FramesBounded
  <2>1. Len(stream.ws) = 0 /\ Len(page.ws) = 0
    BY DEF SocketsInit, EmptyBatch
  <2>2. Panel(shown) /\ DOMAIN shown = {}
    BY DEF SocketsInit, Panel
  <2>3. PanelBytes(shown) = 0
    BY <2>2, EmptyPanel
  <2> QED BY <2>1, <2>2, <2>3 DEF FramesBounded
<1> QED BY <1>5, <1>9, <1>11, <1>12 DEF SocketsInv

(* What a step of the engine that moves no frame leaves as it is. *)
LEMMA QuietStep ==
  ASSUME SocketsInv, SocketTypes', UNCHANGED <<pageVars, taken, numbered>>,
         stream'.ws = stream.ws, stream'.dropped = stream.dropped,
         IdsOf(stream.flows) \subseteq IdsOf(stream'.flows),
         DOMAIN sockets \subseteq DOMAIN sockets',
         DOMAIN sockets' \subseteq DOMAIN sockets \union IdsOf(stream'.flows),
         \A s \in Socket : InHand(s)' = InHand(s),
         \A s \in Socket, d \in Directions : hand'[s][d].at # "idle" => hand'[s][d].frame.id \in DOMAIN sockets'
  PROVE  SocketsInv'
<1>1. FlowsFirst'
  BY DEF SocketsInv, FlowsFirst, Known, pageVars, InQueue
<1>2. Balanced'
  BY DEF SocketsInv, Balanced, pageVars, InQueue, Shown
<1>3. FramesBounded'
  BY DEF SocketsInv, FramesBounded, pageVars
<1> QED BY <1>1, <1>2, <1>3 DEF SocketsInv

LEMMA SocketsAre == SocketTypes => DOMAIN sockets = 1..Len(sockets) /\ DOMAIN sockets \subseteq Socket
BY ConstantTypes DEF SocketTypes, Socket

LEMMA SetFlowFacts ==
  ASSUME SocketTypes, NEW id \in Socket, NEW state \in {"pending", "completed"}, SetFlow(id, state)
  PROVE  /\ stream' \in Batches /\ stream'.ws = stream.ws /\ stream'.dropped = stream.dropped
         /\ IdsOf(stream.flows) \subseteq IdsOf(stream'.flows) /\ id \in IdsOf(stream'.flows)
<1> DEFINE f == [id |-> id, state |-> state]
           fs == PutFlow(stream.flows, f)
<1>1. f \in Snapshots /\ f.id = id /\ stream.flows \in Seq(Snapshots) /\ stream \in Batches
  BY DEF Snapshots, SocketTypes, Batches
<1>2. stream' = [stream EXCEPT !.flows = fs]
  BY DEF SetFlow
<1> HIDE DEF f
<1>3. fs \in Seq(Snapshots) /\ IdsOf(stream.flows) \subseteq IdsOf(fs) /\ id \in IdsOf(fs)
  BY ONLY <1>1, PutFlowFacts
<1> HIDE DEF fs
<1> QED BY ONLY <1>1, <1>2, <1>3 DEF Batches

LEMMA HandshakeInv ==
  ASSUME SocketsInv, NEW s \in Socket, NEW p \in Places, Handshake(s, p)
  PROVE  SocketsInv'
<1> USE DEF SocketsInv
<1>1. SetFlow(s, "pending") /\ UNCHANGED <<ended, routes, numbered, hand, taken, pageVars>>
  BY DEF Handshake
<1>2. /\ stream' \in Batches /\ stream'.ws = stream.ws /\ stream'.dropped = stream.dropped
      /\ IdsOf(stream.flows) \subseteq IdsOf(stream'.flows) /\ s \in IdsOf(stream'.flows)
  BY <1>1, SetFlowFacts
<1>3. /\ sockets' \in Seq(Openings) /\ Len(sockets') = s
      /\ DOMAIN sockets' = DOMAIN sockets \union {s}
  <2> DEFINE r == [place |-> p, open |-> FALSE]
  <2>1. sockets' = Append(sockets, r) /\ s = Len(sockets) + 1 /\ r \in Openings /\ sockets \in Seq(Openings)
    BY DEF Handshake, Openings, SocketTypes
  <2> HIDE DEF r
  <2>2. sockets' \in Seq(Openings) /\ Len(sockets') = s /\ Len(sockets) \in Nat
    BY ONLY <2>1, AppendProperties, LenProperties
  <2>3. DOMAIN sockets' = 1..s /\ DOMAIN sockets = 1..Len(sockets)
    BY ONLY <2>1, <2>2
  <2> QED BY ONLY <2>1, <2>2, <2>3
<1>4. SocketTypes'
  <2>1. Len(sockets') <= MaxSockets
    BY <1>3 DEF Socket
  <2> QED BY <1>1, <1>2, <1>3, <2>1 DEF SocketTypes, pageVars
<1>5. \A t \in Socket : InHand(t)' = InHand(t)
  BY <1>1 DEF InHand
<1>6. \A t \in Socket, d \in Directions : hand'[t][d].at # "idle" => hand'[t][d].frame.id \in DOMAIN sockets'
  BY <1>1, <1>3 DEF FlowsFirst
<1> QED BY <1>1, <1>2, <1>3, <1>4, <1>5, <1>6, QuietStep

LEMMA RouteInv ==
  ASSUME SocketsInv, NEW s \in Socket, Route(s)
  PROVE  SocketsInv'
<1> USE DEF SocketsInv
<1>1. /\ UNCHANGED <<numbered, hand, stream, taken, pageVars>> /\ s \in DOMAIN sockets
      /\ sockets' = [sockets EXCEPT ![s].open = TRUE]
      /\ routes' = [p \in DOMAIN routes \union {sockets[s].place} |->
                     IF p = sockets[s].place THEN s ELSE routes[p]]
  BY DEF Route
<1>2. sockets' \in Seq(Openings) /\ Len(sockets') = Len(sockets) /\ DOMAIN sockets' = DOMAIN sockets
  <2>1. sockets \in Seq(Openings) /\ sockets[s] \in Openings
    BY <1>1 DEF SocketTypes
  <2>2. [sockets[s] EXCEPT !.open = TRUE] \in Openings
    BY <2>1 DEF Openings
  <2>3. sockets' = [sockets EXCEPT ![s] = [sockets[s] EXCEPT !.open = TRUE]]
    BY <1>1
  <2> HIDE DEF Openings
  <2> QED BY <1>1, <2>1, <2>2, <2>3, ExceptSeq
<1>3. SocketTypes'
  BY <1>1, <1>2 DEF SocketTypes, pageVars
<1>4. \A t \in Socket : InHand(t)' = InHand(t)
  BY <1>1 DEF InHand
<1>5. \A t \in Socket, d \in Directions : hand'[t][d].at # "idle" => hand'[t][d].frame.id \in DOMAIN sockets'
  BY <1>1, <1>2 DEF FlowsFirst
<1> QED BY <1>1, <1>2, <1>3, <1>4, <1>5, QuietStep

LEMMA UnroutedInv ==
  ASSUME SocketsInv, NEW s \in Socket, NEW d \in Directions, NEW m \in Payload, Unrouted(s, d, m)
  PROVE  SocketsInv'
<1>1. UNCHANGED <<sockets, routes, numbered, hand, stream, taken, pageVars>>
  BY DEF Unrouted
<1>2. SocketTypes'
  BY <1>1 DEF SocketsInv, SocketTypes, pageVars
<1>3. \A t \in Socket : InHand(t)' = InHand(t)
  BY <1>1 DEF InHand
<1>4. \A t \in Socket, e \in Directions : hand'[t][e].at # "idle" => hand'[t][e].frame.id \in DOMAIN sockets'
  BY <1>1 DEF SocketsInv, FlowsFirst
<1> QED BY <1>1, <1>2, <1>3, <1>4, QuietStep

(* What a direction has in hand is of a socket that was opened. *)
LEMMA HandOfSocket ==
  ASSUME SocketsInv, NEW s \in Socket, NEW d \in Directions, hand[s][d].at # "idle"
  PROVE  /\ hand[s][d] \in [at : {"emit", "finish", "retire"}, frame : Frames]
         /\ hand[s][d].frame \in Frames /\ hand[s][d].frame.id \in Socket
         /\ hand[s][d].frame.id \in DOMAIN sockets
<1>1. hand[s][d] \in Hands
  BY DEF SocketsInv, SocketTypes
<1>2. hand[s][d] # AtRest
  BY DEF AtRest
<1>3. hand[s][d] \in [at : {"emit", "finish", "retire"}, frame : Frames]
  BY <1>1, <1>2 DEF Hands
<1>4. hand[s][d].frame \in Frames
  BY <1>3
<1> QED BY <1>3, <1>4 DEF SocketsInv, FlowsFirst, Frames

LEMMA HandType ==
  ASSUME hand \in [Socket -> [Directions -> Hands]], NEW s \in Socket, NEW d \in Directions,
         NEW h \in Hands, hand' = [hand EXCEPT ![s][d] = h]
  PROVE  /\ hand' \in [Socket -> [Directions -> Hands]]
         /\ \A t \in Socket, e \in Directions :
              hand'[t][e] = IF t = s /\ e = d THEN h ELSE hand[t][e]
OBVIOUS

LEMMA FinishInv ==
  ASSUME SocketsInv, NEW s \in Socket, NEW d \in Directions, Finish(s, d)
  PROVE  SocketsInv'
<1> USE DEF SocketsInv
<1> DEFINE h == [hand[s][d] EXCEPT !.at = "retire"]
<1>1. /\ hand[s][d].at = "finish" /\ SetFlow(hand[s][d].frame.id, "completed")
      /\ hand' = [hand EXCEPT ![s][d].at = "retire"]
      /\ UNCHANGED <<ended, sockets, routes, numbered, taken, pageVars>>
  BY DEF Finish
<1>2. /\ hand[s][d] \in [at : {"emit", "finish", "retire"}, frame : Frames]
      /\ hand[s][d].frame.id \in Socket /\ hand[s][d].frame.id \in DOMAIN sockets
  BY <1>1, HandOfSocket
<1>3. /\ stream' \in Batches /\ stream'.ws = stream.ws /\ stream'.dropped = stream.dropped
      /\ IdsOf(stream.flows) \subseteq IdsOf(stream'.flows)
  BY <1>1, <1>2, SetFlowFacts
<1>4. h \in Hands /\ h.at = "retire" /\ h.frame = hand[s][d].frame
  BY <1>2 DEF Hands
<1>5. hand \in [Socket -> [Directions -> Hands]] /\ hand' = [hand EXCEPT ![s][d] = h]
  BY <1>1 DEF SocketTypes
<1> HIDE DEF h
<1>6. /\ hand' \in [Socket -> [Directions -> Hands]]
      /\ \A t \in Socket, e \in Directions : hand'[t][e] = IF t = s /\ e = d THEN h ELSE hand[t][e]
  BY <1>4, <1>5, HandType
<1>7. SocketTypes'
  BY <1>1, <1>3, <1>6 DEF SocketTypes, pageVars
<1>8. \A t \in Socket : InHand(t)' = InHand(t)
  <2> SUFFICES ASSUME NEW t \in Socket PROVE InHand(t)' = InHand(t)
    OBVIOUS
  <2>1. ~Emits(hand[s][d], t) /\ ~Emits(h, t) /\ InHand(t) \in Nat
    BY <1>1, <1>4, InHandFacts DEF Emits
  <2>2. InHand(t)' = InHand(t) - (IF Emits(hand[s][d], t) THEN 1 ELSE 0)
                               + (IF Emits(h, t) THEN 1 ELSE 0)
    BY <1>5, HandFacts
  <2> QED BY ONLY <2>1, <2>2
<1>9. \A t \in Socket, e \in Directions : hand'[t][e].at # "idle" => hand'[t][e].frame.id \in DOMAIN sockets'
  BY <1>1, <1>2, <1>4, <1>6 DEF FlowsFirst
<1> QED BY <1>1, <1>3, <1>7, <1>8, <1>9, QuietStep

LEMMA RetireInv ==
  ASSUME SocketsInv, NEW s \in Socket, NEW d \in Directions, Retire(s, d)
  PROVE  SocketsInv'
<1> USE DEF SocketsInv
<1>1. /\ hand[s][d].at = "retire" /\ hand' = [hand EXCEPT ![s][d] = AtRest]
      /\ routes' = [p \in DOMAIN routes \ {sockets[s].place} |-> routes[p]]
      /\ UNCHANGED <<sockets, numbered, stream, taken, pageVars>>
  BY DEF Retire
<1>2. AtRest \in Hands /\ AtRest.at = "idle" /\ hand \in [Socket -> [Directions -> Hands]]
  BY DEF Hands, AtRest, SocketTypes
<1>3. /\ hand' \in [Socket -> [Directions -> Hands]]
      /\ \A t \in Socket, e \in Directions : hand'[t][e] = IF t = s /\ e = d THEN AtRest ELSE hand[t][e]
  BY <1>1, <1>2, HandType
<1>4. SocketTypes'
  BY <1>1, <1>3 DEF SocketTypes, pageVars
<1>5. \A t \in Socket : InHand(t)' = InHand(t)
  <2> SUFFICES ASSUME NEW t \in Socket PROVE InHand(t)' = InHand(t)
    OBVIOUS
  <2>1. ~Emits(hand[s][d], t) /\ ~Emits(AtRest, t) /\ InHand(t) \in Nat
    BY <1>1, <1>2, InHandFacts DEF Emits
  <2>2. InHand(t)' = InHand(t) - (IF Emits(hand[s][d], t) THEN 1 ELSE 0)
                               + (IF Emits(AtRest, t) THEN 1 ELSE 0)
    BY <1>1, <1>2, HandFacts
  <2> QED BY ONLY <2>1, <2>2
<1>6. \A t \in Socket, e \in Directions : hand'[t][e].at # "idle" => hand'[t][e].frame.id \in DOMAIN sockets'
  BY <1>1, <1>2, <1>3 DEF FlowsFirst
<1> QED BY <1>1, <1>4, <1>5, <1>6, QuietStep

LEMMA OfOneMore ==
  ASSUME NEW ws \in Seq(Frames), NEW m \in Frames, NEW id
  PROVE  Of(id, Append(ws, m)) = Of(id, ws) + (IF m.id = id THEN 1 ELSE 0)
<1>1. <<m>> \in Seq(Frames) /\ Len(<<m>>) = 1 /\ <<m>>[1] = m
  OBVIOUS
<1>2. Append(ws, m) = ws \o <<m>>
  <2> HIDE DEF Frames
  <2> QED BY AppendIsConcat
<1>3. Of(id, ws \o <<m>>) = Of(id, ws) + Of(id, <<m>>)
  <2> DEFINE us == <<m>>
  <2>1. us \in Seq(Frames)
    BY <1>1
  <2> HIDE DEF us
  <2>2. Of(id, ws \o us) = Of(id, ws) + Of(id, us)
    BY ONLY <2>1, ws \in Seq(Frames), OfConcat
  <2> QED BY <2>2 DEF us
<1>4. Of(id, <<m>>) = IF m.id = id THEN 1 ELSE 0
  <2>1. PICK of : Sifting(of, <<m>>, id, 1) /\ OfFlow(<<m>>, id) = of[1]
    BY <1>1, OfFlowFacts
  <2>2. of[0] = <<>> /\ of[1] = IF m.id = id THEN Append(of[1 - 1], m) ELSE of[1 - 1]
    <3>1. 0 \in 0..1 /\ 1 \in 0..1 /\ 1 # 0
      OBVIOUS
    <3> QED BY <1>1, <2>1, <3>1 DEF Sifting
  <2>3. of[1] = IF m.id = id THEN Append(<<>>, m) ELSE <<>>
    <3>1. 1 - 1 = 0
      OBVIOUS
    <3> QED BY <2>2, <3>1
  <2>4. Len(Append(<<>>, m)) = 1 /\ Len(<<>>) = 0
    OBVIOUS
  <2> QED BY <1>1, <2>1, <2>3, <2>4 DEF Of
<1> QED BY ONLY <1>2, <1>3, <1>4

LEMMA RecordInv ==
  ASSUME SocketsInv, NEW s \in Socket, NEW d \in Directions, NEW m \in Payload, Record(s, d, m)
  PROVE  SocketsInv'
<1> USE DEF SocketsInv
<1> DEFINE p  == sockets[s].place
           id == routes[p]
           f  == [id |-> id, when |-> Recorded, size |-> m.size, close |-> m.close]
           h  == [at |-> "emit", frame |-> f]
<1>1. /\ hand[s][d] = AtRest /\ p \in DOMAIN routes
      /\ numbered' = [numbered EXCEPT ![id] = @ + 1]
      /\ hand' = [hand EXCEPT ![s][d] = h]
      /\ UNCHANGED <<sockets, routes, stream, taken, pageVars>>
  BY DEF Record
<1>2. id \in DOMAIN sockets /\ id \in Socket
  BY <1>1, SocketsAre DEF SocketTypes
<1>3. Recorded \in Nat
  <2>1. numbered \in [1..MaxSockets -> Nat]
    BY DEF SocketTypes, Socket
  <2>2. \A n \in 1..MaxSockets : numbered[n] <= numbered[n]
    BY <2>1
  <2> QED BY ONLY <2>1, <2>2, ConstantTypes, TotalsInOrder DEF Recorded
<1>4. m.size \in Nat /\ m.close \in BOOLEAN
  <2>1. CASE m \in [size : Sizes, close : {FALSE}]
    BY <2>1, ConstantTypes
  <2>2. CASE m = [size |-> 0, close |-> TRUE]
    BY <2>2
  <2> QED BY <2>1, <2>2 DEF Payload
<1>5. f \in Frames /\ f.id = id
  BY <1>2, <1>3, <1>4 DEF Frames
<1> HIDE DEF f
<1>6. h \in Hands /\ h.at = "emit" /\ h.frame = f
  BY <1>5 DEF Hands
<1> HIDE DEF h, id
<1>7. hand \in [Socket -> [Directions -> Hands]]
  BY DEF SocketTypes
<1>8. /\ hand' \in [Socket -> [Directions -> Hands]]
      /\ \A t \in Socket, e \in Directions : hand'[t][e] = IF t = s /\ e = d THEN h ELSE hand[t][e]
  BY <1>1, <1>6, <1>7, HandType
<1>9. numbered' \in [Socket -> Nat]
  BY <1>1, <1>2 DEF SocketTypes
<1>10. SocketTypes'
  BY <1>1, <1>8, <1>9 DEF SocketTypes, pageVars
<1>11. \A t \in Socket, e \in Directions : hand'[t][e].at # "idle" => hand'[t][e].frame.id \in DOMAIN sockets'
  BY <1>1, <1>2, <1>5, <1>6, <1>8 DEF FlowsFirst
<1>12. FlowsFirst'
  BY <1>1, <1>11 DEF FlowsFirst, Known, pageVars, InQueue
<1>13. Balanced'
  <2> SUFFICES ASSUME NEW t \in Socket \ evicted'
               PROVE  (numbered[t] = InHand(t) + InQueue(t, stream) + InQueue(t, taken)
                                     + InQueue(t, page) + Shown(t) + lost[t])'
    BY DEF Balanced
  <2>1. t \in Socket /\ t \notin evicted
    BY <1>1 DEF pageVars
  <2>2. numbered[t] = InHand(t) + InQueue(t, stream) + InQueue(t, taken) + InQueue(t, page)
                      + Shown(t) + lost[t]
    BY <2>1 DEF Balanced
  <2>3. /\ InQueue(t, stream)' = InQueue(t, stream) /\ InQueue(t, taken)' = InQueue(t, taken)
        /\ InQueue(t, page)' = InQueue(t, page) /\ Shown(t)' = Shown(t) /\ lost'[t] = lost[t]
    BY <1>1 DEF pageVars, InQueue, Shown
  <2>4. numbered'[t] = numbered[t] + IF id = t THEN 1 ELSE 0
    BY <1>1, <1>2, <2>1 DEF SocketTypes
  <2>5. InHand(t)' = InHand(t) + IF id = t THEN 1 ELSE 0
    <3>1. ~Emits(hand[s][d], t) /\ (Emits(h, t) <=> id = t) /\ InHand(t) \in Nat
      BY <1>1, <1>5, <1>6, InHandFacts DEF Emits, AtRest
    <3>2. InHand(t)' = InHand(t) - (IF Emits(hand[s][d], t) THEN 1 ELSE 0)
                                 + (IF Emits(h, t) THEN 1 ELSE 0)
      BY <1>1, <1>7, HandFacts
    <3> QED BY ONLY <3>1, <3>2
  <2>6. /\ InHand(t) \in Nat /\ InQueue(t, stream) \in Nat /\ InQueue(t, taken) \in Nat
        /\ InQueue(t, page) \in Nat /\ Shown(t) \in Nat /\ lost[t] \in Nat
    BY <2>1, QueueFacts DEF InQueue
  <2> QED BY ONLY <2>2, <2>3, <2>4, <2>5, <2>6
<1>14. FramesBounded'
  BY <1>1 DEF FramesBounded, pageVars
<1> QED BY <1>10, <1>12, <1>13, <1>14

LEMMA EmitFrameInv ==
  ASSUME SocketsInv, NEW s \in Socket, NEW d \in Directions, EmitFrame(s, d)
  PROVE  SocketsInv'
<1> USE DEF SocketsInv
<1> DEFINE m == hand[s][d].frame
           h == IF m.close THEN [hand[s][d] EXCEPT !.at = "finish"] ELSE AtRest
           q == [stream EXCEPT !.ws = Append(@, m)]
<1>1. /\ hand[s][d].at = "emit"
      /\ stream' = Trim(q, MaxFrames, QueueBytes)
      /\ hand' = [hand EXCEPT ![s][d] = h]
      /\ UNCHANGED <<sockets, routes, numbered, taken, pageVars>>
  <2>1. hand' = [hand EXCEPT ![s][d] = IF m.close THEN [@ EXCEPT !.at = "finish"] ELSE AtRest]
    BY DEF EmitFrame
  <2>2. hand' = [hand EXCEPT ![s][d] = h]
    BY <2>1 DEF SocketTypes
  <2> QED BY <2>2 DEF EmitFrame
<1>2. /\ hand[s][d] \in [at : {"emit", "finish", "retire"}, frame : Frames]
      /\ m \in Frames /\ m.id \in Socket /\ m.id \in DOMAIN sockets
  BY <1>1, HandOfSocket
<1>3. h \in Hands /\ h.at # "emit" /\ (h.at # "idle" => h.frame.id \in DOMAIN sockets)
  BY <1>2 DEF Hands, AtRest
<1> HIDE DEF h
<1>4. /\ hand' \in [Socket -> [Directions -> Hands]]
      /\ \A t \in Socket, e \in Directions : hand'[t][e] = IF t = s /\ e = d THEN h ELSE hand[t][e]
  BY <1>1, <1>3, HandType DEF SocketTypes
<1>5. stream \in Batches /\ stream.ws \in Seq(Frames) /\ stream.dropped \in [Socket -> Nat]
  BY DEF SocketTypes, Batches
<1>6. /\ q \in Batches /\ q.flows = stream.flows /\ q.dropped = stream.dropped
      /\ q.ws = Append(stream.ws, m)
  <2>1. Append(stream.ws, m) \in Seq(Frames)
    BY ONLY <1>2, <1>5, AppendProperties
  <2> HIDE DEF m
  <2> QED BY <1>5, <2>1 DEF Batches
<1> HIDE DEF q
<1>7. /\ stream' \in Batches /\ stream'.flows = stream.flows
      /\ \A t \in Socket : InQueue(t, stream') = InQueue(t, q)
      /\ Len(stream'.ws) > 1 => Bytes(stream'.ws) <= QueueBytes
  <2> DEFINE r == Trim(q, MaxFrames, QueueBytes)
  <2>1. /\ r \in Batches /\ r.flows = q.flows
        /\ \A t \in Socket : InQueue(t, r) = InQueue(t, q)
        /\ Len(r.ws) > 1 => Bytes(r.ws) <= QueueBytes
    BY ONLY <1>6, TrimFacts, ConstantTypes
  <2>2. stream' = r
    BY <1>1
  <2> HIDE DEF r
  <2> QED BY ONLY <1>6, <2>1, <2>2
<1>8. \A t \in Socket : InQueue(t, stream') = InQueue(t, stream) + IF m.id = t THEN 1 ELSE 0
  <2> SUFFICES ASSUME NEW t \in Socket
               PROVE  InQueue(t, stream') = InQueue(t, stream) + IF m.id = t THEN 1 ELSE 0
    OBVIOUS
  <2>1. Of(t, q.ws) = Of(t, stream.ws) + IF m.id = t THEN 1 ELSE 0
    BY ONLY <1>2, <1>5, <1>6, OfOneMore
  <2>2. Of(t, stream.ws) \in Nat /\ stream.dropped[t] \in Nat
    BY <1>5, OfFlowType
  <2>3. InQueue(t, q) = Of(t, q.ws) + stream.dropped[t]
    BY <1>6 DEF InQueue
  <2>4. InQueue(t, stream) = Of(t, stream.ws) + stream.dropped[t]
    BY DEF InQueue
  <2>5. InQueue(t, stream') = InQueue(t, q)
    BY <1>7
  <2> QED BY ONLY <2>1, <2>2, <2>3, <2>4, <2>5
<1>9. SocketTypes'
  BY <1>1, <1>4, <1>7 DEF SocketTypes, pageVars
<1>10. FlowsFirst'
  <2>1. \A t \in Socket, e \in Directions : hand'[t][e].at # "idle" => hand'[t][e].frame.id \in DOMAIN sockets'
    BY <1>1, <1>3, <1>4 DEF FlowsFirst
  <2>2. \A t \in Socket : InQueue(t, stream)' # 0 => t \in DOMAIN sockets
    <3>1. \A t \in Socket : InQueue(t, stream)' = InQueue(t, stream')
      BY DEF InQueue
    <3> QED BY <1>2, <1>8, <3>1 DEF FlowsFirst
  <2>3. \A t \in Socket : InQueue(t, page)' = InQueue(t, page) /\ InQueue(t, taken)' = InQueue(t, taken)
    BY <1>1 DEF InQueue, pageVars
  <2> QED BY <1>1, <1>7, <2>1, <2>2, <2>3 DEF FlowsFirst, Known, pageVars
<1>11. Balanced'
  <2> SUFFICES ASSUME NEW t \in Socket \ evicted'
               PROVE  (numbered[t] = InHand(t) + InQueue(t, stream) + InQueue(t, taken)
                                     + InQueue(t, page) + Shown(t) + lost[t])'
    BY DEF Balanced
  <2>1. t \in Socket /\ t \notin evicted
    BY <1>1 DEF pageVars
  <2>2. numbered[t] = InHand(t) + InQueue(t, stream) + InQueue(t, taken) + InQueue(t, page)
                      + Shown(t) + lost[t]
    BY <2>1 DEF Balanced
  <2>3. /\ numbered'[t] = numbered[t] /\ InQueue(t, taken)' = InQueue(t, taken)
        /\ InQueue(t, page)' = InQueue(t, page) /\ Shown(t)' = Shown(t) /\ lost'[t] = lost[t]
    BY <1>1 DEF pageVars, InQueue, Shown
  <2>4. InQueue(t, stream)' = InQueue(t, stream) + IF m.id = t THEN 1 ELSE 0
    <3>1. InQueue(t, stream)' = InQueue(t, stream')
      BY DEF InQueue
    <3> QED BY <1>8, <2>1, <3>1
  <2>5. InHand(t)' = InHand(t) - IF m.id = t THEN 1 ELSE 0
    <3>1. ~Emits(h, t) /\ (Emits(hand[s][d], t) <=> m.id = t) /\ InHand(t) \in Nat
      BY <1>1, <1>3, InHandFacts DEF Emits
    <3>2. InHand(t)' = InHand(t) - (IF Emits(hand[s][d], t) THEN 1 ELSE 0)
                                 + (IF Emits(h, t) THEN 1 ELSE 0)
      BY <1>1, HandFacts DEF SocketTypes
    <3> HIDE DEF m
    <3> QED BY ONLY <3>1, <3>2
  <2>6. /\ InHand(t) \in Nat /\ InQueue(t, stream) \in Nat /\ InQueue(t, taken) \in Nat
        /\ InQueue(t, page) \in Nat /\ Shown(t) \in Nat /\ lost[t] \in Nat
    BY <2>1, QueueFacts DEF InQueue
  <2> HIDE DEF m
  <2> QED BY ONLY <2>2, <2>3, <2>4, <2>5, <2>6
<1>12. FramesBounded'
  BY <1>1, <1>7 DEF FramesBounded, pageVars
<1> QED BY <1>9, <1>10, <1>11, <1>12

(* What is left of a queue is not larger than the queue was. *)
LEMMA RestBytes ==
  ASSUME NEW ws \in Seq(Frames), NEW k \in 0..Len(ws)
  PROVE  Bytes(From(ws, k)) <= Bytes(ws)
<1> DEFINE us == From(ws, k)
           N == Len(us)
           v == [n \in DOMAIN ws |-> ws[n].size]
           w == [n \in DOMAIN us |-> us[n].size]
<1>1. /\ us \in Seq(Frames) /\ N = Len(ws) - k /\ N \in Nat /\ Len(ws) \in Nat /\ k \in Nat
      /\ \A n \in 1..N : us[n] = ws[k + n] /\ k + n \in 1..Len(ws)
  <2>1. us \in Seq(Frames) /\ N = Len(ws) - k
    BY CutFacts
  <2>2. \A n \in 1..(Len(ws) - k) : us[n] = ws[k + n] /\ k + n \in 1..Len(ws)
    BY DEF From
  <2> QED BY <2>1, <2>2
<1>2. DOMAIN ws = 1..Len(ws) /\ DOMAIN us = 1..N
  BY <1>1
<1> HIDE DEF us, N
<1>3. \A n \in 1..Len(ws) : v[n] = ws[n].size /\ v[n] \in Nat
  <2>1. \A n \in 1..Len(ws) : ws[n] \in Frames
    OBVIOUS
  <2> QED BY <1>2, <2>1 DEF Frames
<1>4. \A n \in 1..N : w[n] = v[k + n] /\ v[k + n] \in Nat
  <2>1. \A n \in 1..N : w[n] = us[n].size
    BY <1>2
  <2> HIDE DEF v, w
  <2> QED BY <1>1, <1>3, <2>1
<1>5. v \in [1..Len(ws) -> Nat] /\ Len(v) = Len(ws) /\ Len(w) = N
  BY <1>1, <1>2, <1>3
<1> HIDE DEF v, w
<1>6. PICK a : Summing(a, v, Len(ws)) /\ Total(v) = a[Len(ws)]
  BY <1>1, <1>5, TotalFacts
<1>7. PICK b : Summing(b, w, N) /\ Total(w) = b[N]
  BY <1>1, <1>5, TotalFacts
<1>8. \A n \in 0..Len(ws) : a[n] \in Nat
  <2>1. \A n \in 1..Len(ws) : v[n] <= v[n]
    BY <1>3
  <2> QED BY ONLY <1>1, <1>5, <1>6, <2>1, SumsInOrder
<1> DEFINE S == {n \in 0..N : ~ (b[n] \in Nat /\ b[n] <= a[k + n])}
<1>9. 0 \notin S
  <2>1. b[0] = 0
    BY <1>1, <1>7 DEF Summing
  <2>2. a[k + 0] \in Nat
    BY <1>1, <1>8
  <2> QED BY <2>1, <2>2
<1>10. ASSUME S # {} PROVE FALSE
  <2>1. PICK n \in 1..N : n \in S /\ n - 1 \in 0..N /\ n - 1 \notin S
    <3>1. S \in SUBSET (0..N)
      OBVIOUS
    <3> HIDE DEF S
    <3> QED BY <1>1, <1>9, <1>10, <3>1, FirstWrong
  <2>2. b[n] = b[n - 1] + w[n]
    <3>1. n \in 0..N /\ n # 0
      BY <1>1
    <3> QED BY <1>7, <3>1 DEF Summing
  <2>3. a[k + n] = a[k + (n - 1)] + v[k + n]
    <3>1. k + n \in 0..Len(ws) /\ k + n # 0 /\ (k + n) - 1 = k + (n - 1)
      BY <1>1
    <3> QED BY <1>6, <3>1 DEF Summing
  <2>4. w[n] = v[k + n] /\ w[n] \in Nat
    BY <1>4
  <2>5. b[n - 1] \in Nat /\ b[n - 1] <= a[k + (n - 1)]
    BY <2>1
  <2>6. a[k + (n - 1)] \in Nat
    BY <1>1, <1>8
  <2>7. ~ (b[n] \in Nat /\ b[n] <= a[k + n])
    BY <2>1
  <2> QED BY ONLY <2>2, <2>3, <2>4, <2>5, <2>6, <2>7
<1>11. b[N] <= a[k + N] /\ k + N = Len(ws)
  BY <1>1, <1>10
<1>12. Bytes(us) = Total(w) /\ Bytes(ws) = Total(v)
  BY DEF Bytes, v, w
<1> QED BY ONLY <1>6, <1>7, <1>11, <1>12 DEF us

LEMMA FlushInv == SocketsInv /\ Flush => SocketsInv'
<1> SUFFICES ASSUME SocketsInv, Flush PROVE SocketsInv'
  OBVIOUS
<1> USE DEF SocketsInv
<1> DEFINE n == TickFrames
           ws == stream.ws
           go == First(ws, n)
           stay == From(ws, n)
<1>1. /\ taken = NotTaken
      /\ taken' = [flows |-> stream.flows, ws |-> go, dropped |-> stream.dropped, on |-> TRUE]
      /\ stream' = [EmptyBatch EXCEPT !.ws = stay]
      /\ UNCHANGED <<engineVars, pageVars>>
  BY DEF Flush, FlowsFirst
<1>2. ws \in Seq(Frames) /\ stream.dropped \in [Socket -> Nat] /\ stream.flows \in Seq(Snapshots) /\ n \in 0..Len(ws)
  BY TickFacts DEF SocketTypes, Batches
<1> HIDE DEF n, ws
<1>3. go \in Seq(Frames) /\ stay \in Seq(Frames) /\ Len(stay) = Len(ws) - n
  BY ONLY <1>2, CutFacts
<1>4. /\ taken'.flows = stream.flows /\ taken'.ws = go /\ taken'.dropped = stream.dropped /\ taken'.on
      /\ stream'.flows = <<>> /\ stream'.ws = stay /\ stream'.dropped = NoCounts
      /\ taken.flows = <<>>
  BY <1>1 DEF EmptyBatch, NotTaken
<1>5. stream' \in Batches /\ taken' \in Takings
  <2>1. NoCounts \in [Socket -> Nat] /\ <<>> \in Seq(Snapshots)
    BY DEF NoCounts
  <2> HIDE DEF go, stay
  <2> QED BY <1>1, <1>2, <1>3, <2>1 DEF Batches, Takings, EmptyBatch
<1>6. SocketTypes'
  BY <1>1, <1>5 DEF SocketTypes, engineVars, pageVars
<1>7. ASSUME NEW t \in Socket
      PROVE  /\ InQueue(t, stream)' + InQueue(t, taken)' = InQueue(t, stream) + InQueue(t, taken)
             /\ InQueue(t, stream)' \in Nat /\ InQueue(t, taken)' \in Nat
             /\ InQueue(t, stream) \in Nat /\ InQueue(t, taken) = 0
  <2>1. Of(t, go) + Of(t, stay) = Of(t, ws)
    BY ONLY <1>2, OfCut
  <2>2. Of(t, go) \in Nat /\ Of(t, stay) \in Nat /\ Of(t, ws) \in Nat /\ stream.dropped[t] \in Nat
    BY <1>2, <1>3, OfFlowType
  <2>3. InQueue(t, taken) = 0
    BY <1>1, OfNone DEF InQueue, NotTaken, NoCounts
  <2>4. NoCounts[t] = 0
    BY DEF NoCounts
  <2>5. /\ InQueue(t, stream)' = Of(t, stay) + 0 /\ InQueue(t, taken)' = Of(t, go) + stream.dropped[t]
        /\ InQueue(t, stream) = Of(t, ws) + stream.dropped[t]
    BY <1>4, <2>4 DEF InQueue, ws
  <2> QED BY ONLY <2>1, <2>2, <2>3, <2>5
<1>8. FlowsFirst'
  <2>1. IdsOf(<<>>) = {}
    BY DEF IdsOf
  <2>2. \A t \in Socket : InQueue(t, stream)' # 0 \/ InQueue(t, taken)' # 0 => InQueue(t, stream) # 0
    BY <1>7
  <2>3. \A t \in Socket : InQueue(t, page)' = InQueue(t, page)
    BY <1>1 DEF InQueue, pageVars
  <2>4. Known' = Known
    BY <1>1 DEF Known, pageVars
  <2>5. DOMAIN sockets \subseteq Known \union IdsOf(taken'.flows)
    BY <1>4, <2>1 DEF FlowsFirst
  <2>6. hand' = hand /\ sockets' = sockets
    BY <1>1 DEF engineVars
  <2> QED BY <1>4, <2>2, <2>3, <2>4, <2>5, <2>6 DEF FlowsFirst
<1>9. Balanced'
  <2> SUFFICES ASSUME NEW t \in Socket \ evicted'
               PROVE  (numbered[t] = InHand(t) + InQueue(t, stream) + InQueue(t, taken)
                                     + InQueue(t, page) + Shown(t) + lost[t])'
    BY DEF Balanced
  <2>1. t \in Socket /\ t \notin evicted
    BY <1>1 DEF pageVars
  <2>2. numbered[t] = InHand(t) + InQueue(t, stream) + InQueue(t, taken) + InQueue(t, page)
                      + Shown(t) + lost[t]
    BY <2>1 DEF Balanced
  <2>3. /\ numbered'[t] = numbered[t] /\ InHand(t)' = InHand(t)
        /\ InQueue(t, page)' = InQueue(t, page) /\ Shown(t)' = Shown(t) /\ lost'[t] = lost[t]
    BY <1>1 DEF pageVars, engineVars, InQueue, Shown, InHand
  <2>4. /\ InHand(t) \in Nat /\ InQueue(t, page) \in Nat /\ Shown(t) \in Nat /\ lost[t] \in Nat
    BY <2>1, QueueFacts DEF InQueue
  <2>5. /\ InQueue(t, stream)' + InQueue(t, taken)' = InQueue(t, stream) + InQueue(t, taken)
        /\ InQueue(t, stream)' \in Nat /\ InQueue(t, taken)' \in Nat
        /\ InQueue(t, stream) \in Nat /\ InQueue(t, taken) = 0
    BY <1>7, <2>1
  <2> QED BY ONLY <2>2, <2>3, <2>4, <2>5
<1>10. FramesBounded'
  <2>1. Len(stay) > 1 => Bytes(stay) <= QueueBytes
    <3>1. Bytes(stay) <= Bytes(ws)
      BY ONLY <1>2, RestBytes
    <3>2. Bytes(stay) \in Nat /\ Bytes(ws) \in Nat /\ QueueBytes \in Nat
      BY ONLY <1>2, <1>3, BytesType, ConstantTypes
    <3>3. Len(stay) > 1 => Len(ws) > 1
      BY <1>2, <1>3
    <3>4. Len(ws) > 1 => Bytes(ws) <= QueueBytes
      BY DEF FramesBounded, ws
    <3> QED BY ONLY <3>1, <3>2, <3>3, <3>4
  <2> QED BY <1>1, <1>4, <2>1 DEF FramesBounded, pageVars
<1> QED BY <1>6, <1>8, <1>9, <1>10

LEMMA PushFacts ==
  ASSUME SocketTypes, NEW msg \in Batches, Push(msg), UNCHANGED <<list, sockets>>
  PROVE  /\ page' \in Batches
         /\ \A t \in Socket : InQueue(t, page') = InQueue(t, page) + InQueue(t, msg)
         /\ Known \union IdsOf(msg.flows) \subseteq Known' /\ evicted \subseteq evicted'
         /\ Len(page'.ws) > 1 => Len(page'.ws) <= PageFrames /\ Bytes(page'.ws) <= PageBytes
<1> DEFINE flows == Merged(page.flows, msg.flows)
           over  == Max({0, Len(flows) - ListCap})
           q     == [page EXCEPT !.ws = @ \o msg.ws, !.dropped = AddCounts(@, msg.dropped)]
           r     == Trim(q, PageFrames, PageBytes)
<1>1. /\ page' = [r EXCEPT !.flows = From(flows, over)]
      /\ evicted' = evicted \union (IdsOf(First(flows, over)) \ IdsOf(list))
  BY DEF Push
<1>2. /\ page \in Batches /\ page.flows \in Seq(Snapshots) /\ page.ws \in Seq(Frames)
      /\ page.dropped \in [Socket -> Nat]
      /\ msg.flows \in Seq(Snapshots) /\ msg.ws \in Seq(Frames) /\ msg.dropped \in [Socket -> Nat]
  BY DEF SocketTypes, Batches
<1>3. flows \in Seq(Snapshots) /\ IdsOf(page.flows) \union IdsOf(msg.flows) \subseteq IdsOf(flows)
  BY ONLY <1>2, MergedFacts
<1> HIDE DEF flows
<1>4. over \in 0..Len(flows)
  <2>1. Len(flows) \in Nat /\ ListCap \in Nat /\ Len(flows) - ListCap \in Int
    BY <1>3, ConstantTypes
  <2>2. over = IF Len(flows) - ListCap > 0 THEN Len(flows) - ListCap ELSE 0
    BY <2>1, MaxOfTwo
  <2> QED BY <2>1, <2>2
<1> HIDE DEF over
<1>5. /\ From(flows, over) \in Seq(Snapshots)
      /\ IdsOf(flows) = IdsOf(First(flows, over)) \union IdsOf(From(flows, over))
  BY ONLY <1>3, <1>4, CutFacts
<1>6. /\ q \in Batches /\ q.ws = page.ws \o msg.ws
      /\ \A t \in Socket : q.dropped[t] = page.dropped[t] + msg.dropped[t]
  <2>1. page.ws \o msg.ws \in Seq(Frames)
    BY ONLY <1>2, ConcatProperties
  <2>2. /\ AddCounts(page.dropped, msg.dropped) \in [Socket -> Nat]
        /\ \A t \in Socket : AddCounts(page.dropped, msg.dropped)[t] = page.dropped[t] + msg.dropped[t]
    BY <1>2 DEF AddCounts
  <2> HIDE DEF Frames, Snapshots
  <2> QED BY <1>2, <2>1, <2>2 DEF Batches
<1>7. \A t \in Socket : InQueue(t, q) = InQueue(t, page) + InQueue(t, msg)
  <2> SUFFICES ASSUME NEW t \in Socket PROVE InQueue(t, q) = InQueue(t, page) + InQueue(t, msg)
    OBVIOUS
  <2>1. Of(t, q.ws) = Of(t, page.ws) + Of(t, msg.ws)
    <3> DEFINE a == page.ws
               b == msg.ws
    <3>1. a \in Seq(Frames) /\ b \in Seq(Frames) /\ q.ws = a \o b
      BY <1>2, <1>6
    <3> HIDE DEF a, b, q
    <3>2. Of(t, a \o b) = Of(t, a) + Of(t, b)
      BY ONLY <3>1, OfConcat
    <3> QED BY ONLY <3>1, <3>2 DEF a, b
  <2>2. Of(t, page.ws) \in Nat /\ Of(t, msg.ws) \in Nat /\ page.dropped[t] \in Nat /\ msg.dropped[t] \in Nat
    BY <1>2, OfFlowType
  <2>3. q.dropped[t] = page.dropped[t] + msg.dropped[t]
    BY <1>6
  <2> HIDE DEF q
  <2> QED BY ONLY <2>1, <2>2, <2>3 DEF InQueue
<1> HIDE DEF q
<1>8. /\ r \in Batches
      /\ \A t \in Socket : InQueue(t, r) = InQueue(t, q)
      /\ Len(r.ws) > 1 => Len(r.ws) <= PageFrames /\ Bytes(r.ws) <= PageBytes
  BY ONLY <1>6, TrimFacts, ConstantTypes
<1> HIDE DEF r
<1>9. /\ page' \in Batches /\ page'.ws = r.ws /\ page'.dropped = r.dropped
      /\ page'.flows = From(flows, over)
  BY <1>1, <1>5, <1>8 DEF Batches
<1>10. \A t \in Socket : InQueue(t, page') = InQueue(t, page) + InQueue(t, msg)
  <2>1. \A t \in Socket : InQueue(t, page') = InQueue(t, r)
    BY <1>9 DEF InQueue
  <2> QED BY <1>7, <1>8, <2>1
<1>11. Known \union IdsOf(msg.flows) \subseteq Known'
  BY <1>1, <1>3, <1>5, <1>9 DEF Known
<1> QED BY <1>1, <1>8, <1>9, <1>10, <1>11

(* A message is the first of what was taken, and its frames are in the     *)
(* last one.                                                               *)
LEMMA MessageFacts ==
  ASSUME SocketsInv, Send
  PROVE  /\ Message \in Batches /\ taken' \in Takings /\ (~taken'.on => taken' = NotTaken)
         /\ IdsOf(taken.flows) = IdsOf(Message.flows) \union IdsOf(taken'.flows)
         /\ \A t \in Socket : /\ InQueue(t, Message) + InQueue(t, taken') = InQueue(t, taken)
                              /\ InQueue(t, Message) \in Nat /\ InQueue(t, taken') \in Nat
                              /\ InQueue(t, Message) = 0 \/ IdsOf(taken'.flows) = {}
<1> USE DEF SocketsInv
<1> DEFINE msg == Message
           n == MaxFlowsPerMessage
<1>1. /\ taken \in Takings /\ taken.flows \in Seq(Snapshots) /\ taken.ws \in Seq(Frames)
      /\ taken.dropped \in [Socket -> Nat] /\ Len(taken.flows) \in Nat /\ Len(taken.ws) \in Nat
      /\ n \in Nat
  BY ConstantTypes DEF SocketTypes, Takings
<1>2. taken' = [flows   |-> From(taken.flows, Len(msg.flows)),
                ws      |-> From(taken.ws, Len(msg.ws)),
                dropped |-> [s \in Socket |-> taken.dropped[s] - msg.dropped[s]],
                on      |-> Len(taken.flows) > n]
  BY <1>1 DEF Send, Takings
<1>3. \A t \in Socket : Of(t, taken.ws) \in Nat /\ taken.dropped[t] \in Nat
  BY <1>1, OfFlowType
<1>4. NoCounts \in [Socket -> Nat] /\ \A t \in Socket : NoCounts[t] = 0
  BY DEF NoCounts
<1>5. CASE Len(taken.flows) > n
  <2>1. msg = [EmptyBatch EXCEPT !.flows = First(taken.flows, n)] /\ n \in 0..Len(taken.flows)
    BY <1>1, <1>5 DEF Message
  <2>2. msg.flows = First(taken.flows, n) /\ msg.ws = <<>> /\ msg.dropped = NoCounts
    BY <2>1 DEF EmptyBatch
  <2>3. /\ First(taken.flows, n) \in Seq(Snapshots) /\ From(taken.flows, n) \in Seq(Snapshots)
        /\ Len(First(taken.flows, n)) = n
        /\ IdsOf(taken.flows) = IdsOf(First(taken.flows, n)) \union IdsOf(From(taken.flows, n))
    <3> DEFINE fs == taken.flows
    <3>1. fs \in Seq(Snapshots) /\ n \in 0..Len(fs)
      BY <1>1, <2>1
    <3> HIDE DEF fs, n
    <3>2. /\ First(fs, n) \in Seq(Snapshots) /\ From(fs, n) \in Seq(Snapshots)
          /\ Len(First(fs, n)) = n
          /\ IdsOf(fs) = IdsOf(First(fs, n)) \union IdsOf(From(fs, n))
      BY ONLY <3>1, CutFacts
    <3> QED BY ONLY <3>2 DEF fs
  <2>4. From(taken.ws, 0) = taken.ws
    BY <1>1 DEF From
  <2>5. [s \in Socket |-> taken.dropped[s] - NoCounts[s]] = taken.dropped
    BY <1>1, <1>4
  <2>6. /\ taken'.flows = From(taken.flows, n) /\ taken'.ws = taken.ws
        /\ taken'.dropped = taken.dropped /\ taken'.on = TRUE
        /\ taken' \in Takings
    <3>1. Len(msg.flows) = n /\ Len(msg.ws) = 0
      BY <2>2, <2>3
    <3>2. taken' = [flows |-> From(taken.flows, n), ws |-> taken.ws, dropped |-> taken.dropped, on |-> TRUE]
      BY <1>2, <1>5, <2>2, <2>4, <2>5, <3>1
    <3> QED BY <1>1, <2>3, <3>2 DEF Takings
  <2>7. msg \in Batches
    <3>1. msg = [flows |-> First(taken.flows, n), ws |-> <<>>, dropped |-> NoCounts]
      BY <2>1 DEF EmptyBatch
    <3>2. <<>> \in Seq(Frames)
      OBVIOUS
    <3> HIDE DEF msg, Frames
    <3> QED BY ONLY <1>4, <2>3, <3>1, <3>2 DEF Batches
  <2>8. \A t \in Socket : InQueue(t, msg) = 0 /\ InQueue(t, taken') = InQueue(t, taken) /\ InQueue(t, taken) \in Nat
    BY <1>3, <1>4, <2>2, <2>6, OfNone DEF InQueue
  <2> HIDE DEF msg
  <2>9. IdsOf(taken.flows) = IdsOf(msg.flows) \union IdsOf(taken'.flows)
    BY ONLY <2>2, <2>3, <2>6
  <2> QED BY ONLY <2>6, <2>7, <2>8, <2>9 DEF msg
<1>6. CASE ~ (Len(taken.flows) > n)
  <2>1. msg = [flows |-> taken.flows, ws |-> taken.ws, dropped |-> taken.dropped]
    BY <1>6 DEF Message
  <2>2. msg \in Batches /\ msg.flows = taken.flows /\ msg.ws = taken.ws /\ msg.dropped = taken.dropped
    BY <1>1, <2>1 DEF Batches
  <2> HIDE DEF msg
  <2>3. From(taken.flows, Len(taken.flows)) = <<>> /\ From(taken.ws, Len(taken.ws)) = <<>>
    BY <1>1 DEF From
  <2>4. [s \in Socket |-> taken.dropped[s] - taken.dropped[s]] = NoCounts
    BY <1>1 DEF NoCounts
  <2>5. taken' = NotTaken
    <3>1. (Len(taken.flows) > n) = FALSE
      BY <1>6
    <3>2. /\ From(taken.flows, Len(msg.flows)) = <<>> /\ From(taken.ws, Len(msg.ws)) = <<>>
          /\ [s \in Socket |-> taken.dropped[s] - msg.dropped[s]] = NoCounts
      BY ONLY <2>2, <2>3, <2>4
    <3> QED BY ONLY <1>2, <3>1, <3>2 DEF NotTaken
  <2>6. taken' \in Takings /\ IdsOf(taken'.flows) = {}
    BY <1>4, <2>5 DEF NotTaken, Takings, IdsOf
  <2>7. \A t \in Socket : InQueue(t, taken') = 0
    BY <2>5, OfNone DEF InQueue, NotTaken, NoCounts
  <2>8. \A t \in Socket : InQueue(t, msg) = InQueue(t, taken) /\ InQueue(t, taken) \in Nat
    BY <1>3, <2>2 DEF InQueue
  <2> QED BY <2>2, <2>5, <2>6, <2>7, <2>8 DEF msg
<1> QED BY <1>5, <1>6

LEMMA SendInv == SocketsInv /\ Send => SocketsInv'
<1> SUFFICES ASSUME SocketsInv, Send PROVE SocketsInv'
  OBVIOUS
<1> USE DEF SocketsInv
<1> DEFINE msg == Message
<1>1. Push(msg) /\ UNCHANGED <<engineVars, stream, list, shown, lost>>
  BY DEF Send
<1>2. /\ msg \in Batches /\ taken' \in Takings /\ (~taken'.on => taken' = NotTaken)
      /\ IdsOf(taken.flows) = IdsOf(msg.flows) \union IdsOf(taken'.flows)
      /\ \A t \in Socket : /\ InQueue(t, msg) + InQueue(t, taken') = InQueue(t, taken)
                           /\ InQueue(t, msg) \in Nat /\ InQueue(t, taken') \in Nat
                           /\ InQueue(t, msg) = 0 \/ IdsOf(taken'.flows) = {}
  BY MessageFacts
<1> HIDE DEF msg
<1>3. /\ page' \in Batches
      /\ \A t \in Socket : InQueue(t, page') = InQueue(t, page) + InQueue(t, msg)
      /\ Known \union IdsOf(msg.flows) \subseteq Known' /\ evicted \subseteq evicted'
      /\ Len(page'.ws) > 1 => Len(page'.ws) <= PageFrames /\ Bytes(page'.ws) <= PageBytes
  BY <1>1, <1>2, PushFacts DEF engineVars
<1>4. SocketTypes'
  BY <1>1, <1>2, <1>3 DEF SocketTypes, engineVars
<1>5. ASSUME NEW t \in Socket
      PROVE  /\ InQueue(t, page)' = InQueue(t, page) + InQueue(t, msg)
             /\ InQueue(t, msg) + InQueue(t, taken)' = InQueue(t, taken)
             /\ InQueue(t, stream)' = InQueue(t, stream)
             /\ InQueue(t, msg) \in Nat /\ InQueue(t, taken)' \in Nat /\ InQueue(t, taken) \in Nat
             /\ InQueue(t, page) \in Nat /\ InQueue(t, stream) \in Nat
             /\ InQueue(t, msg) = 0 \/ IdsOf(taken'.flows) = {}
  <2>1. InQueue(t, page)' = InQueue(t, page') /\ InQueue(t, taken)' = InQueue(t, taken')
    BY DEF InQueue
  <2>2. InQueue(t, taken) \in Nat /\ InQueue(t, page) \in Nat /\ InQueue(t, stream) \in Nat
    BY QueueFacts DEF InQueue
  <2>3. InQueue(t, stream)' = InQueue(t, stream)
    BY <1>1 DEF InQueue
  <2> QED BY <1>2, <1>3, <2>1, <2>2, <2>3
<1>6. FlowsFirst'
  <2>1. \A t \in Socket : InQueue(t, page)' # 0 => t \in Known'
    <3> SUFFICES ASSUME NEW t \in Socket, InQueue(t, page)' # 0 PROVE t \in Known'
      OBVIOUS
    <3>1. CASE InQueue(t, msg) = 0
      <4>1. InQueue(t, page) # 0
        BY <1>5, <3>1
      <4> QED BY <1>3, <4>1 DEF FlowsFirst
    <3>2. CASE InQueue(t, msg) # 0
      <4>1. InQueue(t, taken) # 0 /\ IdsOf(taken.flows) = IdsOf(msg.flows)
        BY <1>2, <1>5, <3>2
      <4> QED BY <1>3, <4>1 DEF FlowsFirst
    <3> QED BY <3>1, <3>2
  <2>2. \A t \in Socket : InQueue(t, taken)' # 0 => t \in Known' \union IdsOf(taken'.flows)
    <3> SUFFICES ASSUME NEW t \in Socket, InQueue(t, taken)' # 0
                 PROVE  t \in Known' \union IdsOf(taken'.flows)
      OBVIOUS
    <3>1. InQueue(t, taken) # 0
      BY <1>5
    <3> QED BY <1>2, <1>3, <3>1 DEF FlowsFirst
  <2>3. DOMAIN sockets \subseteq Known' \union IdsOf(taken'.flows) \union IdsOf(stream.flows)
    BY <1>2, <1>3 DEF FlowsFirst
  <2>4. \A t \in Socket : InQueue(t, stream)' # 0 => t \in DOMAIN sockets
    BY <1>5 DEF FlowsFirst
  <2>5. hand' = hand /\ sockets' = sockets /\ stream' = stream
    BY <1>1 DEF engineVars
  <2> QED BY <1>2, <2>1, <2>2, <2>3, <2>4, <2>5 DEF FlowsFirst
<1>7. Balanced'
  <2> SUFFICES ASSUME NEW t \in Socket \ evicted'
               PROVE  (numbered[t] = InHand(t) + InQueue(t, stream) + InQueue(t, taken)
                                     + InQueue(t, page) + Shown(t) + lost[t])'
    BY DEF Balanced
  <2>1. t \in Socket /\ t \notin evicted
    BY <1>3
  <2>2. numbered[t] = InHand(t) + InQueue(t, stream) + InQueue(t, taken) + InQueue(t, page)
                      + Shown(t) + lost[t]
    BY <2>1 DEF Balanced
  <2>3. /\ numbered'[t] = numbered[t] /\ InHand(t)' = InHand(t)
        /\ Shown(t)' = Shown(t) /\ lost'[t] = lost[t]
    BY <1>1 DEF engineVars, Shown, InHand
  <2>4. /\ InHand(t) \in Nat /\ Shown(t) \in Nat /\ lost[t] \in Nat
    BY <2>1, QueueFacts
  <2>5. /\ InQueue(t, page)' = InQueue(t, page) + InQueue(t, msg)
        /\ InQueue(t, msg) + InQueue(t, taken)' = InQueue(t, taken)
        /\ InQueue(t, stream)' = InQueue(t, stream)
        /\ InQueue(t, msg) \in Nat /\ InQueue(t, taken)' \in Nat /\ InQueue(t, taken) \in Nat
        /\ InQueue(t, page) \in Nat /\ InQueue(t, stream) \in Nat
    BY <1>5, <2>1
  <2> QED BY ONLY <2>2, <2>3, <2>4, <2>5
<1>8. FramesBounded'
  BY <1>1, <1>3 DEF FramesBounded
<1> QED BY <1>4, <1>6, <1>7, <1>8

LEMMA PaintInv == SocketsInv /\ Paint => SocketsInv'
<1> SUFFICES ASSUME SocketsInv, Paint PROVE SocketsInv'
  OBVIOUS
<1> USE DEF SocketsInv
<1> DEFINE ids   == IdsOf(Listed)
           gone  == (IdsOf(list) \union IdsOf(page.flows)) \ Stayed
           had   == [s \in DOMAIN shown \ gone |-> shown[s]]
           added == Appended(had, page.ws, ids)
           kept  == IF added = had THEN had ELSE WithinBudget(Capped(added))
           cut   == [s \in Socket |-> IF s \in DOMAIN kept THEN Len(added[s]) - Len(kept[s]) ELSE 0]
           more  == [s \in Socket |-> IF s \in ids THEN page.dropped[s] + cut[s] ELSE 0]
<1>1. /\ list' = Listed /\ evicted' = evicted \union gone /\ shown' = kept
      /\ lost' = AddCounts([s \in Socket |-> IF s \in gone THEN 0 ELSE lost[s]], more)
      /\ page' = EmptyBatch /\ UNCHANGED <<engineVars, stream, taken>>
  BY DEF Paint, Gone
<1>2. page.ws \in Seq(Frames) /\ page.dropped \in [Socket -> Nat] /\ lost \in [Socket -> Nat]
  BY DEF SocketTypes, Batches
<1>3. IdsOf(list') = ids /\ Stayed \subseteq ids
  BY <1>1 DEF Stayed
<1>4. Panel(shown) /\ DOMAIN shown \subseteq IdsOf(list)
  BY DEF SocketTypes, Panel, FramesBounded
<1> HIDE DEF ids
<1>5. DOMAIN had = DOMAIN shown \ gone /\ \A s \in DOMAIN had : had[s] = shown[s]
  OBVIOUS
<1>6. Panel(had) /\ DOMAIN had \subseteq ids
  BY <1>3, <1>4, <1>5 DEF Panel
<1>7. PanelBytes(had) <= ShownBytes
  <2>1. PanelBytes(shown) <= ShownBytes
    BY DEF FramesBounded
  <2>2. /\ PanelBytes(had) \in Nat /\ PanelBytes(shown) \in Nat
        /\ PanelBytes(had) <= PanelBytes(shown)
    <3> HIDE DEF gone
    <3> QED BY <1>4, FewerBytes
  <2> QED BY ONLY <2>1, <2>2, ConstantTypes
<1> HIDE DEF had
<1>8. /\ Panel(added) /\ DOMAIN added = DOMAIN had \union (IdsOf(page.ws) \intersect ids)
      /\ Grows(added, had, page.ws)
  BY ONLY <1>2, <1>6, AppendedFacts
<1> HIDE DEF added
<1>9. /\ Panel(kept) /\ DOMAIN kept = DOMAIN added /\ PanelBytes(kept) <= ShownBytes
      /\ \A s \in DOMAIN added : Len(kept[s]) <= SocketFrames /\ Len(kept[s]) <= Len(added[s])
  <2>1. CASE added = had
    <3>1. \A s \in DOMAIN had : Len(had[s]) <= SocketFrames /\ Len(had[s]) <= Len(had[s])
      <4>1. \A s \in DOMAIN had : Len(had[s]) \in Nat
        BY <1>6 DEF Panel
      <4> QED BY <1>5, <4>1 DEF FramesBounded
    <3> QED BY <1>6, <1>7, <2>1, <3>1
  <2>2. CASE added # had
    <3> DEFINE c == Capped(added)
               k == WithinBudget(c)
    <3>1. /\ Panel(c) /\ DOMAIN c = DOMAIN added
          /\ \A s \in DOMAIN added : Len(c[s]) <= SocketFrames /\ Len(c[s]) <= Len(added[s])
      BY ONLY <1>8, CappedFacts
    <3> HIDE DEF c
    <3>2. /\ Panel(k) /\ DOMAIN k = DOMAIN c
          /\ \A s \in DOMAIN c : Len(k[s]) <= Len(c[s])
          /\ PanelBytes(k) <= ShownBytes
      BY ONLY <3>1, BudgetFacts
    <3>3. kept = k
      BY <2>2 DEF c
    <3> HIDE DEF k
    <3>4. \A s \in DOMAIN added : Len(k[s]) \in Nat /\ Len(c[s]) \in Nat /\ Len(added[s]) \in Nat
      BY ONLY <1>8, <3>1, <3>2 DEF Panel
    <3>5. \A s \in DOMAIN added : Len(k[s]) <= SocketFrames /\ Len(k[s]) <= Len(added[s])
      BY ONLY <3>1, <3>2, <3>4, ConstantTypes
    <3> HIDE DEF kept
    <3> QED BY ONLY <3>1, <3>2, <3>3, <3>5
  <2> QED BY <2>1, <2>2
<1> HIDE DEF kept
<1>10. \A s \in Socket : /\ cut[s] \in Nat
                         /\ s \in DOMAIN kept => cut[s] = Len(added[s]) - Len(kept[s])
                         /\ s \notin DOMAIN kept => cut[s] = 0
  <2>1. \A s \in DOMAIN kept : Len(added[s]) \in Nat /\ Len(kept[s]) \in Nat
    BY <1>8, <1>9 DEF Panel
  <2> QED BY <1>9, <2>1
<1> HIDE DEF cut
<1>11. \A s \in Socket : /\ s \in ids => more[s] = page.dropped[s] + cut[s]
                         /\ s \notin ids => more[s] = 0
                         /\ more[s] \in Nat
  <2>1. \A s \in Socket : page.dropped[s] \in Nat /\ cut[s] \in Nat
    BY <1>2, <1>10
  <2>2. \A s \in Socket : page.dropped[s] + cut[s] \in Nat
    BY ONLY <2>1
  <2> QED BY <2>2
<1> HIDE DEF more
<1>12. lost' \in [Socket -> Nat] /\ \A s \in Socket : s \notin gone => lost'[s] = lost[s] + more[s]
  BY <1>1, <1>2, <1>11 DEF AddCounts
<1>13. EmptyBatch \in Batches /\ \A s \in Socket : InQueue(s, EmptyBatch) = 0
  <2>1. <<>> \in Seq(Frames) /\ <<>> \in Seq(Snapshots) /\ NoCounts \in [Socket -> Nat]
    BY DEF NoCounts
  <2>2. EmptyBatch \in Batches
    BY <2>1 DEF EmptyBatch, Batches
  <2> QED BY <2>2, OfNone DEF EmptyBatch, NoCounts, InQueue
<1>14. SocketTypes'
  <2>1. \A s \in DOMAIN kept : s \in Socket /\ kept[s] \in Seq(Frames)
    BY <1>9 DEF Panel
  <2> QED BY <1>1, <1>12, <1>13, <2>1 DEF SocketTypes, engineVars
<1>15. Known \subseteq Known'
  <2>1. IdsOf(list) \union IdsOf(page.flows) \subseteq gone \union ids
    BY <1>3
  <2> QED BY <1>1, <1>3, <2>1 DEF Known
<1>16. \A s \in Socket : /\ InQueue(s, page)' = 0 /\ InQueue(s, taken)' = InQueue(s, taken)
                         /\ InQueue(s, stream)' = InQueue(s, stream)
  BY <1>1, <1>13 DEF InQueue
<1>17. FlowsFirst'
  <2>1. hand' = hand /\ sockets' = sockets /\ stream' = stream /\ taken' = taken
    BY <1>1 DEF engineVars
  <2> QED BY <1>15, <1>16, <2>1 DEF FlowsFirst
<1>18. Balanced'
  <2> SUFFICES ASSUME NEW t \in Socket \ evicted'
               PROVE  (numbered[t] = InHand(t) + InQueue(t, stream) + InQueue(t, taken)
                                     + InQueue(t, page) + Shown(t) + lost[t])'
    BY DEF Balanced
  <2>1. t \in Socket /\ t \notin evicted /\ t \notin gone
    BY <1>1
  <2>2. numbered[t] = InHand(t) + InQueue(t, stream) + InQueue(t, taken) + InQueue(t, page)
                      + Shown(t) + lost[t]
    BY <2>1 DEF Balanced
  <2>3. numbered'[t] = numbered[t] /\ InHand(t)' = InHand(t)
    BY <1>1 DEF engineVars, InHand
  <2>4. /\ InHand(t) \in Nat /\ Shown(t) \in Nat /\ lost[t] \in Nat /\ InQueue(t, stream) \in Nat
        /\ InQueue(t, taken) \in Nat /\ Of(t, page.ws) \in Nat /\ page.dropped[t] \in Nat
        /\ InQueue(t, page) = Of(t, page.ws) + page.dropped[t]
    BY <2>1, QueueFacts DEF InQueue
  <2>5. /\ InQueue(t, page)' = 0 /\ InQueue(t, taken)' = InQueue(t, taken)
        /\ InQueue(t, stream)' = InQueue(t, stream)
    BY <1>16, <2>1
  <2>6. lost'[t] = lost[t] + more[t]
    BY <1>12, <2>1
  <2>7. Shown(t)' = IF t \in DOMAIN kept THEN Len(kept[t]) ELSE 0
    BY <1>1 DEF Shown
  <2>8. Shown(t) = IF t \in DOMAIN had THEN Len(had[t]) ELSE 0
    BY <1>5, <2>1 DEF Shown
  <2>9. CASE t \in ids
    <3>1. more[t] = page.dropped[t] + cut[t] /\ cut[t] \in Nat
      BY <1>10, <1>11, <2>1, <2>9
    <3>2. CASE t \in DOMAIN kept
      <4>1. cut[t] = Len(added[t]) - Len(kept[t]) /\ Shown(t)' = Len(kept[t])
        BY <1>10, <2>1, <2>7, <3>2
      <4>2. Len(added[t]) = Shown(t) + Of(t, page.ws)
        BY <1>8, <1>9, <2>8, <3>2 DEF Grows
      <4>3. Len(kept[t]) \in Nat
        BY <1>9, <3>2 DEF Panel
      <4> DEFINE tt == more[t]
                 ct == cut[t]
                 dr == page.dropped[t]
                 la == Len(added[t])
                 lk == Len(kept[t])
                 sh == Shown(t)
                 fr == Of(t, page.ws)
      <4>4. tt = dr + ct /\ ct = la - lk /\ la = sh + fr /\ {dr, sh, fr, lk, ct} \subseteq Nat
        BY ONLY <2>4, <3>1, <4>1, <4>2, <4>3
      <4>5. Shown(t)' = lk /\ lost'[t] = lost[t] + tt /\ InQueue(t, page) = fr + dr
        BY ONLY <2>4, <2>6, <4>1
      <4> HIDE DEF tt, ct, dr, la, lk, sh, fr
      <4>6. tt + lk = dr + sh + fr /\ tt \in Nat
        BY ONLY <4>4
      <4>7. Shown(t) = sh
        BY DEF sh
      <4> QED BY ONLY <2>2, <2>3, <2>4, <2>5, <4>4, <4>5, <4>6, <4>7
    <3>3. CASE t \notin DOMAIN kept
      <4>1. cut[t] = 0 /\ Shown(t)' = 0 /\ Shown(t) = 0
        BY <1>8, <1>9, <1>10, <2>1, <2>7, <2>8, <3>3
      <4>2. Of(t, page.ws) = 0
        BY <1>2, <1>8, <1>9, <2>9, <3>3, OfAbsent
      <4> QED BY ONLY <2>2, <2>3, <2>4, <2>5, <2>6, <3>1, <4>1, <4>2
    <3> QED BY <3>2, <3>3
  <2>10. CASE t \notin ids
    <3>1. t \notin Known
      BY <1>3, <2>1, <2>10 DEF Known
    <3>2. InQueue(t, page) = 0
      BY <2>1, <3>1 DEF FlowsFirst
    <3>3. more[t] = 0
      BY <1>11, <2>1, <2>10
    <3>4. t \notin DOMAIN had /\ t \notin DOMAIN kept
      BY <1>6, <1>8, <1>9, <2>10
    <3>5. Shown(t) = 0 /\ Shown(t)' = 0
      BY <2>7, <2>8, <3>4
    <3> QED BY ONLY <2>2, <2>3, <2>4, <2>5, <2>6, <3>2, <3>3, <3>5
  <2> QED BY <2>9, <2>10
<1>19. FramesBounded'
  <2>1. Len(EmptyBatch.ws) = 0
    BY DEF EmptyBatch
  <2>2. DOMAIN kept \subseteq ids /\ \A s \in DOMAIN kept : Len(kept[s]) <= SocketFrames
    BY <1>6, <1>8, <1>9
  <2> QED BY <1>1, <1>3, <1>9, <2>1, <2>2 DEF FramesBounded
<1> QED BY <1>14, <1>17, <1>18, <1>19

LEMMA SocketsNextInv == SocketsInv /\ [SocketsNext]_socketsVars => SocketsInv'
<1> SUFFICES ASSUME SocketsInv, [SocketsNext]_socketsVars PROVE SocketsInv'
  OBVIOUS
<1>1. CASE UNCHANGED socketsVars
  <2>1. UNCHANGED <<sockets, routes, numbered, hand, stream, taken, pageVars>>
    BY <1>1 DEF socketsVars, pageVars
  <2>2. SocketTypes'
    BY <2>1 DEF SocketsInv, SocketTypes, pageVars
  <2>3. \A t \in Socket : InHand(t)' = InHand(t)
    BY <2>1 DEF InHand
  <2>4. \A t \in Socket, e \in Directions : hand'[t][e].at # "idle" => hand'[t][e].frame.id \in DOMAIN sockets'
    BY <2>1 DEF SocketsInv, FlowsFirst
  <2> QED BY <2>1, <2>2, <2>3, <2>4, QuietStep
<1>2. CASE \E s \in Socket : (\E p \in Places : Handshake(s, p)) \/ Route(s)
  BY <1>2, HandshakeInv, RouteInv
<1>3. CASE \E s \in Socket, d \in Directions : \E m \in Payload : Record(s, d, m) \/ Unrouted(s, d, m)
  BY <1>3, RecordInv, UnroutedInv
<1>4. CASE \E s \in Socket, d \in Directions : EmitFrame(s, d) \/ Finish(s, d) \/ Retire(s, d)
  BY <1>4, EmitFrameInv, FinishInv, RetireInv
<1>5. CASE Flush \/ Send \/ Paint
  BY <1>5, FlushInv, SendInv, PaintInv
<1> QED BY <1>1, <1>2, <1>3, <1>4, <1>5 DEF SocketsNext

LEMMA BalancedAccounts == SocketsInv => FramesAccounted
<1> SUFFICES ASSUME SocketsInv PROVE FramesAccounted
  OBVIOUS
<1>1. DOMAIN sockets \subseteq Socket
  BY SocketsAre DEF SocketsInv
<1> QED BY <1>1 DEF SocketsInv, Balanced, FramesAccounted, Accounted, Shown

(* The panel tells the whole of a conversation, however many sockets,      *)
(* frames and budgets there are and however the messages are cut: a frame  *)
(* is waiting, shown or counted as dropped as long as neither the list nor *)
(* the queue before it has pushed its flow out (intercept.rs               *)
(* record_ws_frame, state.rs flush, store.ts appendWsMessages).            *)
THEOREM FramesAreTold == SocketsSpec => []FramesAccounted
<1>1. SocketsSpec => []SocketsInv
  BY SocketsInitInv, SocketsNextInv, PTL DEF SocketsSpec
<1> QED BY <1>1, BalancedAccounts, PTL

(* What frames occupy is bounded in the stream's queue, in the page's and  *)
(* in the panel, and the panel keeps none of a flow that is not listed     *)
(* (state.rs queue_frame, streamQueue.ts push, store.ts evictOverBudget).  *)
THEOREM FramesAreBounded == SocketsSpec => []FramesBounded
<1>1. SocketsSpec => []SocketsInv
  BY SocketsInitInv, SocketsNextInv, PTL DEF SocketsSpec
<1>2. SocketsInv => FramesBounded
  BY DEF SocketsInv
<1> QED BY <1>1, <1>2, PTL

------------------------------------------------------------------------------
(* Timings: what every state satisfies. *)

Ended   == {"open", "failed"}
Stages  == {"none", "resolving", "dialling", "shaking"} \union Ended

Requests == [at    : {"unborn", "waiting", "sent", "answered", "gone"},
             host  : Hosts \union {Nowhere},
             start : Nat,
             on    : Flows \union {0}]
Connects == [stage : Stages, at : Nat, split : Nat, dns : Int, tcp : Int]
Entries  == [of : Flows, answered : SUBSET Flows]

TimingTypes ==
  /\ now \in Nat
  /\ request \in [Flows -> Requests]
  /\ conn \in [Flows -> Connects]
  /\ logged \in Seq(Entries)
  /\ DOMAIN samples \subseteq DOMAIN logged
  /\ DOMAIN told \subseteq Flows

(* What the stages of a connect have left behind. *)
Timed(f, c) ==
  /\ c.stage \in {"none", "resolving"} => c.dns = None /\ c.tcp = None
  /\ c.stage \in {"resolving", "dialling"} => c.split = c.at /\ c.tcp = None
  /\ c.stage = "resolving" => ~request[f].host.literal
  /\ c.stage \in {"dialling", "shaking", "open"} =>
       IF request[f].host.literal THEN c.dns = None ELSE c.dns \in Nat
  /\ c.stage = "dialling" => c.at + Resolving(c.dns) <= now
  /\ c.stage \in {"shaking", "open"} =>
       /\ Resolving(c.dns) <= c.tcp
       /\ c.split = c.at + c.tcp /\ c.split <= now
  /\ c.stage # "none" =>
       /\ request[f].at # "unborn"
       /\ request[f].start <= c.at /\ c.at <= now

Phases == \A f \in Flows : Timed(f, conn[f]) /\ request[f].start <= now

(* A connect is logged once, and a sample says what its connect was. *)
LogIsTrue ==
  /\ \A n \in DOMAIN logged : /\ conn[logged[n].of].stage = "open"
                              /\ logged[n].answered \subseteq DOMAIN told
  /\ \A m, n \in DOMAIN logged : logged[m].of = logged[n].of => m = n
  /\ \A n \in DOMAIN samples :
       LET s == samples[n]
           f == logged[n].of
       IN /\ s.of = f /\ s.host = Host(f) /\ s.at = conn[f].at /\ s.dns = conn[f].dns
          /\ s.connect = conn[f].tcp - Resolving(conn[f].dns)
          /\ IF request[f].host.tls THEN s.tls \in Nat ELSE s.tls = None

(* What a flow has claimed was logged before, is gone from the log, and is *)
(* nobody else's.                                                          *)
LoggedBefore(f) ==
  \E n \in DOMAIN logged \ DOMAIN samples :
    /\ logged[n].of = told[f].sample.of
    /\ f \notin logged[n].answered
    /\ request[f].host.name = request[logged[n].of].host.name

Sole(f) == \A g \in DOMAIN told \ {f} : told[g].sample.of # told[f].sample.of

OwnIfAlone(f) ==
  /\ told[f].alone => told[f].sample.of \in {0, f}
  /\ told[f].alone /\ told[f].own => told[f].sample.of = f

ChargedRight(f) ==
  /\ request[f].at = "answered"
  /\ told[f].sample.of # 0 => LoggedBefore(f) /\ Sole(f)
  /\ OwnIfAlone(f)

Charged == \A f \in DOMAIN told : ChargedRight(f)

(* A logged connect can be claimed until it is, or many connects or much   *)
(* time later.                                                             *)
LogIsKept ==
  \A n \in DOMAIN logged \ DOMAIN samples :
    \/ \E g \in DOMAIN told : told[g].sample.of = logged[n].of
    \/ Len(logged) - n >= LogCap
    \/ conn[logged[n].of].at + MaxAge < now

TimingsInv == TimingTypes /\ Phases /\ LogIsTrue /\ Charged /\ LogIsKept

------------------------------------------------------------------------------
LEMMA TimingsInitInv == TimingsInit => TimingsInv
<1> SUFFICES ASSUME TimingsInit PROVE TimingsInv
  OBVIOUS
<1>1. /\ now = 0 /\ logged = <<>> /\ DOMAIN samples = {} /\ DOMAIN told = {}
      /\ request = [f \in Flows |-> [at |-> "unborn", host |-> Nowhere, start |-> 0, on |-> 0]]
      /\ conn = [f \in Flows |-> NotBegun]
  BY DEF TimingsInit
<1>2. TimingTypes
  BY <1>1 DEF TimingTypes, Requests, Connects, NotBegun, Stages, None
<1>3. Phases
  BY <1>1 DEF Phases, Timed, NotBegun
<1>4. LogIsTrue /\ LogIsKept
  BY <1>1 DEF LogIsTrue, LogIsKept
<1>5. Charged
  BY <1>1 DEF Charged, ChargedRight, LoggedBefore, Sole, OwnIfAlone
<1> QED BY <1>2, <1>3, <1>4, <1>5 DEF TimingsInv

(* What a flow was charged it stays charged, as long as the entry of the   *)
(* log and the places it names are left alone.                             *)
LEMMA StaysCharged ==
  ASSUME TimingsInv, NEW g \in DOMAIN told, told'[g] = told[g],
         \A n \in DOMAIN logged \ DOMAIN samples :
           /\ n \in DOMAIN logged' \ DOMAIN samples' /\ logged'[n] = logged[n]
           /\ request'[logged[n].of].host = request[logged[n].of].host,
         request'[g].host = request[g].host
  PROVE  /\ request[g].at = "answered"
         /\ told'[g].sample.of # 0 => LoggedBefore(g)'
         /\ OwnIfAlone(g)'
<1>1. ChargedRight(g)
  BY DEF TimingsInv, Charged
<1>2. ASSUME LoggedBefore(g) PROVE LoggedBefore(g)'
  <2>1. PICK n \in DOMAIN logged \ DOMAIN samples :
               /\ logged[n].of = told[g].sample.of
               /\ g \notin logged[n].answered
               /\ request[g].host.name = request[logged[n].of].host.name
    BY <1>2 DEF LoggedBefore
  <2> QED BY <2>1 DEF LoggedBefore
<1> QED BY <1>1, <1>2 DEF ChargedRight, OwnIfAlone

(* A step that logs nothing and charges nothing, and leaves the connects   *)
(* that have ended, and where they went, as they are.                      *)
LEMMA Unlogged ==
  ASSUME TimingsInv, TimingTypes', now <= now', UNCHANGED <<samples, told, logged>>,
         \A f \in Flows :
           conn[f].stage = "open" => conn'[f] = conn[f] /\ request'[f].host = request[f].host,
         \A f \in Flows :
           request[f].at = "answered" => /\ request'[f].at = "answered"
                                        /\ request'[f].host = request[f].host
  PROVE  LogIsTrue' /\ Charged' /\ LogIsKept'
<1> USE TimingsAssumption
<1>0. \A n \in DOMAIN logged : logged[n].of \in Flows /\ conn[logged[n].of].stage = "open"
  <2> SUFFICES ASSUME NEW n \in DOMAIN logged
               PROVE  logged[n].of \in Flows /\ conn[logged[n].of].stage = "open"
    OBVIOUS
  <2>1. logged[n] \in Entries
    BY DEF TimingsInv, TimingTypes
  <2> QED BY <2>1 DEF TimingsInv, LogIsTrue, Entries
<1>1. \A n \in DOMAIN logged : /\ logged[n].of \in Flows
                               /\ conn'[logged[n].of] = conn[logged[n].of]
                               /\ request'[logged[n].of].host = request[logged[n].of].host
                               /\ Host(logged[n].of)' = Host(logged[n].of)
  BY <1>0 DEF Host
<1>9. DOMAIN samples \subseteq DOMAIN logged
  BY DEF TimingsInv, TimingTypes
<1>2. LogIsTrue'
  BY <1>1, <1>9 DEF TimingsInv, LogIsTrue
<1>3. \A f \in DOMAIN told : /\ f \in Flows /\ ChargedRight(f) /\ request[f].at = "answered"
                             /\ request'[f].at = "answered"
                             /\ request'[f].host = request[f].host
  BY DEF TimingsInv, TimingTypes, Charged, ChargedRight
<1>4. Charged'
  <2> SUFFICES ASSUME NEW f \in DOMAIN told PROVE ChargedRight(f)'
    BY DEF Charged
  <2>1. (told'[f].sample.of # 0 => LoggedBefore(f)') /\ OwnIfAlone(f)'
    BY <1>1, <1>3, StaysCharged
  <2>2. told'[f].sample.of # 0 => Sole(f)'
    BY <1>3 DEF ChargedRight, Sole
  <2> QED BY <1>3, <2>1, <2>2 DEF ChargedRight
<1>5. \A f \in Flows : conn[f].at \in Int
  <2> SUFFICES ASSUME NEW f \in Flows PROVE conn[f].at \in Int
    OBVIOUS
  <2>1. conn[f] \in Connects
    BY DEF TimingsInv, TimingTypes
  <2> QED BY <2>1 DEF Connects
<1>6. LogIsKept'
  <2> SUFFICES ASSUME NEW n \in DOMAIN logged \ DOMAIN samples,
                      conn[logged[n].of].at + MaxAge < now
               PROVE  conn'[logged[n].of].at + MaxAge < now'
    BY DEF TimingsInv, LogIsKept
  <2>1. conn'[logged[n].of].at = conn[logged[n].of].at /\ conn[logged[n].of].at \in Int
    BY <1>1, <1>5
  <2>2. now \in Int /\ now' \in Int /\ MaxAge \in Int
    BY DEF TimingsInv, TimingTypes
  <2> QED BY <2>1, <2>2
<1> QED BY <1>2, <1>4, <1>6

------------------------------------------------------------------------------
LEMMA TickInv == TimingsInv /\ Tick => TimingsInv'
<1> SUFFICES ASSUME TimingsInv, Tick PROVE TimingsInv'
  OBVIOUS
<1>1. now' = now + 1 /\ UNCHANGED <<request, conn, samples, told, logged>>
  BY DEF Tick
<1>2. TimingTypes'
  BY <1>1 DEF TimingsInv, TimingTypes
<1>3. Phases'
  <2> SUFFICES ASSUME NEW f \in Flows PROVE Timed(f, conn[f])' /\ request[f]'.start <= now'
    BY DEF Phases
  <2>1. /\ Timed(f, conn[f]) /\ request[f].start <= now
        /\ conn[f] \in Connects /\ request[f] \in Requests /\ now \in Nat
    BY DEF TimingsInv, Phases, TimingTypes
  <2>2. Resolving(conn[f].dns) \in Int
    BY <2>1 DEF Connects, Resolving, None
  <2>3. Timed(f, conn[f])'
    <3>1. conn[f].at \in Nat /\ conn[f].split \in Nat
      BY <2>1 DEF Connects
    <3> QED BY <1>1, <2>1, <2>2, <3>1 DEF Timed
  <2> QED BY <1>1, <2>1, <2>3 DEF Requests
<1>4. now <= now'
  BY <1>1 DEF TimingsInv, TimingTypes
<1> QED BY <1>1, <1>2, <1>3, <1>4, Unlogged DEF TimingsInv

LEMMA BeginInv ==
  ASSUME TimingsInv, NEW f \in Flows, NEW h \in Hosts, Start(f, h)
  PROVE  TimingsInv'
<1> USE TimingsAssumption
<1> DEFINE r == [at |-> "waiting", host |-> h, start |-> now, on |-> 0]
<1>1. /\ request[f].at = "unborn" /\ request' = [request EXCEPT ![f] = r]
      /\ UNCHANGED <<now, conn, samples, told, logged>>
  BY DEF Start
<1>2. /\ request'[f] = r /\ \A g \in Flows \ {f} : request'[g] = request[g]
      /\ request' \in [Flows -> Requests]
  BY <1>1 DEF TimingsInv, TimingTypes, Requests, Connects
<1>3. TimingTypes'
  BY <1>1, <1>2 DEF TimingsInv, TimingTypes
<1>4. conn[f].stage = "none"
  BY <1>1 DEF TimingsInv, Phases, Timed
<1>5. Phases'
  <2> SUFFICES ASSUME NEW g \in Flows PROVE Timed(g, conn[g])' /\ request'[g].start <= now'
    BY DEF Phases
  <2>1. CASE g = f
    BY <1>1, <1>2, <1>4, <2>1 DEF TimingTypes, TimingsInv, Phases, Timed
  <2>2. CASE g # f
    BY <1>1, <1>2, <2>2 DEF TimingsInv, Phases, Timed
  <2> QED BY <2>1, <2>2
<1>6. now <= now'
  BY <1>1 DEF TimingsInv, TimingTypes
<1>7. \A g \in Flows : conn[g].stage = "open" \/ request[g].at = "answered" => request'[g] = request[g]
  BY <1>1, <1>2, <1>4
<1> QED BY <1>1, <1>3, <1>5, <1>6, <1>7, Unlogged DEF TimingsInv

(* A connect that moves on, and was not over before. *)
LEMMA ConnInv ==
  ASSUME TimingsInv, NEW f \in Flows, NEW c,
         c \in Connects,
         conn' = [conn EXCEPT ![f] = c], conn[f].stage # "open", Timed(f, c),
         UNCHANGED <<now, request, samples, told, logged>>
  PROVE  TimingsInv'
<1>1. /\ conn'[f] = c /\ \A g \in Flows \ {f} : conn'[g] = conn[g]
      /\ conn' \in [Flows -> Connects]
  BY DEF TimingsInv, TimingTypes
<1>2. TimingTypes'
  BY <1>1 DEF TimingsInv, TimingTypes
<1>3. Phases'
  BY <1>1 DEF TimingsInv, Phases, Timed
<1>4. now <= now'
  BY DEF TimingsInv, TimingTypes
<1>5. \A g \in Flows : conn[g].stage = "open" => conn'[g] = conn[g]
  BY <1>1
<1> QED BY <1>2, <1>3, <1>4, <1>5, Unlogged DEF TimingsInv

LEMMA ConnectInv ==
  ASSUME TimingsInv, NEW f \in Flows, Connect(f)
  PROVE  TimingsInv'
<1> DEFINE stage == IF request[f].host.literal THEN "dialling" ELSE "resolving"
           c == [NotBegun EXCEPT !.stage = stage, !.at = now, !.split = now]
<1>1. NotBegun \in Connects
      /\ NotBegun.stage = "none" /\ NotBegun.dns = None /\ NotBegun.tcp = None
  BY DEF NotBegun, None, Connects, Stages
<1>2. /\ request[f].at = "waiting" /\ conn[f].stage = "none"
      /\ conn' = [conn EXCEPT ![f] = c] /\ UNCHANGED <<now, request, samples, told, logged>>
  BY <1>1 DEF Connect
<1>3. now \in Nat /\ request[f].start <= now
  BY DEF TimingsInv, TimingTypes, Phases
<1>4. /\ c \in Connects
      /\ c.stage = stage /\ c.at = now /\ c.split = now /\ c.dns = None /\ c.tcp = None
  BY <1>1, <1>3 DEF Connects, Stages
<1> HIDE DEF c
<1>5. Timed(f, c)
  BY <1>2, <1>3, <1>4 DEF Timed, Resolving
<1> QED BY <1>2, <1>4, <1>5, ConnInv

LEMMA ResolveInv ==
  ASSUME TimingsInv, NEW f \in Flows, Resolve(f)
  PROVE  TimingsInv'
<1> DEFINE left == [conn[f] EXCEPT !.dns = now - conn[f].at]
           c     == [left EXCEPT !.stage = "dialling"]
<1>1. /\ conn[f].stage = "resolving" /\ UNCHANGED <<now, request, samples, told, logged>>
      /\ conn[f] \in Connects
      /\ now \in Nat
  BY DEF Resolve, TimingsInv, TimingTypes
<1>2. conn' = [conn EXCEPT ![f] = c]
  BY DEF Resolve, Scratch, TimingsInv, TimingTypes
<1>3. /\ left \in Connects
      /\ left.at = conn[f].at /\ left.split = conn[f].split
      /\ left.dns = now - conn[f].at /\ left.tcp = conn[f].tcp
  BY <1>1 DEF Connects
<1> HIDE DEF left
<1>4. /\ c \in Connects
      /\ c.stage = "dialling" /\ c.at = left.at /\ c.split = left.split
      /\ c.dns = left.dns /\ c.tcp = left.tcp
  BY <1>3 DEF Connects, Stages
<1> HIDE DEF c
<1>5. Timed(f, conn[f])
  BY DEF TimingsInv, Phases
<1>6. Timed(f, c)
  BY <1>1, <1>3, <1>4, <1>5 DEF Timed, Connects, Resolving, None
<1> QED BY <1>1, <1>2, <1>4, <1>6, ConnInv

LEMMA DialInv ==
  ASSUME TimingsInv, NEW f \in Flows, Dial(f)
  PROVE  TimingsInv'
<1> DEFINE left == [conn[f] EXCEPT !.tcp = now - conn[f].at]
           c     == [left EXCEPT !.stage = "shaking", !.split = now]
<1>1. /\ conn[f].stage = "dialling" /\ UNCHANGED <<now, request, samples, told, logged>>
      /\ conn[f] \in Connects
      /\ now \in Nat
  BY DEF Dial, TimingsInv, TimingTypes
<1>2. conn' = [conn EXCEPT ![f] = c]
  BY DEF Dial, Scratch, TimingsInv, TimingTypes
<1>3. /\ left \in Connects
      /\ left.at = conn[f].at /\ left.dns = conn[f].dns /\ left.tcp = now - conn[f].at
  BY <1>1 DEF Connects
<1> HIDE DEF left
<1>4. /\ c \in Connects
      /\ c.stage = "shaking" /\ c.at = left.at /\ c.split = now
      /\ c.dns = left.dns /\ c.tcp = left.tcp
  BY <1>1, <1>3 DEF Connects, Stages
<1> HIDE DEF c
<1>5. Timed(f, conn[f])
  BY DEF TimingsInv, Phases
<1>6. Timed(f, c)
  BY <1>1, <1>3, <1>4, <1>5 DEF Timed, Connects, Resolving, None
<1> QED BY <1>1, <1>2, <1>4, <1>6, ConnInv

LEMMA FailInv ==
  ASSUME TimingsInv, NEW f \in Flows, Fail(f)
  PROVE  TimingsInv'
<1> DEFINE c == [conn[f] EXCEPT !.stage = "failed"]
<1>1. /\ conn[f].stage \in {"resolving", "dialling", "shaking"}
      /\ UNCHANGED <<now, request, samples, told, logged>>
      /\ conn[f] \in Connects
      /\ conn' = [conn EXCEPT ![f] = c]
  BY DEF Fail, TimingsInv, TimingTypes
<1>2. /\ c.stage = "failed" /\ c.at = conn[f].at
      /\ c \in Connects
  BY <1>1 DEF Connects, Stages, Ended
<1> HIDE DEF c
<1>3. Timed(f, conn[f])
  BY DEF TimingsInv, Phases
<1>4. Timed(f, c)
  BY <1>1, <1>2, <1>3 DEF Timed
<1> QED BY <1>1, <1>2, <1>4, ConnInv

(* A request that moves on without an answer. *)
LEMMA RequestInv ==
  ASSUME TimingsInv, NEW f \in Flows, Abandon(f) \/ \E g \in Flows : Pooled(f, g)
  PROVE  TimingsInv'
<1>1. /\ request[f].at \in {"waiting", "sent"} /\ UNCHANGED <<now, conn, samples, told, logged>>
      /\ \/ request' = [request EXCEPT ![f].at = "gone"]
         \/ \E g \in Flows : request' = [request EXCEPT ![f].at = "sent", ![f].on = g]
  BY DEF Abandon, Pooled
<1>2. /\ request' \in [Flows -> Requests]
      /\ request'[f].host = request[f].host /\ request'[f].start = request[f].start
      /\ request'[f].at \in {"gone", "sent"}
      /\ \A g \in Flows \ {f} : request'[g] = request[g]
  <2>1. request \in [Flows -> Requests] /\ request[f] \in Requests
    BY DEF TimingsInv, TimingTypes
  <2>2. CASE request' = [request EXCEPT ![f].at = "gone"]
    BY <2>1, <2>2 DEF Requests
  <2>3. ASSUME NEW g \in Flows, request' = [request EXCEPT ![f].at = "sent", ![f].on = g]
        PROVE  <1>2!:
    <3> DEFINE r == [request[f] EXCEPT !.at = "sent", !.on = g]
    <3>1. r \in Requests /\ r.host = request[f].host /\ r.start = request[f].start /\ r.at = "sent"
      BY <2>1 DEF Requests
    <3>2. request' = [request EXCEPT ![f] = r]
      BY <2>1, <2>3
    <3> HIDE DEF r
    <3> QED BY <2>1, <3>1, <3>2
  <2> QED BY <1>1, <2>2, <2>3
<1>3. TimingTypes'
  BY <1>1, <1>2 DEF TimingsInv, TimingTypes
<1>4. Phases'
  BY <1>1, <1>2 DEF TimingsInv, Phases, Timed
<1>5. now <= now'
  BY <1>1 DEF TimingsInv, TimingTypes
<1>6. \A g \in Flows : request[g].at = "answered" =>
        request'[g].at = "answered" /\ request'[g].host = request[g].host
  BY <1>1, <1>2
<1> QED BY <1>1, <1>2, <1>3, <1>4, <1>5, <1>6, Unlogged DEF TimingsInv

------------------------------------------------------------------------------
(* What a new connect pushes out of the log is old, or far down. *)
LEMMA LoggedFacts ==
  ASSUME TimingTypes, NEW s
  PROVE  LET new == Len(logged) + 1
         IN /\ DOMAIN Logged(s) \subseteq DOMAIN samples \union {new}
            /\ new \in DOMAIN Logged(s) /\ Logged(s)[new] = s
            /\ \A n \in DOMAIN Logged(s) \ {new} : Logged(s)[n] = samples[n]
            /\ \A n \in DOMAIN samples \ DOMAIN Logged(s) :
                 samples[n].at >= s.at - MaxAge => new - n >= LogCap
<1> USE TimingsAssumption
<1> DEFINE new      == Len(logged) + 1
           fresh    == {n \in DOMAIN samples : samples[n].at >= s.at - MaxAge} \union {new}
           since(n) == {m \in fresh : m >= n}
           kept     == {n \in fresh : Cardinality(since(n)) <= LogCap}
<1>1. Len(logged) \in Nat /\ new \in Nat /\ fresh \subseteq 1..new
  BY DEF TimingTypes
<1>2. Logged(s) = [n \in kept |-> IF n = new THEN s ELSE samples[n]]
  BY DEF Logged
<1>3. \A n \in 1..new : /\ since(n) \subseteq n..new
                        /\ Cardinality(since(n)) <= new - n + 1
                        /\ Cardinality(since(n)) \in Nat
  <2> SUFFICES ASSUME NEW n \in 1..new
               PROVE  /\ since(n) \subseteq n..new
                      /\ Cardinality(since(n)) <= new - n + 1
                      /\ Cardinality(since(n)) \in Nat
    OBVIOUS
  <2>1. since(n) \subseteq n..new
    BY <1>1
  <2>2. IsFiniteSet(n..new) /\ Cardinality(n..new) = new - n + 1
    BY <1>1, FS_Interval
  <2> HIDE DEF since
  <2>3. IsFiniteSet(since(n)) /\ Cardinality(since(n)) <= new - n + 1
    BY <2>1, <2>2, FS_Subset
  <2> QED BY <2>1, <2>3, FS_CardinalityType
<1>4. new \in kept
  <2>1. Cardinality(since(new)) <= new - new + 1 /\ Cardinality(since(new)) \in Nat
    BY <1>1, <1>3
  <2> HIDE DEF since
  <2> QED BY <1>1, <2>1
<1>5. \A n \in DOMAIN samples \ kept : samples[n].at >= s.at - MaxAge => new - n >= LogCap
  <2> SUFFICES ASSUME NEW n \in DOMAIN samples \ kept, samples[n].at >= s.at - MaxAge
               PROVE  new - n >= LogCap
    OBVIOUS
  <2>1. n \in fresh /\ n \in 1..new
    BY <1>1
  <2>2. ~(Cardinality(since(n)) <= LogCap)
    BY <2>1
  <2>3. Cardinality(since(n)) <= new - n + 1 /\ Cardinality(since(n)) \in Nat
    BY <1>3, <2>1
  <2> HIDE DEF since
  <2> QED BY <1>1, <2>1, <2>2, <2>3
<1>6. kept \subseteq DOMAIN samples \union {new}
  OBVIOUS
<1> HIDE DEF kept
<1> QED BY <1>2, <1>4, <1>5, <1>6

(* The phases of a connect that ends are told apart by the sample. *)
LEMMA SampleFacts ==
  ASSUME TimingsInv, NEW f \in Flows, conn[f].stage = "shaking"
  PROVE  LET s == Sample(f)
         IN /\ s.of = f /\ s.host = Host(f) /\ s.at = conn[f].at /\ s.dns = conn[f].dns
            /\ s.connect = conn[f].tcp - Resolving(conn[f].dns)
            /\ IF request[f].host.tls THEN s.tls \in Nat ELSE s.tls = None
            /\ s.at \in Nat /\ s.at <= now
<1> DEFINE dns == Resolving(conn[f].dns)
<1>1. /\ conn[f].at \in Nat /\ dns \in Nat /\ conn[f].tcp \in Nat
      /\ dns <= conn[f].tcp /\ conn[f].at <= now /\ now \in Nat
  BY DEF TimingsInv, TimingTypes, Requests, Connects, Phases, Timed, Resolving
<1> HIDE DEF dns
<1>2. conn[f].tcp # None
  BY <1>1 DEF None
<1>3. Difference(conn[f].tcp, dns) = conn[f].tcp - dns
  BY <1>1 DEF Difference
<1>4. Difference(now - conn[f].at, conn[f].tcp) \in Nat
  BY <1>1 DEF Difference
<1> QED BY <1>1, <1>2, <1>3, <1>4 DEF Sample, dns

LEMMA EstablishInv ==
  ASSUME TimingsInv, NEW f \in Flows, Establish(f)
  PROVE  TimingsInv'
<1> USE TimingsAssumption
<1> DEFINE new   == Len(logged) + 1
           entry == [of |-> f, answered |-> DOMAIN told]
           s     == Sample(f)
<1>1. /\ conn[f].stage = "shaking" /\ samples' = Logged(s)
      /\ logged' = Append(logged, entry)
      /\ conn' = [conn EXCEPT ![f].stage = "open"]
      /\ UNCHANGED <<now, request, told>>
  BY DEF Establish
<1>2. entry \in Entries /\ logged \in Seq(Entries) /\ DOMAIN told \subseteq Flows
  BY DEF TimingsInv, TimingTypes, Entries
<1>3. /\ logged' \in Seq(Entries) /\ Len(logged) \in Nat /\ Len(logged') = new
      /\ DOMAIN logged = 1..Len(logged) /\ DOMAIN logged' = 1..new
      /\ logged'[new] = entry /\ \A n \in DOMAIN logged : logged'[n] = logged[n]
  <2> HIDE DEF entry
  <2> QED BY <1>1, <1>2
<1>4. /\ conn' \in [Flows -> Connects]
      /\ conn'[f].stage = "open" /\ conn'[f].at = conn[f].at /\ conn'[f].split = conn[f].split
      /\ conn'[f].dns = conn[f].dns /\ conn'[f].tcp = conn[f].tcp
      /\ \A g \in Flows \ {f} : conn'[g] = conn[g]
  <2> DEFINE c == [conn[f] EXCEPT !.stage = "open"]
  <2>1. conn \in [Flows -> Connects] /\ conn[f] \in Connects /\ conn' = [conn EXCEPT ![f] = c]
    BY <1>1 DEF TimingsInv, TimingTypes
  <2>2. /\ c \in Connects /\ c.stage = "open" /\ c.at = conn[f].at /\ c.split = conn[f].split
        /\ c.dns = conn[f].dns /\ c.tcp = conn[f].tcp
    BY <2>1 DEF Connects, Stages, Ended
  <2> HIDE DEF c
  <2> QED BY <2>1, <2>2
<1>5. /\ s.of = f /\ s.host = Host(f) /\ s.at = conn[f].at /\ s.dns = conn[f].dns
      /\ s.connect = conn[f].tcp - Resolving(conn[f].dns)
      /\ IF request[f].host.tls THEN s.tls \in Nat ELSE s.tls = None
      /\ s.at \in Nat /\ s.at <= now
  BY <1>1, SampleFacts
<1> HIDE DEF s, entry
<1>6. /\ DOMAIN samples' \subseteq DOMAIN samples \union {new}
      /\ new \in DOMAIN samples' /\ samples'[new] = s
      /\ \A n \in DOMAIN samples' \ {new} : samples'[n] = samples[n]
      /\ \A n \in DOMAIN samples \ DOMAIN samples' :
           samples[n].at >= s.at - MaxAge => new - n >= LogCap
  BY <1>1, LoggedFacts DEF TimingsInv
<1>7. DOMAIN samples \subseteq DOMAIN logged
  BY DEF TimingsInv, TimingTypes
<1>8. TimingTypes'
  BY <1>1, <1>3, <1>4, <1>6, <1>7 DEF TimingsInv, TimingTypes
<1>9. Phases'
  <2>1. Timed(f, conn[f])'
    BY <1>1, <1>4 DEF TimingsInv, Phases, Timed
  <2>2. \A g \in Flows \ {f} : Timed(g, conn[g])'
    BY <1>1, <1>4 DEF TimingsInv, Phases, Timed
  <2> QED BY <1>1, <2>1, <2>2 DEF TimingsInv, Phases
<1>10. \A n \in DOMAIN logged : logged[n].of \in Flows \ {f}
  <2>1. \A n \in DOMAIN logged : logged[n] \in Entries
    BY <1>2
  <2> QED BY <1>1, <2>1 DEF TimingsInv, LogIsTrue, Entries
<1>11. entry.of = f /\ entry.answered = DOMAIN told
  BY DEF entry
<1>12. LogIsTrue'
  <2>1. \A n \in DOMAIN logged' : /\ conn'[logged'[n].of].stage = "open"
                                  /\ logged'[n].answered \subseteq DOMAIN told'
    BY <1>1, <1>3, <1>4, <1>10, <1>11 DEF TimingsInv, LogIsTrue
  <2>2. \A m, n \in DOMAIN logged' : logged'[m].of = logged'[n].of => m = n
    BY <1>3, <1>10, <1>11 DEF TimingsInv, LogIsTrue
  <2>3. ASSUME NEW n \in DOMAIN samples'
        PROVE  LET r == samples'[n]
                   g == logged'[n].of
               IN /\ r.of = g /\ r.host = request[g].host.name
                  /\ r.at = conn'[g].at /\ r.dns = conn'[g].dns
                  /\ r.connect = conn'[g].tcp - Resolving(conn'[g].dns)
                  /\ IF request[g].host.tls THEN r.tls \in Nat ELSE r.tls = None
    <3>1. CASE n = new
      <4>1. samples'[n] = s /\ logged'[n].of = f
        BY <1>3, <1>6, <1>11, <3>1
      <4> QED BY <1>4, <1>5, <4>1 DEF Host
    <3>2. CASE n # new
      <4>1. n \in DOMAIN samples /\ n \in DOMAIN logged /\ samples'[n] = samples[n] /\ logged'[n] = logged[n]
        BY <1>3, <1>6, <1>7, <2>3, <3>2
      <4>2. conn'[logged[n].of] = conn[logged[n].of]
        BY <1>4, <1>10, <4>1
      <4> QED BY <4>1, <4>2 DEF TimingsInv, LogIsTrue, Host
    <3> QED BY <3>1, <3>2
  <2> QED BY <1>1, <2>1, <2>2, <2>3 DEF LogIsTrue, Host
<1>13. Charged'
  <2> SUFFICES ASSUME NEW g \in DOMAIN told PROVE ChargedRight(g)'
    BY <1>1 DEF Charged
  <2>1. \A n \in DOMAIN logged \ DOMAIN samples :
          n \in DOMAIN logged' \ DOMAIN samples' /\ logged'[n] = logged[n]
    BY <1>3, <1>6
  <2>2. /\ request[g].at = "answered"
        /\ told'[g].sample.of # 0 => LoggedBefore(g)'
        /\ OwnIfAlone(g)'
    BY <1>1, <2>1, StaysCharged
  <2>3. told'[g].sample.of # 0 => Sole(g)'
    BY <1>1 DEF TimingsInv, Charged, ChargedRight, Sole
  <2> QED BY <1>1, <2>2, <2>3 DEF ChargedRight
<1>14. LogIsKept'
  <2> SUFFICES ASSUME NEW n \in DOMAIN logged' \ DOMAIN samples'
               PROVE  \/ \E g \in DOMAIN told' : told'[g].sample.of = logged'[n].of
                      \/ Len(logged') - n >= LogCap
                      \/ conn'[logged'[n].of].at + MaxAge < now'
    BY DEF LogIsKept
  <2>1. n \in DOMAIN logged /\ logged'[n] = logged[n] /\ n \in Nat
    BY <1>3, <1>6
  <2>2. conn'[logged[n].of] = conn[logged[n].of]
    BY <1>4, <1>10, <2>1
  <2>3. CASE n \notin DOMAIN samples
    BY <1>1, <1>3, <2>1, <2>2, <2>3 DEF TimingsInv, LogIsKept
  <2>4. CASE n \in DOMAIN samples
    <3>1. samples[n].at = conn[logged[n].of].at /\ conn[logged[n].of].at \in Nat /\ now \in Nat
      BY <1>10, <2>1, <2>4 DEF TimingsInv, TimingTypes, Requests, Connects, LogIsTrue
    <3>2. samples[n].at >= s.at - MaxAge => new - n >= LogCap
      BY <1>6, <2>4
    <3>3. CASE samples[n].at >= s.at - MaxAge
      BY <1>3, <3>2, <3>3
    <3>4. CASE ~(samples[n].at >= s.at - MaxAge)
      <4>1. conn[logged[n].of].at + MaxAge < now
        <5> DEFINE a == conn[logged[n].of].at
                   b == s.at
        <5>1. a \in Nat /\ b \in Nat /\ now \in Nat /\ b <= now /\ ~(a >= b - MaxAge)
          BY <1>5, <3>1, <3>4
        <5> HIDE DEF a, b
        <5>2. a + MaxAge < now
          BY <5>1
        <5> QED BY <5>2 DEF a
      <4> QED BY <1>1, <2>1, <2>2, <4>1
    <3> QED BY <3>3, <3>4
  <2> QED BY <2>3, <2>4
<1> QED BY <1>8, <1>9, <1>12, <1>13, <1>14 DEF TimingsInv

------------------------------------------------------------------------------
(* The smallest of what a flow may claim is one of them. *)
LEMMA ClaimedFacts ==
  ASSUME TimingTypes, NEW f \in Flows
  PROVE  /\ Claimed(f) \subseteq Claimable(f)
         /\ Claimable(f) # {} => Claimed(f) # {}
         /\ \A n \in Claimed(f) : Claimed(f) = {n} /\ Min(Claimed(f)) = n
<1>1. Claimable(f) \subseteq Nat
  BY DEF TimingTypes, Claimable
<1>2. CASE Claimable(f) = {}
  BY <1>2 DEF Claimed
<1>3. CASE Claimable(f) # {}
  <2> DEFINE S == Claimable(f)
  <2>1. PICK n \in S : \A m \in S : <<m, n>> \notin OpToRel(<, Nat)
    <3>1. IsWellFoundedOn(OpToRel(<, Nat), Nat)
      BY NatLessThanWellFounded
    <3> HIDE DEF S
    <3> QED BY <1>1, <1>3, <3>1, WFMin DEF S
  <2>2. \A m \in S : m >= n
    <3> SUFFICES ASSUME NEW m \in S PROVE m >= n
      OBVIOUS
    <3> HIDE DEF S
    <3>1. m \in Nat /\ n \in Nat
      BY <1>1, <2>1 DEF S
    <3>2. <<m, n>> \notin OpToRel(<, Nat)
      BY <2>1
    <3>3. ~(m < n)
      BY <3>1, <3>2 DEF OpToRel
    <3> QED BY <3>1, <3>3
  <2>3. Min(S) \in S
    BY <2>1, <2>2 DEF Min
  <2>4. Claimed(f) = {Min(S)}
    BY <1>3 DEF Claimed
  <2>5. Min({Min(S)}) = Min(S)
    <3> DEFINE k == Min(S)
    <3>1. k \in Nat
      BY <1>1, <2>3
    <3> HIDE DEF k
    <3>2. Min({k}) = k
      BY <3>1 DEF Min
    <3> QED BY <3>2 DEF k
  <2> QED BY <1>3, <2>3, <2>4, <2>5
<1> QED BY <1>2, <1>3

(* A flow that was alone can claim its own connect and no other. *)
LEMMA AloneClaimsItsOwn ==
  ASSUME TimingsInv, NEW f \in Flows, Alone(f), NEW n \in Claimable(f)
  PROVE  samples[n].of = f
<1> USE TimingsAssumption
<1>1. n \in DOMAIN samples /\ samples[n].host = Host(f) /\ samples[n].at >= request[f].start - Slop
  BY DEF Claimable
<1>2. n \in DOMAIN logged /\ logged[n] \in Entries
  BY <1>1 DEF TimingsInv, TimingTypes
<1> DEFINE g == logged[n].of
<1>3. g \in Flows /\ conn[g].stage = "open"
      /\ samples[n].of = g /\ samples[n].host = Host(g) /\ samples[n].at = conn[g].at
  BY <1>1, <1>2 DEF TimingsInv, LogIsTrue, Entries
<1>4. conn[g].at \in Nat /\ request[f].start \in Nat
  BY <1>3 DEF TimingsInv, TimingTypes, Requests, Connects
<1> HIDE DEF g
<1> QED BY <1>1, <1>3, <1>4 DEF Alone

(* A flow's own connect, if it was logged lately and no other flow could   *)
(* take it, is there to be claimed.                                        *)
LEMMA OwnIsClaimable ==
  ASSUME TimingsInv, NEW f \in Flows, Opened(f)
  PROVE  \E n \in Claimable(f) : samples[n].of = f
<1> USE TimingsAssumption
<1>1. PICK n \in DOMAIN logged :
             /\ logged[n].of = f
             /\ Len(logged) - n < LogCap
             /\ now - conn[f].at <= MaxAge
             /\ \A g \in DOMAIN told : Host(g) = Host(f) => g \in logged[n].answered
  BY DEF Opened
<1>2. /\ conn[f].stage = "open" /\ conn[f].at \in Nat /\ now \in Nat
      /\ request[f].start \in Nat /\ request[f].start <= conn[f].at
  BY <1>1 DEF TimingsInv, TimingTypes, Requests, Connects, LogIsTrue, Phases, Timed
<1>3. n \in Nat /\ Len(logged) \in Nat
  BY <1>1 DEF TimingsInv, TimingTypes
<1>4. \A g \in DOMAIN told : told[g].sample.of # f
  <2> SUFFICES ASSUME NEW g \in DOMAIN told, told[g].sample.of = f PROVE FALSE
    OBVIOUS
  <2>1. PICK m \in DOMAIN logged : /\ logged[m].of = f
                                   /\ g \notin logged[m].answered
                                   /\ Host(g) = Host(logged[m].of)
    BY DEF TimingsInv, Charged, ChargedRight, LoggedBefore, Host
  <2>2. m = n
    BY <1>1, <2>1 DEF TimingsInv, LogIsTrue
  <2> QED BY <1>1, <2>1, <2>2
<1>5. n \in DOMAIN samples
  <2> SUFFICES ASSUME n \notin DOMAIN samples PROVE FALSE
    OBVIOUS
  <2>1. Len(logged) - n >= LogCap \/ conn[f].at + MaxAge < now
    BY <1>1, <1>4 DEF TimingsInv, LogIsKept
  <2> QED BY <1>1, <1>2, <1>3, <2>1
<1>6. samples[n].of = f /\ samples[n].host = Host(f) /\ samples[n].at = conn[f].at
  BY <1>1, <1>5 DEF TimingsInv, LogIsTrue
<1>7. n \in Claimable(f)
  BY <1>2, <1>5, <1>6 DEF Claimable
<1> QED BY <1>6, <1>7

LEMMA RespondInv ==
  ASSUME TimingsInv, NEW f \in Flows, Respond(f)
  PROVE  TimingsInv'
<1> USE TimingsAssumption
<1> DEFINE got == [sample |-> IF Claimed(f) = {} THEN NoSample ELSE samples[Min(Claimed(f))],
                   alone  |-> Alone(f),
                   own    |-> Opened(f)]
<1>1. /\ request[f].at = "sent" /\ request' = [request EXCEPT ![f].at = "answered"]
      /\ told' = [g \in DOMAIN told \union {f} |-> IF g = f THEN got ELSE told[g]]
      /\ samples' = [n \in DOMAIN samples \ Claimed(f) |-> samples[n]]
      /\ UNCHANGED <<now, conn, logged>>
  BY DEF Respond
<1>2. /\ request' \in [Flows -> Requests] /\ request'[f].at = "answered"
      /\ request'[f].host = request[f].host /\ request'[f].start = request[f].start
      /\ \A g \in Flows \ {f} : request'[g] = request[g]
  BY <1>1 DEF TimingsInv, TimingTypes, Requests
<1>3. f \notin DOMAIN told /\ DOMAIN told \subseteq Flows /\ DOMAIN samples \subseteq DOMAIN logged
  BY <1>1 DEF TimingsInv, TimingTypes, Charged, ChargedRight, LoggedBefore, Sole, OwnIfAlone
<1>4. /\ got.sample = IF Claimed(f) = {} THEN NoSample ELSE samples[Min(Claimed(f))]
      /\ got.alone = Alone(f) /\ got.own = Opened(f)
  OBVIOUS
<1> HIDE DEF got
<1>5. /\ DOMAIN told' = DOMAIN told \union {f} /\ told'[f] = got
      /\ \A g \in DOMAIN told : told'[g] = told[g]
      /\ DOMAIN samples' = DOMAIN samples \ Claimed(f)
      /\ \A n \in DOMAIN samples' : samples'[n] = samples[n]
  BY <1>1, <1>3
<1>6. TimingTypes'
  BY <1>1, <1>2, <1>3, <1>5 DEF TimingsInv, TimingTypes
<1>7. Phases'
  BY <1>1, <1>2 DEF TimingsInv, Phases, Timed
<1>8. \A n \in DOMAIN logged : logged[n].of \in Flows
  <2>1. \A n \in DOMAIN logged : logged[n] \in Entries
    BY DEF TimingsInv, TimingTypes
  <2> QED BY <2>1 DEF Entries
<1>9. \A g \in Flows : request'[g].host = request[g].host
  BY <1>2
<1>10. LogIsTrue'
  <2>1. \A n \in DOMAIN logged : /\ conn'[logged[n].of].stage = "open"
                                 /\ logged[n].answered \subseteq DOMAIN told'
    BY <1>1, <1>5 DEF TimingsInv, LogIsTrue
  <2>2. ASSUME NEW n \in DOMAIN samples'
        PROVE  /\ n \in DOMAIN samples /\ samples'[n] = samples[n]
               /\ request'[logged[n].of].host = request[logged[n].of].host
    BY <1>3, <1>5, <1>8, <1>9, <2>2
  <2> QED BY <1>1, <2>1, <2>2 DEF TimingsInv, LogIsTrue, Host
<1>11. ASSUME NEW g \in DOMAIN told' \ {f}
       PROVE  /\ request'[g].at = "answered"
              /\ told'[g].sample.of # 0 => LoggedBefore(g)'
              /\ OwnIfAlone(g)'
  <2>1. g \in DOMAIN told /\ told'[g] = told[g] /\ g \in Flows /\ request'[g] = request[g]
    BY <1>2, <1>3, <1>5
  <2>2. \A n \in DOMAIN logged \ DOMAIN samples :
          /\ n \in DOMAIN logged' \ DOMAIN samples' /\ logged'[n] = logged[n]
          /\ request'[logged[n].of].host = request[logged[n].of].host
    BY <1>1, <1>5, <1>8, <1>9
  <2> QED BY <2>1, <2>2, StaysCharged
<1>12. CASE Claimed(f) = {}
  <2>1. got.sample.of = 0 /\ ~got.own
    <3>1. Claimable(f) = {}
      BY <1>12, ClaimedFacts DEF TimingsInv
    <3>2. ~Opened(f)
      BY <3>1, OwnIsClaimable
    <3>3. ~got.own
      BY <1>4, <3>2, Zenon
    <3>4. got.sample = NoSample
      BY <1>4, <1>12
    <3>5. NoSample.of = 0
      BY Zenon DEF NoSample
    <3> QED BY <3>3, <3>4, <3>5
  <2>2. DOMAIN samples' = DOMAIN samples
    BY <1>5, <1>12
  <2>3. Charged'
    <3> SUFFICES ASSUME NEW g \in DOMAIN told' PROVE ChargedRight(g)'
      BY DEF Charged
    <3>1. CASE g = f
      BY <1>2, <1>5, <2>1, <3>1 DEF ChargedRight, OwnIfAlone
    <3>2. CASE g # f
      <4>1. told'[g].sample.of # 0 => Sole(g)'
        BY <1>5, <2>1, <3>2 DEF TimingsInv, Charged, ChargedRight, Sole
      <4> QED BY <1>11, <3>2, <4>1 DEF ChargedRight
    <3> QED BY <3>1, <3>2
  <2>4. LogIsKept'
    BY <1>1, <1>5, <2>2 DEF TimingsInv, LogIsKept
  <2> QED BY <1>6, <1>7, <1>10, <2>3, <2>4 DEF TimingsInv
<1>13. CASE Claimed(f) # {}
  <2>1. PICK n \in Claimed(f) : TRUE
    BY <1>13
  <2>2. /\ Claimed(f) = {n} /\ got.sample = samples[n] /\ n \in Claimable(f)
        /\ n \in DOMAIN samples /\ n \in DOMAIN logged
    BY <1>3, <1>4, <2>1, ClaimedFacts DEF TimingsInv, Claimable
  <2> DEFINE c == logged[n].of
  <2>3. /\ c \in Flows /\ got.sample.of = c /\ c # 0
        /\ samples[n].host = Host(c) /\ Host(c) = Host(f)
        /\ f \notin logged[n].answered
    BY <1>3, <1>8, <2>2 DEF TimingsInv, LogIsTrue, Claimable
  <2>4. \A m \in DOMAIN logged : logged[m].of = c => m = n
    BY <2>2 DEF TimingsInv, LogIsTrue
  <2>5. \A g \in DOMAIN told : told[g].sample.of # c
    <3> SUFFICES ASSUME NEW g \in DOMAIN told, told[g].sample.of = c PROVE FALSE
      OBVIOUS
    <3>1. PICK m \in DOMAIN logged \ DOMAIN samples : logged[m].of = c
      BY <2>3 DEF TimingsInv, Charged, ChargedRight, LoggedBefore, Sole, OwnIfAlone
    <3> QED BY <2>2, <2>4, <3>1
  <2>6. Alone(f) => c = f
    BY <2>2, <2>3, AloneClaimsItsOwn
  <2> HIDE DEF c
  <2>7. \A g \in DOMAIN told' : told'[g].sample.of # 0 => Sole(g)'
    BY <1>5, <2>3, <2>5 DEF TimingsInv, Charged, ChargedRight, Sole
  <2>8. ChargedRight(f)'
    <3>1. n \in DOMAIN logged \ DOMAIN samples' /\ logged[n].of = told'[f].sample.of
      BY <1>5, <2>2, <2>3 DEF c
    <3>2. request'[f].host.name = request'[c].host.name
      BY <1>9, <2>3 DEF Host
    <3>3. LoggedBefore(f)'
      BY <1>1, <2>3, <3>1, <3>2 DEF LoggedBefore, c
    <3>4. OwnIfAlone(f)'
      BY <1>4, <1>5, <2>3, <2>6 DEF OwnIfAlone
    <3> QED BY <1>2, <1>5, <2>7, <3>3, <3>4 DEF ChargedRight
  <2>9. \A g \in DOMAIN told' \ {f} : ChargedRight(g)'
    BY <1>11, <2>7 DEF ChargedRight
  <2>10. Charged'
    BY <2>8, <2>9 DEF Charged
  <2>11. LogIsKept'
    <3> SUFFICES ASSUME NEW m \in DOMAIN logged \ DOMAIN samples'
                 PROVE  \/ \E g \in DOMAIN told' : told'[g].sample.of = logged[m].of
                        \/ Len(logged) - m >= LogCap
                        \/ conn[logged[m].of].at + MaxAge < now
      BY <1>1 DEF LogIsKept
    <3>1. CASE m = n
      BY <1>5, <2>3, <3>1 DEF c
    <3>2. CASE m # n
      <4>1. m \in DOMAIN logged \ DOMAIN samples
        BY <1>5, <2>2, <3>2
      <4> QED BY <1>5, <4>1 DEF TimingsInv, LogIsKept
    <3> QED BY <3>1, <3>2
  <2> QED BY <1>6, <1>7, <1>10, <2>10, <2>11 DEF TimingsInv
<1> QED BY <1>12, <1>13

------------------------------------------------------------------------------
LEMMA TimingsNextInv == TimingsInv /\ [TimingsNext]_timingsVars => TimingsInv'
<1> SUFFICES ASSUME TimingsInv, [TimingsNext]_timingsVars PROVE TimingsInv'
  OBVIOUS
<1>1. CASE UNCHANGED timingsVars
  BY <1>1 DEF timingsVars, TimingsInv, TimingTypes, Phases, Timed, LogIsTrue, Charged, ChargedRight, LoggedBefore, Sole, OwnIfAlone, LogIsKept, Host
<1>2. CASE \E f \in Flows : (\E h \in Hosts : Start(f, h)) \/ Connect(f) \/ Resolve(f) \/ Dial(f)
  BY <1>2, BeginInv, ConnectInv, ResolveInv, DialInv
<1>3. CASE \E f \in Flows : Establish(f) \/ Fail(f) \/ Respond(f)
  BY <1>3, EstablishInv, FailInv, RespondInv
<1>4. CASE \E f \in Flows : Abandon(f) \/ \E g \in Flows : Pooled(f, g)
  BY <1>4, RequestInv
<1> QED BY <1>1, <1>2, <1>3, <1>4, TickInv DEF TimingsNext

LEMMA ChargedToOpener == TimingsInv => HandshakeOfItsOpener
BY DEF TimingsInv, Charged, ChargedRight, LoggedBefore, Sole, OwnIfAlone, HandshakeOfItsOpener

LEMMA TimedPhases == TimingsInv => PhasesAddUp
<1> SUFFICES ASSUME TimingsInv, NEW n \in DOMAIN samples
             PROVE  LET s == samples[n]
                        c == conn[s.of]
                    IN /\ s.connect \in Nat
                       /\ s.at + Resolving(s.dns) + s.connect = c.split
                       /\ s.dns # None <=> ~request[s.of].host.literal
                       /\ s.tls # None <=> request[s.of].host.tls
  BY DEF PhasesAddUp
<1> DEFINE f == logged[n].of
<1>1. n \in DOMAIN logged /\ logged[n] \in Entries
  BY DEF TimingsInv, TimingTypes
<1>2. /\ f \in Flows /\ conn[f].stage = "open"
      /\ samples[n].of = f /\ samples[n].at = conn[f].at /\ samples[n].dns = conn[f].dns
      /\ samples[n].connect = conn[f].tcp - Resolving(conn[f].dns)
      /\ IF request[f].host.tls THEN samples[n].tls \in Nat ELSE samples[n].tls = None
  BY <1>1 DEF TimingsInv, LogIsTrue, Entries
<1> DEFINE dns == Resolving(conn[f].dns)
<1>3. /\ conn[f].at \in Nat /\ dns \in Nat /\ conn[f].tcp \in Int
      /\ dns <= conn[f].tcp /\ conn[f].split = conn[f].at + conn[f].tcp
      /\ IF request[f].host.literal THEN conn[f].dns = None ELSE conn[f].dns \in Nat
  BY <1>2 DEF TimingsInv, TimingTypes, Connects, Phases, Timed, Resolving
<1>4. request[f].host.tls \in BOOLEAN /\ request[f].host.literal \in BOOLEAN
  <2>1. request[f].host \in Hosts \union {Nowhere}
    BY <1>2 DEF TimingsInv, TimingTypes, Requests
  <2>2. Nowhere.tls \in BOOLEAN /\ Nowhere.literal \in BOOLEAN
    BY DEF Nowhere
  <2> QED BY <2>1, <2>2, TimingsAssumption
<1> HIDE DEF f
<1>5. /\ samples[n].tls # None <=> request[f].host.tls
      /\ samples[n].dns # None <=> ~request[f].host.literal
  BY <1>2, <1>3, <1>4 DEF None
<1>6. samples[n].connect \in Nat /\ samples[n].at + dns + samples[n].connect = conn[f].split
  <2> HIDE DEF dns
  <2>1. samples[n].connect = conn[f].tcp - dns
    BY <1>2 DEF dns
  <2> QED BY <1>2, <1>3, <2>1
<1> QED BY <1>2, <1>5, <1>6

(* However many connects run, fail and are abandoned beside each other, a  *)
(* handshake is charged once, to the flow that opened the connection if    *)
(* that flow was alone at its host (timing.rs record and claim).           *)
THEOREM ChargedOnce == TimingsSpec => []HandshakeOfItsOpener
<1>1. TimingsSpec => []TimingsInv
  BY TimingsInitInv, TimingsNextInv, PTL DEF TimingsSpec
<1> QED BY <1>1, ChargedToOpener, PTL

(* The phases a sample reports are those of its own connect, and follow    *)
(* one another, whatever other connects resolve, dial and shake hands in   *)
(* between (timing.rs PARTIAL, split_phases).                              *)
THEOREM PhasesAreOwn == TimingsSpec => []PhasesAddUp
<1>1. TimingsSpec => []TimingsInv
  BY TimingsInitInv, TimingsNextInv, PTL DEF TimingsSpec
<1> QED BY <1>1, TimedPhases, PTL
=============================================================================
