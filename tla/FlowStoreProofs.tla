-------------------------- MODULE FlowStoreProofs --------------------------
(***************************************************************************)
(* What holds of the flow store, of the report kept of it, and of what     *)
(* the report says, for every window, every set of ids, any number of      *)
(* callers and readers, and any traffic.                                   *)
(***************************************************************************)
EXTENDS Insights, Analysis, SequenceTheorems, FiniteSetTheorems, NaturalsInduction,
        WellFoundedInduction, TLAPS

(* No id twice. *)
Distinct(q) == \A i, j \in 1..Len(q) : q[i] = q[j] => i = j

(* The ids of a queue, by its places. *)
LEMMA ToSetPlaces ==
  ASSUME NEW q \in Seq(Ids)
  PROVE  ToSet(q) = {q[i] : i \in 1..Len(q)} /\ ToSet(q) \subseteq Ids
BY DEF ToSet

(* Queueing an id makes it the newest, or changes nothing. *)
LEMMA QueuedFacts ==
  ASSUME order \in Seq(Ids), Distinct(order), Len(order) <= MaxFlows,
         ToSet(order) = DOMAIN flows, NEW id \in Ids
  PROVE  LET q == Queued(id)
         IN /\ q \in Seq(Ids)
            /\ Len(q) \in Nat
            /\ Distinct(q)
            /\ ToSet(q) = DOMAIN flows \union {id}
            /\ Len(q) <= MaxFlows + 1
            /\ Len(order) <= Len(q)
            /\ \A i \in 1..Len(order) : q[i] = order[i]
<1> USE StoreAssumption
<1> DEFINE q == Queued(id)
<1>1. CASE id \in DOMAIN flows
  BY <1>1 DEF Queued
<1>2. CASE id \notin DOMAIN flows
  <2>1. q = Append(order, id)
    BY <1>2 DEF Queued
  <2>2. q \in Seq(Ids) /\ Len(q) = Len(order) + 1 /\ Len(order) \in Nat
    BY <2>1
  <2>3. \A i \in 1..Len(order) : q[i] = order[i]
    BY <2>1
  <2>4. q[Len(order) + 1] = id
    BY <2>1
  <2>5. ToSet(q) = DOMAIN flows \union {id}
    BY <2>2, <2>3, <2>4, ToSetPlaces
  <2>6. \A i \in 1..Len(order) : order[i] # id
    BY <1>2, ToSetPlaces
  <2>7. Distinct(q)
    BY <2>2, <2>3, <2>4, <2>6 DEF Distinct
  <2> QED BY <2>2, <2>3, <2>5, <2>7
<1> QED BY <1>1, <1>2

(* Eviction takes a prefix off the queue. *)
LEMMA KeptFacts ==
  ASSUME NEW q \in Seq(Ids), Distinct(q)
  PROVE  /\ Excess(q) \in 0..Len(q)
         /\ Kept(q) \in Seq(Ids)
         /\ Len(Kept(q)) = Len(q) - Excess(q)
         /\ Len(Kept(q)) <= MaxFlows
         /\ \A i \in 1..Len(Kept(q)) : Kept(q)[i] = q[i + Excess(q)]
         /\ Distinct(Kept(q))
         /\ ToSet(Kept(q)) = ToSet(q) \ Evicted(q)
         /\ Evicted(q) \subseteq Ids
<1> USE StoreAssumption
<1>1. Len(q) \in Nat /\ Excess(q) \in 0..Len(q) /\ Len(q) - Excess(q) <= MaxFlows
  BY DEF Excess
<1>2. Kept(q) \in Seq(Ids) /\ Len(Kept(q)) = Len(q) - Excess(q)
  BY <1>1 DEF Kept
<1>3. \A i \in 1..Len(Kept(q)) : Kept(q)[i] = q[i + Excess(q)]
  BY <1>1, <1>2 DEF Kept
<1>4. Distinct(Kept(q))
  <2> SUFFICES ASSUME NEW i \in 1..Len(Kept(q)), NEW j \in 1..Len(Kept(q)),
                      Kept(q)[i] = Kept(q)[j]
               PROVE  i = j
    BY DEF Distinct
  <2>1. i + Excess(q) \in 1..Len(q) /\ j + Excess(q) \in 1..Len(q)
    BY <1>1, <1>2
  <2>2. q[i + Excess(q)] = q[j + Excess(q)]
    BY <1>3
  <2>3. i + Excess(q) = j + Excess(q)
    BY <2>1, <2>2 DEF Distinct
  <2> QED BY <1>1, <1>2, <2>3
<1>5. ToSet(Kept(q)) = ToSet(q) \ Evicted(q)
  <2>1. ASSUME NEW x \in ToSet(Kept(q))
        PROVE  x \in ToSet(q) \ Evicted(q)
    <3>1. PICK i \in 1..Len(Kept(q)) : x = q[i + Excess(q)]
      BY <1>2, <1>3, ToSetPlaces
    <3>2. i + Excess(q) \in 1..Len(q)
      BY <1>1, <1>2
    <3>3. \A j \in 1..Excess(q) : q[j] # x
      BY <1>1, <3>1, <3>2 DEF Distinct
    <3> QED BY <3>1, <3>2, <3>3, ToSetPlaces DEF Evicted
  <2>2. ASSUME NEW x \in ToSet(q) \ Evicted(q)
        PROVE  x \in ToSet(Kept(q))
    <3>1. PICK i \in 1..Len(q) : x = q[i]
      BY ToSetPlaces
    <3>2. i \notin 1..Excess(q)
      BY <3>1 DEF Evicted
    <3>3. i - Excess(q) \in 1..Len(Kept(q)) /\ (i - Excess(q)) + Excess(q) = i
      BY <1>1, <1>2, <3>2
    <3>4. Kept(q)[i - Excess(q)] = x
      BY <1>3, <3>1, <3>3
    <3> QED BY <1>2, <3>3, <3>4, ToSetPlaces
  <2> QED BY <2>1, <2>2
<1>6. Evicted(q) \subseteq Ids
  BY <1>1 DEF Evicted
<1> QED BY <1>1, <1>2, <1>3, <1>4, <1>5, <1>6

------------------------------------------------------------------------------
Inv == TypeOK /\ QueueMatchesMap

(* What the invariant says of the queue, in the form the lemmas use. *)
LEMMA InvQueue ==
  ASSUME Inv
  PROVE  /\ order \in Seq(Ids) /\ Distinct(order)
         /\ Len(order) \in Nat /\ Len(order) <= MaxFlows
         /\ ToSet(order) = DOMAIN flows /\ DOMAIN flows \subseteq Ids
BY ToSetPlaces DEF Inv, TypeOK, QueueMatchesMap, Distinct

LEMMA InitInv == Init => Inv
<1> SUFFICES ASSUME Init PROVE Inv
  OBVIOUS
<1> USE StoreAssumption DEF Init
<1>1. order \in Seq(Ids) /\ Len(order) = 0 /\ ToSet(order) = {}
  BY DEF ToSet
<1>2. flows \in [ToSet(order) -> Sizes] /\ DOMAIN flows = {}
  BY <1>1
<1>3. TypeOK
  BY <1>1, <1>2 DEF TypeOK
<1>4. QueueMatchesMap
  BY <1>1, <1>2 DEF QueueMatchesMap
<1> QED BY <1>3, <1>4 DEF Inv

(* What the locked section of insert leaves behind. *)
LEMMA StoreFlowFacts ==
  ASSUME Inv, NEW c \in Callers, StoreFlow(c)
  PROVE  LET q == Queued(arg[c].id)
         IN /\ arg[c] \in Flow
            /\ q \in Seq(Ids) /\ Distinct(q)
            /\ order' = Kept(q)
            /\ DOMAIN flows' = ToSet(order')
            /\ DOMAIN flows' = (DOMAIN flows \union {arg[c].id}) \ Evicted(q)
            /\ \A i \in DOMAIN flows' :
                 flows'[i] = IF i = arg[c].id THEN arg[c].size ELSE flows[i]
            /\ gone'[c] = Evicted(q)
<1> DEFINE q == Queued(arg[c].id)
<1>1. arg[c] \in Flow /\ arg[c].id \in Ids
  BY DEF Inv, TypeOK, StoreFlow, Flow
<1>2. q \in Seq(Ids) /\ Distinct(q) /\ ToSet(q) = DOMAIN flows \union {arg[c].id}
  BY <1>1, InvQueue, QueuedFacts
<1>3. order' = Kept(q) /\ flows' = Without(With(arg[c]), Evicted(q))
  BY DEF StoreFlow
<1>4. gone'[c] = Evicted(q)
  BY DEF StoreFlow, Inv, TypeOK
<1>5. ToSet(order') = ToSet(q) \ Evicted(q)
  BY <1>2, <1>3, KeptFacts
<1>6. DOMAIN flows' = (DOMAIN flows \union {arg[c].id}) \ Evicted(q)
  BY <1>3 DEF With, Without
<1>7. \A i \in DOMAIN flows' : flows'[i] = IF i = arg[c].id THEN arg[c].size ELSE flows[i]
  BY <1>3 DEF With, Without
<1> QED BY <1>1, <1>2, <1>3, <1>4, <1>5, <1>6, <1>7

LEMMA NextInv == Inv /\ [Next]_storeVars => Inv'
<1> SUFFICES ASSUME Inv, [Next]_storeVars PROVE Inv'
  OBVIOUS
<1> USE StoreAssumption
<1>1. ASSUME NEW c \in Callers, NEW f \in Flow, BeginInsert(c, f)
      PROVE  Inv'
  <2>1. TypeOK'
    BY <1>1 DEF BeginInsert, Inv, TypeOK
  <2>2. QueueMatchesMap'
    BY <1>1 DEF BeginInsert, Inv, QueueMatchesMap
  <2> QED BY <2>1, <2>2 DEF Inv
<1>2. ASSUME NEW c \in Callers, NEW f \in Flow, Update(c, f)
      PROVE  Inv'
  <2>1. DOMAIN flows' = DOMAIN flows
    BY <1>2 DEF Update
  <2>2. flows' \in [ToSet(order) -> Sizes]
    BY <1>2 DEF Update, Inv, TypeOK, Flow
  <2>3. TypeOK'
    BY <1>2, <2>2 DEF Update, Inv, TypeOK
  <2>4. QueueMatchesMap'
    BY <1>2, <2>1 DEF Update, Inv, QueueMatchesMap
  <2> QED BY <2>3, <2>4 DEF Inv
<1>3. ASSUME NEW c \in Callers, StoreFlow(c)
      PROVE  Inv'
  <2> DEFINE q == Queued(arg[c].id)
  <2>1. /\ arg[c] \in Flow /\ q \in Seq(Ids) /\ Distinct(q)
        /\ order' = Kept(q) /\ DOMAIN flows' = ToSet(order')
        /\ DOMAIN flows' = (DOMAIN flows \union {arg[c].id}) \ Evicted(q)
        /\ \A i \in DOMAIN flows' :
              flows'[i] = IF i = arg[c].id THEN arg[c].size ELSE flows[i]
        /\ gone'[c] = Evicted(q)
    BY <1>3, StoreFlowFacts
  <2>2. /\ order' \in Seq(Ids) /\ Distinct(order') /\ Len(order') <= MaxFlows
        /\ Evicted(q) \subseteq Ids
    BY <2>1, KeptFacts
  <2>3. flows' \in [ToSet(order') -> Sizes]
    <3>1. \A i \in DOMAIN flows' : flows'[i] \in Sizes
      BY <2>1 DEF Inv, TypeOK, Flow
    <3>2. flows' = [i \in DOMAIN flows' |-> flows'[i]]
      BY <1>3 DEF StoreFlow, Without
    <3> QED BY <2>1, <3>1, <3>2
  <2>4. TypeOK'
    BY <1>3, <2>2, <2>3 DEF StoreFlow, Inv, TypeOK
  <2>5. QueueMatchesMap'
    BY <2>1, <2>2 DEF QueueMatchesMap, Distinct
  <2> QED BY <2>4, <2>5 DEF Inv
<1>4. ASSUME NEW c \in Callers, NEW id \in gone[c], RemoveBodies(c, id)
      PROVE  Inv'
  <2>1. TypeOK'
    BY <1>4 DEF RemoveBodies, Inv, TypeOK
  <2>2. QueueMatchesMap'
    BY <1>4 DEF RemoveBodies, Inv, QueueMatchesMap
  <2> QED BY <2>1, <2>2 DEF Inv
<1>5. ASSUME NEW c \in Callers, Return(c)
      PROVE  Inv'
  <2>1. TypeOK'
    BY <1>5 DEF Return, Inv, TypeOK
  <2>2. QueueMatchesMap'
    BY <1>5 DEF Return, Inv, QueueMatchesMap
  <2> QED BY <2>1, <2>2 DEF Inv
<1>6. ASSUME NEW c \in Callers, Clear(c)
      PROVE  Inv'
  <2>1. order' \in Seq(Ids) /\ Len(order') = 0 /\ ToSet(order') = {}
    BY <1>6 DEF Clear, ToSet
  <2>2. flows' \in [ToSet(order') -> Sizes] /\ DOMAIN flows' = {}
    BY <1>6, <2>1 DEF Clear
  <2>3. DOMAIN flows \subseteq Ids
    BY InvQueue
  <2>4. TypeOK'
    BY <1>6, <2>1, <2>2, <2>3 DEF Clear, Inv, TypeOK
  <2>5. QueueMatchesMap'
    BY <2>1, <2>2 DEF QueueMatchesMap
  <2> QED BY <2>4, <2>5 DEF Inv
<1>7. CASE UNCHANGED storeVars
  BY <1>7 DEF storeVars, Inv, TypeOK, QueueMatchesMap
<1> QED BY <1>1, <1>2, <1>3, <1>4, <1>5, <1>6, <1>7 DEF Next

LEMMA SpecInv == Spec => []Inv
BY InitInv, NextInv, PTL DEF Spec

(* The store's variables keep their types. *)
THEOREM StoreTypes == Spec => []TypeOK
<1>1. Inv => TypeOK
  BY DEF Inv
<1> QED BY <1>1, SpecInv, PTL

(* The map and the queue hold the same flows, each once and no more than   *)
(* the window, between any two locked sections of any number of callers.   *)
THEOREM StoreConsistent == Spec => []QueueMatchesMap
<1>1. Inv => QueueMatchesMap
  BY DEF Inv
<1> QED BY <1>1, SpecInv, PTL

------------------------------------------------------------------------------
(* Sums over finite sets.                                                  *)

(* The least of a set of numbers, for arguments by a first counterexample. *)
LEMMA Smallest ==
  ASSUME NEW S \in SUBSET Nat, S # {}
  PROVE  \E n \in S : \A m \in S : n <= m
<1>1. PICK n \in S : \A m \in S : <<m, n>> \notin OpToRel(<, Nat)
  BY NatLessThanWellFounded, WFMin
<1>2. \A m \in S : ~ (m < n)
  BY <1>1 DEF OpToRel
<1> QED BY <1>2

(* Of the finite sets in a set of sets, one with the fewest elements.      *)
LEMMA Fewest ==
  ASSUME NEW Sets, Sets # {}, \A T \in Sets : IsFiniteSet(T)
  PROVE  \E T \in Sets : \A U \in Sets : Cardinality(T) <= Cardinality(U)
<1> DEFINE sizes == {Cardinality(T) : T \in Sets}
<1>1. sizes \in SUBSET Nat /\ sizes # {}
  BY FS_CardinalityType
<1>2. PICK n \in sizes : \A m \in sizes : n <= m
  <2> HIDE DEF sizes
  <2> QED BY <1>1, Smallest
<1> QED BY <1>2

LEMMA Removed ==
  ASSUME NEW T, IsFiniteSet(T), NEW x \in T
  PROVE  /\ IsFiniteSet(T \ {x})
         /\ Cardinality(T) \in Nat /\ Cardinality(T \ {x}) \in Nat
         /\ Cardinality(T \ {x}) = Cardinality(T) - 1
         /\ ~ (Cardinality(T) <= Cardinality(T \ {x}))
<1>1. /\ IsFiniteSet(T \ {x}) /\ Cardinality(T \ {x}) = Cardinality(T) - 1
  BY FS_RemoveElement
<1>2. Cardinality(T) \in Nat /\ Cardinality(T \ {x}) \in Nat
  BY <1>1, FS_CardinalityType
<1> QED BY <1>1, <1>2

Some(T) == CHOOSE x \in T : TRUE

(* A sum over each of some sets, with one element taken out at a time.     *)
Sums(sum, f, Sets) ==
  sum = [T \in Sets |-> IF T = {} THEN 0 ELSE f[Some(T)] + sum[T \ {Some(T)}]]

LEMMA SomeIn == ASSUME NEW T, T # {} PROVE Some(T) \in T
BY DEF Some

LEMMA BytesIsSum ==
  ASSUME NEW f, NEW S, S \subseteq DOMAIN f
  PROVE  Bytes(f, S) = (CHOOSE sum : Sums(sum, f, SUBSET S))[S]
<1>1. S \intersect DOMAIN f = S
  OBVIOUS
<1> QED BY <1>1 DEF Bytes, MapThenSumSet, MapThenFoldSet, Sums, Some

AtMost(S, n) == {T \in SUBSET S : Cardinality(T) <= n}

LEMMA SumsExist ==
  ASSUME NEW f, NEW S, IsFiniteSet(S)
  PROVE  \E sum : Sums(sum, f, SUBSET S)
<1> DEFINE bad == {n \in Nat : ~ \E sum : Sums(sum, f, AtMost(S, n))}
<1>0. \A T \in SUBSET S : IsFiniteSet(T) /\ Cardinality(T) \in Nat /\ Cardinality(T) <= Cardinality(S)
  BY FS_Subset, FS_CardinalityType
<1>1. ASSUME bad # {} PROVE FALSE
  <2>1. PICK n \in bad : \A m \in bad : n <= m
    <3>1. bad \in SUBSET Nat
      OBVIOUS
    <3> HIDE DEF bad
    <3> QED BY <1>1, <3>1, Smallest
  <2>2. n \in Nat /\ ~ \E sum : Sums(sum, f, AtMost(S, n))
    OBVIOUS
  <2>3. n # 0
    <3> SUFFICES ASSUME n = 0 PROVE FALSE
      OBVIOUS
    <3> DEFINE sum == [T \in AtMost(S, n) |-> 0]
    <3>1. \A T \in AtMost(S, n) : T = {}
      <4> SUFFICES ASSUME NEW T \in AtMost(S, n) PROVE T = {}
        OBVIOUS
      <4>1. IsFiniteSet(T) /\ Cardinality(T) = 0
        BY <1>0 DEF AtMost
      <4> QED BY <4>1, FS_EmptySet
    <3>2. sum = [T \in AtMost(S, n) |-> IF T = {} THEN 0 ELSE f[Some(T)] + sum[T \ {Some(T)}]]
      BY <3>1
    <3> HIDE DEF sum
    <3>3. Sums(sum, f, AtMost(S, n))
      BY <3>2 DEF Sums
    <3> QED BY <2>2, <3>3
  <2>4. n - 1 \in Nat /\ n - 1 \notin bad
    <3>1. n - 1 \in Nat /\ ~ (n <= n - 1)
      BY <2>2, <2>3
    <3> HIDE DEF bad
    <3> QED BY <2>1, <3>1
  <2>5. PICK sum : Sums(sum, f, AtMost(S, n - 1))
    BY <2>4
  <2> DEFINE more == [T \in AtMost(S, n) |-> IF T = {} THEN 0 ELSE f[Some(T)] + sum[T \ {Some(T)}]]
  <2>6. \A T \in AtMost(S, n - 1) : more[T] = sum[T]
    <3> SUFFICES ASSUME NEW T \in AtMost(S, n - 1) PROVE more[T] = sum[T]
      OBVIOUS
    <3>1. T \in AtMost(S, n)
      BY <1>0, <2>2 DEF AtMost
    <3>2. sum[T] = IF T = {} THEN 0 ELSE f[Some(T)] + sum[T \ {Some(T)}]
      BY <2>5 DEF Sums
    <3> QED BY <3>1, <3>2
  <2>7. \A T \in AtMost(S, n) : T # {} => T \ {Some(T)} \in AtMost(S, n - 1)
    <3> SUFFICES ASSUME NEW T \in AtMost(S, n), T # {}
                 PROVE  T \ {Some(T)} \in AtMost(S, n - 1)
      OBVIOUS
    <3>1. T \in SUBSET S /\ IsFiniteSet(T) /\ Cardinality(T) <= n /\ Some(T) \in T
      BY <1>0, SomeIn DEF AtMost
    <3>2. /\ Cardinality(T) \in Nat /\ Cardinality(T \ {Some(T)}) = Cardinality(T) - 1
      BY <3>1, Removed
    <3>3. Cardinality(T \ {Some(T)}) <= n - 1
      BY <2>2, <3>1, <3>2
    <3> QED BY <3>1, <3>3 DEF AtMost
  <2>8. \A T \in AtMost(S, n) : more[T] = IF T = {} THEN 0 ELSE f[Some(T)] + more[T \ {Some(T)}]
    <3> SUFFICES ASSUME NEW T \in AtMost(S, n)
                 PROVE  more[T] = IF T = {} THEN 0 ELSE f[Some(T)] + more[T \ {Some(T)}]
      OBVIOUS
    <3>1. more[T] = IF T = {} THEN 0 ELSE f[Some(T)] + sum[T \ {Some(T)}]
      OBVIOUS
    <3>2. T # {} => more[T \ {Some(T)}] = sum[T \ {Some(T)}]
      BY <2>6, <2>7
    <3> HIDE DEF more
    <3> QED BY <3>1, <3>2
  <2>9. more = [T \in AtMost(S, n) |-> more[T]]
    OBVIOUS
  <2> HIDE DEF more
  <2>10. more = [T \in AtMost(S, n) |-> IF T = {} THEN 0 ELSE f[Some(T)] + more[T \ {Some(T)}]]
    BY <2>8, <2>9
  <2>11. Sums(more, f, AtMost(S, n))
    BY <2>10 DEF Sums
  <2> QED BY <2>2, <2>11
<1>2. Cardinality(S) \in Nat /\ AtMost(S, Cardinality(S)) = SUBSET S
  BY <1>0, FS_CardinalityType DEF AtMost
<1>3. Cardinality(S) \notin bad
  BY <1>1
<1>4. \E sum : Sums(sum, f, AtMost(S, Cardinality(S)))
  BY <1>2, <1>3
<1> QED BY ONLY <1>2, <1>4

(* Two sums of the same numbers are the same. *)
LEMMA SumsAgree ==
  ASSUME NEW f, NEW g, NEW S, NEW R, NEW sum, NEW same,
         Sums(sum, f, SUBSET S), Sums(same, g, SUBSET R),
         NEW U, IsFiniteSet(U), U \subseteq S, U \subseteq R, \A x \in U : f[x] = g[x]
  PROVE  sum[U] = same[U]
<1> DEFINE bad == {T \in SUBSET U : sum[T] # same[T]}
<1>1. ASSUME bad # {} PROVE FALSE
  <2>1. \A T \in bad : IsFiniteSet(T)
    BY FS_Subset
  <2>2. PICK T \in bad : \A V \in bad : Cardinality(T) <= Cardinality(V)
    <3> HIDE DEF bad
    <3> QED BY <1>1, <2>1, Fewest
  <2>3. T \in SUBSET U /\ sum[T] # same[T] /\ T \in SUBSET S /\ T \in SUBSET R
    OBVIOUS
  <2>4. T # {}
    BY <2>3 DEF Sums
  <2>5. Some(T) \in T /\ IsFiniteSet(T)
    BY <2>1, <2>4, SomeIn
  <2> DEFINE rest == T \ {Some(T)}
  <2>6. ~ (Cardinality(T) <= Cardinality(rest)) /\ rest \in SUBSET U
    BY <2>3, <2>5, Removed
  <2>7. sum[rest] = same[rest]
    <3>1. rest \notin bad
      <4> HIDE DEF bad, rest
      <4> QED BY <2>2, <2>6
    <3> HIDE DEF rest
    <3> QED BY <2>6, <3>1
  <2>8. sum[T] = f[Some(T)] + sum[rest] /\ same[T] = g[Some(T)] + same[rest]
    BY <2>3, <2>4 DEF Sums
  <2> QED BY <2>3, <2>5, <2>7, <2>8
<1> QED BY <1>1

(* It does not matter which element is taken out first. *)
TakesAny(sum, f, U) == sum[U] \in Nat /\ \A x \in U : sum[U] = f[x] + sum[U \ {x}]

LEMMA SumsTakeAny ==
  ASSUME NEW f, NEW S, IsFiniteSet(S), \A x \in S : f[x] \in Nat,
         NEW sum, Sums(sum, f, SUBSET S)
  PROVE  \A U \in SUBSET S : TakesAny(sum, f, U)
<1> DEFINE Good(T) == sum[T] \in Nat /\ \A x \in T : sum[T] = f[x] + sum[T \ {x}]
           bad == {T \in SUBSET S : ~Good(T)}
<1>1. ASSUME bad # {} PROVE FALSE
  <2>1. \A T \in bad : IsFiniteSet(T)
    BY FS_Subset
  <2>2. PICK T \in bad : \A V \in bad : Cardinality(T) <= Cardinality(V)
    <3> HIDE DEF bad
    <3> QED BY <1>1, <2>1, Fewest
  <2>3. T \in SUBSET S /\ ~Good(T) /\ IsFiniteSet(T)
    BY <2>1
  <2>4. \A x \in T : T \ {x} \in SUBSET S /\ Good(T \ {x})
    <3> SUFFICES ASSUME NEW x \in T PROVE T \ {x} \in SUBSET S /\ Good(T \ {x})
      OBVIOUS
    <3>1. ~ (Cardinality(T) <= Cardinality(T \ {x})) /\ T \ {x} \in SUBSET S
      BY <2>3, Removed
    <3>2. T \ {x} \notin bad
      <4> HIDE DEF bad
      <4> QED BY <2>2, <3>1
    <3> HIDE DEF Good
    <3> QED BY <3>1, <3>2
  <2>5. T # {}
    <3>1. T = {} => sum[T] = 0
      BY <2>3 DEF Sums
    <3> QED BY <2>3, <3>1
  <2> DEFINE y == Some(T)
  <2>6. y \in T
    BY <2>5, SomeIn
  <2>7. sum[T] = f[y] + sum[T \ {y}]
    BY <2>3, <2>5 DEF Sums
  <2> HIDE DEF y
  <2>8. sum[T \ {y}] \in Nat /\ f[y] \in Nat
    BY <2>3, <2>4, <2>6
  <2>9. ASSUME NEW x \in T PROVE sum[T] = f[x] + sum[T \ {x}]
    <3>1. CASE x = y
      BY <2>7, <3>1
    <3>2. CASE x # y
      <4> DEFINE rest == (T \ {x}) \ {y}
      <4>1. rest = (T \ {y}) \ {x}
        OBVIOUS
      <4>2. x \in T \ {y} /\ y \in T \ {x}
        BY <2>6, <3>2
      <4>3. sum[T \ {y}] = f[x] + sum[rest]
        <5>1. sum[T \ {y}] = f[x] + sum[(T \ {y}) \ {x}]
          BY <2>4, <2>6, <4>2
        <5> HIDE DEF rest
        <5> QED BY <4>1, <5>1
      <4>4. sum[T \ {x}] = f[y] + sum[rest]
        BY <2>4, <4>2
      <4>5. sum[rest] \in Nat
        <5>1. rest \in SUBSET S /\ ~ (Cardinality(T) <= Cardinality(rest))
          <6>1. Good(T \ {x}) /\ IsFiniteSet(T \ {x})
            BY <2>3, <2>4, Removed
          <6>2. /\ Cardinality(T) \in Nat /\ Cardinality(rest) \in Nat
                /\ Cardinality(T \ {x}) = Cardinality(T) - 1
                /\ Cardinality(rest) = Cardinality(T \ {x}) - 1
            BY <2>3, <4>2, <6>1, Removed
          <6> HIDE DEF Good
          <6>3. ~ (Cardinality(T) <= Cardinality(rest))
            <7> HIDE DEF rest
            <7> QED BY ONLY <6>2
          <6> QED BY <2>3, <6>3
        <5>2. rest \notin bad
          <6> HIDE DEF bad, rest
          <6> QED BY <2>2, <5>1
        <5> HIDE DEF rest
        <5> QED BY <5>1, <5>2
      <4>6. f[x] \in Nat
        BY <2>3
      <4> HIDE DEF rest
      <4> QED BY ONLY <2>7, <2>8, <4>3, <4>4, <4>5, <4>6
    <3> QED BY <3>1, <3>2
  <2>10. sum[T] \in Nat
    BY ONLY <2>7, <2>8
  <2> QED BY <2>3, <2>9, <2>10
<1> QED BY <1>1 DEF TakesAny

(* The bytes of a finite set of flows. *)
Finite(f) == IsFiniteSet(DOMAIN f) /\ \A i \in DOMAIN f : f[i] \in Nat

LEMMA BytesTaken ==
  ASSUME NEW f, Finite(f), NEW S \in SUBSET DOMAIN f
  PROVE  /\ Bytes(f, S) \in Nat
         /\ \A i \in S : Bytes(f, S) = f[i] + Bytes(f, S \ {i})
         /\ S = {} => Bytes(f, S) = 0
<1> DEFINE chosen(R) == CHOOSE sum : Sums(sum, f, SUBSET R)
<1>1. ASSUME NEW R \in SUBSET DOMAIN f
      PROVE  /\ Sums(chosen(R), f, SUBSET R) /\ Bytes(f, R) = chosen(R)[R]
             /\ IsFiniteSet(R) /\ \A x \in R : f[x] \in Nat
  <2>1. IsFiniteSet(R) /\ \A x \in R : f[x] \in Nat
    BY FS_Subset DEF Finite
  <2>2. \E sum : Sums(sum, f, SUBSET R)
    BY <2>1, SumsExist
  <2>3. Sums(chosen(R), f, SUBSET R)
    BY <2>2
  <2> QED BY <2>1, <2>3, BytesIsSum
<1> HIDE DEF chosen
<1>2. chosen(S)[S] \in Nat /\ \A i \in S : chosen(S)[S] = f[i] + chosen(S)[S \ {i}]
  <2>1. ASSUME NEW sum, Sums(sum, f, SUBSET S)
        PROVE  sum[S] \in Nat /\ \A i \in S : sum[S] = f[i] + sum[S \ {i}]
    <3>1. S \in SUBSET S /\ IsFiniteSet(S) /\ \A x \in S : f[x] \in Nat
      BY <1>1
    <3>2. TakesAny(sum, f, S)
      BY <2>1, <3>1, SumsTakeAny
    <3> QED BY <3>2 DEF TakesAny
  <2> QED BY <1>1, <2>1
<1>3. \A i \in S : Bytes(f, S \ {i}) = chosen(S)[S \ {i}]
  <2> SUFFICES ASSUME NEW i \in S PROVE Bytes(f, S \ {i}) = chosen(S)[S \ {i}]
    OBVIOUS
  <2> DEFINE R == S \ {i}
  <2>1. R \in SUBSET DOMAIN f /\ R \subseteq S /\ R \subseteq R
    OBVIOUS
  <2> HIDE DEF R
  <2>2. chosen(R)[R] = chosen(S)[R]
    <3>1. Sums(chosen(R), f, SUBSET R) /\ Sums(chosen(S), f, SUBSET S) /\ IsFiniteSet(R)
      BY <1>1, <2>1
    <3>2. \A x \in R : f[x] = f[x]
      OBVIOUS
    <3> QED BY ONLY <2>1, <3>1, <3>2, SumsAgree
  <2>3. Bytes(f, R) = chosen(S)[R]
    BY <1>1, <2>1, <2>2
  <2> QED BY <2>3 DEF R
<1>4. S = {} => chosen(S)[S] = 0
  BY <1>1 DEF Sums
<1> QED BY <1>1, <1>2, <1>3, <1>4

LEMMA BytesSame ==
  ASSUME NEW f, Finite(f), NEW g, Finite(g), NEW S,
         S \subseteq DOMAIN f, S \subseteq DOMAIN g, \A i \in S : f[i] = g[i]
  PROVE  Bytes(f, S) = Bytes(g, S)
<1>1. IsFiniteSet(S)
  BY FS_Subset DEF Finite
<1>2. /\ Sums(CHOOSE sum : Sums(sum, f, SUBSET S), f, SUBSET S)
      /\ Sums(CHOOSE sum : Sums(sum, g, SUBSET S), g, SUBSET S)
  BY <1>1, SumsExist
<1> DEFINE sum  == CHOOSE s : Sums(s, f, SUBSET S)
           same == CHOOSE s : Sums(s, g, SUBSET S)
<1>3. Bytes(f, S) = sum[S] /\ Bytes(g, S) = same[S]
  BY BytesIsSum
<1>4. Sums(sum, f, SUBSET S) /\ Sums(same, g, SUBSET S)
  BY <1>2
<1>5. S \subseteq S /\ \A i \in S : f[i] = g[i]
  OBVIOUS
<1> HIDE DEF sum, same
<1>6. sum[S] = same[S]
  BY ONLY <1>1, <1>4, <1>5, SumsAgree
<1> QED BY <1>3, <1>6

LEMMA BytesSplit ==
  ASSUME NEW f, Finite(f), NEW S \in SUBSET DOMAIN f, NEW out \in SUBSET S
  PROVE  Bytes(f, S) = Bytes(f, out) + Bytes(f, S \ out)
<1> DEFINE bad == {T \in SUBSET S : Bytes(f, S) # Bytes(f, T) + Bytes(f, S \ T)}
<1>1. ASSUME bad # {} PROVE FALSE
  <2>1. \A T \in bad : IsFiniteSet(T)
    BY FS_Subset DEF Finite
  <2>2. PICK T \in bad : \A V \in bad : Cardinality(T) <= Cardinality(V)
    <3> HIDE DEF bad
    <3> QED BY <1>1, <2>1, Fewest
  <2>3. T \in SUBSET S /\ Bytes(f, S) # Bytes(f, T) + Bytes(f, S \ T) /\ IsFiniteSet(T)
    BY <2>1
  <2>4. T # {}
    <3>1. S \ {} = S /\ Bytes(f, {}) = 0 /\ Bytes(f, S) \in Nat
      BY BytesTaken
    <3> QED BY <2>3, <3>1
  <2>5. PICK i \in T : TRUE
    BY <2>4
  <2> DEFINE R == T \ {i}
  <2>6. R \in SUBSET S /\ ~ (Cardinality(T) <= Cardinality(R))
    BY <2>3, Removed
  <2>7. Bytes(f, S) = Bytes(f, R) + Bytes(f, S \ R)
    <3>1. R \notin bad
      <4> HIDE DEF bad, R
      <4> QED BY <2>2, <2>6
    <3> HIDE DEF R
    <3> QED BY <2>6, <3>1
  <2>8. Bytes(f, T) = f[i] + Bytes(f, R)
    BY <2>3, BytesTaken
  <2>9. Bytes(f, S \ R) = f[i] + Bytes(f, S \ T)
    <3>1. S \ R \in SUBSET DOMAIN f /\ i \in S \ R /\ (S \ R) \ {i} = S \ T
      BY <2>3
    <3> HIDE DEF R
    <3> QED BY <3>1, BytesTaken
  <2>10. f[i] \in Nat /\ Bytes(f, R) \in Nat /\ Bytes(f, S \ T) \in Nat
    BY <2>3, <2>6, BytesTaken DEF Finite
  <2> QED BY ONLY <2>3, <2>7, <2>8, <2>9, <2>10
<1> QED BY <1>1

------------------------------------------------------------------------------
(* The bytes that are held.                                                *)

LEMMA QueueIsFinite ==
  ASSUME Inv, NEW id \in Ids
  PROVE  IsFiniteSet(DOMAIN flows) /\ IsFiniteSet(DOMAIN flows \union {id})
<1>1. /\ order \in Seq(Ids) /\ Len(order) \in Nat
      /\ DOMAIN flows = {order[i] : i \in 1..Len(order)}
  BY InvQueue, ToSetPlaces
<1> DEFINE place == [i \in 1..Len(order) |-> order[i]]
<1>2. place \in Surjection(1..Len(order), DOMAIN flows)
  <2>1. place \in [1..Len(order) -> DOMAIN flows]
    BY <1>1
  <2>2. \A x \in DOMAIN flows : \E i \in 1..Len(order) : place[i] = x
    BY <1>1
  <2> QED BY <2>1, <2>2 DEF Surjection
<1>3. IsFiniteSet(1..Len(order))
  BY <1>1, FS_Interval
<1>4. IsFiniteSet(DOMAIN flows)
  <2> HIDE DEF place
  <2> QED BY <1>2, <1>3, FS_Surjection
<1>5. IsFiniteSet({id})
  BY FS_Singleton
<1> QED BY <1>4, <1>5, FS_Union

LEMMA BytesOfOne ==
  ASSUME NEW f, Finite(f), NEW id
  PROVE  /\ Bytes(f, {id}) \in Nat /\ Bytes(f, DOMAIN f \ {id}) \in Nat
         /\ Bytes(f, DOMAIN f) = Bytes(f, {id}) + Bytes(f, DOMAIN f \ {id})
<1>1. CASE id \in DOMAIN f
  <2>1. {id} \in SUBSET DOMAIN f /\ DOMAIN f \ {id} \in SUBSET DOMAIN f
    BY <1>1
  <2> QED BY <2>1, BytesTaken, BytesSplit
<1>2. CASE id \notin DOMAIN f
  <2>1. DOMAIN f \ {id} = DOMAIN f /\ {id} \intersect DOMAIN f = {} /\ {} \intersect DOMAIN f = {}
    BY <1>2
  <2>2. Bytes(f, {id}) = Bytes(f, {})
    BY <2>1 DEF Bytes
  <2>3. Bytes(f, {}) = 0 /\ Bytes(f, DOMAIN f) \in Nat
    BY BytesTaken
  <2> QED BY <2>1, <2>2, <2>3
<1> QED BY <1>1, <1>2

LEMMA RetainedFinite == Inv => Finite(flows)
<1> SUFFICES ASSUME Inv PROVE Finite(flows)
  OBVIOUS
<1>1. \A i \in DOMAIN flows : flows[i] \in Nat
  BY StoreAssumption DEF Inv, TypeOK
<1>2. CASE Ids = {}
  <2>1. DOMAIN flows = {}
    BY <1>2, InvQueue
  <2> QED BY <1>1, <2>1, FS_EmptySet DEF Finite
<1>3. CASE Ids # {}
  BY <1>1, <1>3, QueueIsFinite DEF Finite
<1> QED BY <1>2, <1>3

LEMMA StoreFlowHeld ==
  ASSUME Inv, HeldIsWhatIsRetained, NEW c \in Callers, StoreFlow(c)
  PROVE  HeldIsWhatIsRetained'
<1> DEFINE id  == arg[c].id
           out == Evicted(Queued(id))
           all == With(arg[c])
<1>1. arg[c] \in Flow /\ id \in Ids /\ arg[c].size \in Nat
  BY StoreAssumption DEF Inv, TypeOK, StoreFlow, Flow
<1>2. /\ DOMAIN all = DOMAIN flows \union {id}
      /\ all[id] = arg[c].size
      /\ \A i \in DOMAIN flows \ {id} : all[i] = flows[i]
  BY DEF With
<1>3. out \subseteq DOMAIN all
  <2>1. LET q == Queued(id)
        IN q \in Seq(Ids) /\ Len(q) \in Nat /\ ToSet(q) = DOMAIN flows \union {id}
    BY <1>1, InvQueue, QueuedFacts
  <2>2. Excess(Queued(id)) <= Len(Queued(id)) /\ Excess(Queued(id)) \in Nat
    BY <2>1, StoreAssumption DEF Excess
  <2>3. \A i \in 1..Excess(Queued(id)) : Queued(id)[i] \in ToSet(Queued(id))
    BY <2>1, <2>2, ToSetPlaces
  <2> QED BY <1>2, <2>1, <2>3 DEF Evicted
<1>4. /\ flows' = Without(all, out)
      /\ held' = held + arg[c].size - Bytes(flows, {id}) - Bytes(all, out)
  BY DEF StoreFlow
<1> HIDE DEF id, out, all
<1>5. Finite(flows) /\ Finite(all)
  <2>1. \A i \in DOMAIN all : all[i] \in Nat
    <3>1. \A i \in DOMAIN flows : flows[i] \in Nat
      BY RetainedFinite DEF Finite
    <3> QED BY <1>1, <1>2, <3>1
  <2>2. IsFiniteSet(DOMAIN all)
    BY <1>1, <1>2, QueueIsFinite
  <2> QED BY <2>1, <2>2, RetainedFinite DEF Finite
<1>6. /\ DOMAIN flows' = DOMAIN all \ out
      /\ \A i \in DOMAIN flows' : flows'[i] = all[i]
  BY <1>4 DEF Without
<1>7. Bytes(flows, DOMAIN flows)' = Bytes(all, DOMAIN all \ out)
  <2>1. Finite(flows')
    <3>1. IsFiniteSet(DOMAIN flows')
      BY <1>5, <1>6, FS_Subset DEF Finite
    <3> QED BY <1>5, <1>6, <3>1 DEF Finite
  <2>2. Bytes(flows', DOMAIN flows') = Bytes(all, DOMAIN flows')
    BY <1>5, <1>6, <2>1, BytesSame
  <2> QED BY <1>6, <2>2
<1>8. Bytes(all, DOMAIN all) = Bytes(all, out) + Bytes(all, DOMAIN all \ out)
  BY <1>3, <1>5, BytesSplit
<1>9. Bytes(all, DOMAIN all) = arg[c].size + Bytes(all, DOMAIN all \ {id})
  BY <1>2, <1>5, BytesTaken
<1>10. Bytes(all, DOMAIN all \ {id}) = Bytes(flows, DOMAIN flows \ {id})
  <2>1. DOMAIN all \ {id} = DOMAIN flows \ {id}
    BY <1>2
  <2>2. DOMAIN flows \ {id} \subseteq DOMAIN all /\ DOMAIN flows \ {id} \subseteq DOMAIN flows
    BY <1>2
  <2> QED BY <1>2, <1>5, <2>1, <2>2, BytesSame
<1>11. /\ Bytes(flows, DOMAIN flows) = Bytes(flows, {id}) + Bytes(flows, DOMAIN flows \ {id})
       /\ Bytes(flows, {id}) \in Nat /\ Bytes(flows, DOMAIN flows \ {id}) \in Nat
  BY <1>5, BytesOfOne
<1>12. Bytes(all, out) \in Nat /\ Bytes(all, DOMAIN all \ out) \in Nat
  BY <1>3, <1>5, BytesTaken
<1>13. held = Bytes(flows, DOMAIN flows)
  BY DEF HeldIsWhatIsRetained
<1>14. held' = Bytes(all, DOMAIN all \ out)
  BY ONLY <1>1, <1>4, <1>8, <1>9, <1>10, <1>11, <1>12, <1>13
<1> QED BY <1>7, <1>14 DEF HeldIsWhatIsRetained

LEMMA UpdateHeld ==
  ASSUME Inv, HeldIsWhatIsRetained, NEW c \in Callers, NEW f \in Flow, Update(c, f)
  PROVE  HeldIsWhatIsRetained'
<1>1. /\ f.id \in DOMAIN flows /\ f.size \in Nat
      /\ flows' = [flows EXCEPT ![f.id] = f.size]
      /\ held' = held - flows[f.id] + f.size
  BY StoreAssumption DEF Update, Flow
<1>2. /\ DOMAIN flows' = DOMAIN flows /\ flows'[f.id] = f.size
      /\ \A i \in DOMAIN flows \ {f.id} : flows'[i] = flows[i]
  BY <1>1
<1>3. Finite(flows) /\ Finite(flows')
  <2>1. Finite(flows)
    BY RetainedFinite
  <2> QED BY <1>1, <1>2, <2>1 DEF Finite
<1> DEFINE rest == DOMAIN flows \ {f.id}
<1>4. rest \subseteq DOMAIN flows /\ rest \subseteq DOMAIN flows' /\ rest \in SUBSET DOMAIN flows
  BY <1>2
<1>5. Bytes(flows, DOMAIN flows) = flows[f.id] + Bytes(flows, rest)
  BY <1>1, <1>3, BytesTaken
<1>6. Bytes(flows', DOMAIN flows') = f.size + Bytes(flows', rest)
  <2>1. Bytes(flows', DOMAIN flows') = flows'[f.id] + Bytes(flows', DOMAIN flows' \ {f.id})
    <3>1. f.id \in DOMAIN flows' /\ DOMAIN flows' \in SUBSET DOMAIN flows'
      BY <1>1, <1>2
    <3> QED BY ONLY <1>3, <3>1, BytesTaken
  <2> QED BY <1>2, <2>1
<1>7. Bytes(flows', rest) = Bytes(flows, rest)
  <2>1. \A i \in rest : flows[i] = flows'[i]
    BY <1>2
  <2> HIDE DEF rest
  <2> QED BY <1>3, <1>4, <2>1, BytesSame
<1>8. Bytes(flows, rest) \in Nat /\ flows[f.id] \in Nat
  BY <1>1, <1>3, <1>4, BytesTaken DEF Finite
<1>9. held = Bytes(flows, DOMAIN flows)
  BY DEF HeldIsWhatIsRetained
<1> HIDE DEF rest
<1>10. held' = Bytes(flows', DOMAIN flows')
  BY ONLY <1>1, <1>5, <1>6, <1>7, <1>8, <1>9
<1> QED BY <1>10 DEF HeldIsWhatIsRetained

LEMMA NoneHeld == \A f : DOMAIN f = {} => Bytes(f, DOMAIN f) = 0
<1> SUFFICES ASSUME NEW f, DOMAIN f = {} PROVE Bytes(f, DOMAIN f) = 0
  OBVIOUS
<1>1. Finite(f)
  BY FS_EmptySet DEF Finite
<1> QED BY <1>1, BytesTaken

LEMMA HeldInv == Inv /\ HeldIsWhatIsRetained /\ [Next]_storeVars => HeldIsWhatIsRetained'
<1> SUFFICES ASSUME Inv, HeldIsWhatIsRetained, [Next]_storeVars PROVE HeldIsWhatIsRetained'
  OBVIOUS
<1>1. ASSUME UNCHANGED <<flows, held>> PROVE HeldIsWhatIsRetained'
  BY <1>1 DEF HeldIsWhatIsRetained
<1>2. ASSUME NEW c \in Callers,
             \/ \E f \in Flow : BeginInsert(c, f)
             \/ \E id \in gone[c] : RemoveBodies(c, id)
             \/ Return(c)
      PROVE  HeldIsWhatIsRetained'
  BY <1>1, <1>2 DEF BeginInsert, RemoveBodies, Return
<1>3. ASSUME NEW c \in Callers, Clear(c)
      PROVE  HeldIsWhatIsRetained'
  <2>1. DOMAIN flows' = {} /\ held' = 0
    BY <1>3 DEF Clear
  <2> QED BY <2>1, NoneHeld DEF HeldIsWhatIsRetained
<1>4. CASE UNCHANGED storeVars
  BY <1>1, <1>4 DEF storeVars
<1> QED BY <1>2, <1>3, <1>4, StoreFlowHeld, UpdateHeld DEF Next

(* The count of preview bytes is their sum over the retained flows, for    *)
(* every size and through any interleaving of inserts, repeated inserts,   *)
(* updates, evictions and clears (flowstore.rs insert, update, clear).     *)
THEOREM AccountsBalance == Spec => []HeldIsWhatIsRetained
<1>1. Init => HeldIsWhatIsRetained
  <2> SUFFICES ASSUME Init PROVE HeldIsWhatIsRetained
    OBVIOUS
  <2>1. DOMAIN flows = {} /\ held = 0
    BY DEF Init
  <2> QED BY <2>1, NoneHeld DEF HeldIsWhatIsRetained
<1>2. Init /\ [][Next]_storeVars /\ []Inv => []HeldIsWhatIsRetained
  BY <1>1, HeldInv, PTL
<1> QED BY <1>2, SpecInv, PTL DEF Spec

------------------------------------------------------------------------------
(* Which steps take a flow out of the map. *)
LEMMA KeepsFlows ==
  ASSUME Inv, NEW c \in Callers,
         \/ \E f \in Flow : BeginInsert(c, f) \/ Update(c, f)
         \/ \E id \in gone[c] : RemoveBodies(c, id)
         \/ Return(c)
  PROVE  DOMAIN flows' = DOMAIN flows
BY DEF BeginInsert, Update, RemoveBodies, Return

(* Age decides: a step that keeps a flow keeps every newer one. *)
THEOREM EvictionByAge == Spec => OldestGoesFirst
<1>1. ASSUME Inv, [Next]_storeVars PROVE [OlderGoFirst]_storeVars
  <2> SUFFICES ASSUME Next, NEW i \in DOMAIN order, NEW j \in DOMAIN order,
                      i < j, order[i] \in DOMAIN flows'
               PROVE  order[j] \in DOMAIN flows'
    BY <1>1 DEF OlderGoFirst
  <2>1. order[i] \in DOMAIN flows /\ order[j] \in DOMAIN flows
    BY <1>1, InvQueue, ToSetPlaces
  <2>2. PICK c \in Callers : \/ \E f \in Flow : BeginInsert(c, f) \/ Update(c, f)
                             \/ StoreFlow(c)
                             \/ \E id \in gone[c] : RemoveBodies(c, id)
                             \/ Return(c)
                             \/ Clear(c)
    BY DEF Next
  <2>3. CASE StoreFlow(c)
    <3> DEFINE q == Queued(arg[c].id)
    <3>1. /\ arg[c] \in Flow /\ q \in Seq(Ids) /\ Distinct(q)
          /\ DOMAIN flows' = (DOMAIN flows \union {arg[c].id}) \ Evicted(q)
      BY <1>1, <2>3, StoreFlowFacts
    <3>2. i \in 1..Len(order) /\ j \in 1..Len(order)
      BY <1>1, InvQueue
    <3>3. arg[c].id \in Ids
      BY <3>1 DEF Flow
    <3>4. /\ Len(order) <= Len(q) /\ Len(q) \in Nat /\ Len(order) \in Nat
          /\ \A k \in 1..Len(order) : q[k] = order[k]
      BY <1>1, <3>3, InvQueue, QueuedFacts
    <3>5. q[i] = order[i] /\ q[j] = order[j]
      BY <3>2, <3>4
    <3>6. Excess(q) \in 0..Len(q)
      BY <3>1, KeptFacts
    <3>7. i \notin 1..Excess(q)
      BY <3>1, <3>5 DEF Evicted
    <3>8. j \in 1..Len(q) /\ j \notin 1..Excess(q)
      BY <3>2, <3>6, <3>7, <3>4
    <3>9. q[j] \notin Evicted(q)
      BY <3>1, <3>6, <3>8 DEF Evicted, Distinct
    <3> QED BY <2>1, <3>1, <3>9, <3>5
  <2>4. CASE Clear(c)
    BY <2>4 DEF Clear
  <2> QED BY <1>1, <2>1, <2>2, <2>3, <2>4, KeepsFlows
<1> QED BY <1>1, SpecInv, PTL DEF Spec, OldestGoesFirst

(* Every way out of the map puts the flow's bodies on a list of deletions. *)
THEOREM NoBodyForgotten == Spec => LeavingBodiesAreListed
<1>1. ASSUME Inv, [Next]_storeVars PROVE [LeaversAreListed]_storeVars
  <2> SUFFICES ASSUME Next, NEW id \in DOMAIN flows \ DOMAIN flows'
               PROVE  \E c \in Callers : id \in gone'[c]
    BY <1>1 DEF LeaversAreListed
  <2>2. PICK c \in Callers : \/ \E f \in Flow : BeginInsert(c, f) \/ Update(c, f)
                             \/ StoreFlow(c)
                             \/ \E i \in gone[c] : RemoveBodies(c, i)
                             \/ Return(c)
                             \/ Clear(c)
    BY DEF Next
  <2>3. CASE StoreFlow(c)
    <3>1. /\ DOMAIN flows' = (DOMAIN flows \union {arg[c].id}) \ Evicted(Queued(arg[c].id))
          /\ gone'[c] = Evicted(Queued(arg[c].id))
      BY <1>1, <2>3, StoreFlowFacts
    <3> QED BY <3>1
  <2>4. CASE Clear(c)
    BY <1>1, <2>4 DEF Clear, Inv, TypeOK
  <2> QED BY <1>1, <2>2, <2>3, <2>4, KeepsFlows
<1> QED BY <1>1, SpecInv, PTL DEF Spec, LeavingBodiesAreListed

------------------------------------------------------------------------------
(* The store implements the retention window. *)

LEMMA ShellsFacts ==
  ASSUME Inv
  PROVE  /\ Shells \in Seq([id : Ids, data : Sizes])
         /\ Len(Shells) = Len(order) /\ DOMAIN Shells = 1..Len(order)
         /\ \A i \in 1..Len(order) : Shells[i] = [id |-> order[i], data |-> flows[order[i]]]
         /\ Log!Logged = DOMAIN flows
<1>1. order \in Seq(Ids) /\ Len(order) \in Nat /\ DOMAIN order = 1..Len(order)
  BY InvQueue
<1>2. \A i \in 1..Len(order) : order[i] \in DOMAIN flows /\ flows[order[i]] \in Sizes
  BY <1>1, InvQueue, ToSetPlaces DEF Inv, TypeOK
<1>3. Shells = [i \in 1..Len(order) |-> [id |-> order[i], data |-> flows[order[i]]]]
  BY <1>1 DEF Shells
<1>4. \A i \in 1..Len(order) : [id |-> order[i], data |-> flows[order[i]]]
                                 \in [id : Ids, data : Sizes]
  BY <1>1, <1>2
<1>5. Shells \in Seq([id : Ids, data : Sizes]) /\ Len(Shells) = Len(order)
  BY <1>1, <1>3, <1>4
<1>6. Log!Logged = DOMAIN flows
  <2>1. Log!Logged = {order[i] : i \in 1..Len(order)}
    BY <1>1, <1>3 DEF Log!Logged
  <2> QED BY <2>1, <1>1, InvQueue, ToSetPlaces
<1> QED BY <1>1, <1>3, <1>5, <1>6

(* Two sequences of the same length and the same elements are one. *)
LEMMA SameSeq ==
  ASSUME NEW S, NEW s \in Seq(S), NEW T, NEW t \in Seq(T), Len(s) = Len(t),
         \A i \in 1..Len(s) : s[i] = t[i]
  PROVE  s = t
OBVIOUS

(* A repeated insert changes the flow where it stands. *)
LEMMA InsertKnown ==
  ASSUME Inv, Inv', NEW c \in Callers, StoreFlow(c), arg[c].id \in DOMAIN flows
  PROVE  Log!Insert([id |-> arg[c].id, data |-> arg[c].size])
<1> USE StoreAssumption
<1> DEFINE e == [id |-> arg[c].id, data |-> arg[c].size]
<1>1. /\ Queued(arg[c].id) = order
      /\ order' = Kept(Queued(arg[c].id))
      /\ \A i \in DOMAIN flows' :
            flows'[i] = IF i = arg[c].id THEN arg[c].size ELSE flows[i]
  BY StoreFlowFacts DEF Queued
<1>2. /\ order \in Seq(Ids) /\ Distinct(order) /\ Len(order) \in Nat
      /\ Excess(order) = 0
  BY InvQueue DEF Excess
<1>3. order' \in Seq(Ids) /\ Len(order') = Len(order)
      /\ \A i \in 1..Len(order) : order'[i] = order[i]
  BY <1>1, <1>2, KeptFacts
<1>4. order' = order
  BY <1>2, <1>3, SameSeq
<1>5. \A i \in 1..Len(order) : order[i] \in DOMAIN flows'
  <2>1. DOMAIN flows' = ToSet(order')
    BY StoreFlowFacts
  <2> QED BY <1>2, <1>4, <2>1, ToSetPlaces
<1>6. Shells' = [i \in 1..Len(order) |-> [id |-> order[i], data |-> flows'[order[i]]]]
  BY <1>2, <1>4 DEF Shells
<1>7. Log!Changed(e) = [i \in 1..Len(order) |->
         IF order[i] = arg[c].id THEN e ELSE [id |-> order[i], data |-> flows[order[i]]]]
  BY <1>2, ShellsFacts DEF Log!Changed
<1>8. Shells' = Log!Changed(e)
  BY <1>1, <1>5, <1>6, <1>7
<1> QED BY <1>8, ShellsFacts DEF Log!Insert

(* A new flow is appended, and the window closes behind it. *)
LEMMA InsertNew ==
  ASSUME Inv, Inv', NEW c \in Callers, StoreFlow(c), arg[c].id \notin DOMAIN flows
  PROVE  Log!Insert([id |-> arg[c].id, data |-> arg[c].size])
<1> USE StoreAssumption
<1> DEFINE e == [id |-> arg[c].id, data |-> arg[c].size]
           n == Len(order)
           q == Queued(arg[c].id)
           s == Append(Shells, e)
<1>1. /\ arg[c] \in Flow
      /\ order' = Kept(q) /\ DOMAIN flows' = ToSet(order')
      /\ \A i \in DOMAIN flows' :
            flows'[i] = IF i = arg[c].id THEN arg[c].size ELSE flows[i]
      /\ q \in Seq(Ids) /\ Distinct(q)
  BY StoreFlowFacts
<1>2. q = Append(order, arg[c].id)
  BY DEF Queued
<1>3. /\ order \in Seq(Ids) /\ n \in Nat /\ n <= MaxFlows
      /\ \A i \in 1..n : order[i] \in DOMAIN flows
  BY InvQueue, ToSetPlaces
<1>4. arg[c].id \in Ids /\ arg[c].size \in Sizes
  BY <1>1 DEF Flow
<1>5. /\ Len(q) = n + 1 /\ q[n + 1] = arg[c].id
      /\ \A i \in 1..n : q[i] = order[i]
  BY <1>2, <1>3, <1>4
<1>6. /\ Shells \in Seq([id : Ids, data : Sizes]) /\ Len(Shells) = n
      /\ \A i \in 1..n : Shells[i] = [id |-> order[i], data |-> flows[order[i]]]
      /\ Log!Logged = DOMAIN flows
  BY ShellsFacts
<1>7. s \in Seq([id : Ids, data : Sizes]) /\ Len(s) = n + 1
      /\ s[n + 1] = e /\ \A i \in 1..n : s[i] = Shells[i]
  BY <1>3, <1>4, <1>6
<1>8. Excess(q) = IF n = MaxFlows THEN 1 ELSE 0
  BY <1>3, <1>5 DEF Excess
<1>9. Log!Window(s) = SubSeq(s, Excess(q) + 1, n + 1)
  <2>1. Len(s) = n + 1 /\ n \in Nat /\ n <= MaxFlows
    BY <1>3, <1>7
  <2>2. (IF Len(s) > MaxFlows THEN Len(s) - MaxFlows + 1 ELSE 1) = Excess(q) + 1
    BY <2>1, <1>8
  <2> QED BY <2>1, <2>2 DEF Log!Window
<1>10. /\ Log!Window(s) \in Seq([id : Ids, data : Sizes])
       /\ Len(Log!Window(s)) = n + 1 - Excess(q)
       /\ \A i \in 1..(n + 1 - Excess(q)) : Log!Window(s)[i] = s[i + Excess(q)]
  <2> DEFINE k == Excess(q)
  <2>1. k \in Nat /\ k <= 1 /\ k <= n /\ n + 1 \in Nat
    BY <1>3, <1>8
  <2> HIDE DEF k, s
  <2>2. \A i \in (k + 1)..(n + 1) : s[i] \in [id : Ids, data : Sizes]
    <3>1. \A i \in (k + 1)..(n + 1) : i \in 1..Len(s)
      BY <1>3, <1>7, <2>1
    <3> QED BY <1>7, <3>1, ElementOfSeq
  <2>3. /\ SubSeq(s, k + 1, n + 1) \in Seq([id : Ids, data : Sizes])
        /\ Len(SubSeq(s, k + 1, n + 1)) = n + 1 - k
    BY <1>7, <2>1, <2>2
  <2>4. \A i \in 1..(n + 1 - k) : SubSeq(s, k + 1, n + 1)[i] = s[i + k]
    BY <1>7, <2>1
  <2> QED BY <1>9, <2>3, <2>4 DEF k
<1>11. /\ Len(order') = n + 1 - Excess(q)
       /\ \A i \in 1..(n + 1 - Excess(q)) : order'[i] = q[i + Excess(q)]
  <2>1. /\ Len(Kept(q)) = Len(q) - Excess(q)
        /\ \A i \in 1..Len(Kept(q)) : Kept(q)[i] = q[i + Excess(q)]
    BY <1>1, KeptFacts
  <2>2. Len(q) - Excess(q) = n + 1 - Excess(q)
    <3>1. Len(q) = n + 1
      BY <1>5
    <3>2. n \in Nat /\ Excess(q) \in Nat
      BY <1>3, <1>8
    <3> QED BY <3>1, <3>2
  <2> QED BY <1>1, <2>1, <2>2
<1>12. /\ Shells' \in Seq([id : Ids, data : Sizes]) /\ Len(Shells') = Len(order')
       /\ \A i \in 1..Len(order') : Shells'[i] = [id |-> order'[i], data |-> flows'[order'[i]]]
       /\ \A i \in 1..Len(order') : order'[i] \in DOMAIN flows'
  <2>1. (/\ Shells \in Seq([id : Ids, data : Sizes]) /\ Len(Shells) = Len(order)
         /\ \A i \in 1..Len(order) : Shells[i] = [id |-> order[i], data |-> flows[order[i]]])'
    BY ShellsFacts, PTL
  <2>2. order' \in Seq(Ids) /\ Len(order') \in Nat
    BY <1>1, KeptFacts
  <2>3. \A i \in 1..Len(order') : order'[i] \in DOMAIN flows'
    <3>1. ToSet(order') = {order'[i] : i \in 1..Len(order')}
      BY <2>2, ToSetPlaces
    <3> QED BY <1>1, <3>1
  <2> QED BY <2>1, <2>3
<1>13. ASSUME NEW i \in 1..(n + 1 - Excess(q))
       PROVE  Shells'[i] = Log!Window(s)[i]
  <2>1. i + Excess(q) \in 1..(n + 1)
    BY <1>3, <1>8
  <2>2. Shells'[i] = [id |-> q[i + Excess(q)], data |-> flows'[q[i + Excess(q)]]]
        /\ q[i + Excess(q)] \in DOMAIN flows'
    BY <1>11, <1>12
  <2>3. CASE i + Excess(q) = n + 1
    BY <1>1, <1>5, <1>7, <1>10, <2>2, <2>3
  <2>4. CASE i + Excess(q) \in 1..n
    <3>1. q[i + Excess(q)] = order[i + Excess(q)] /\ order[i + Excess(q)] # arg[c].id
      BY <1>3, <1>5, <2>4
    <3>2. flows'[order[i + Excess(q)]] = flows[order[i + Excess(q)]]
      BY <1>1, <2>2, <3>1
    <3> QED BY <1>6, <1>7, <1>10, <2>2, <2>4, <3>1, <3>2
  <2> QED BY <1>3, <2>1, <2>3, <2>4
<1>14. Shells' = Log!Window(s)
  BY <1>10, <1>11, <1>12, <1>13, SameSeq
<1> QED BY <1>6, <1>14 DEF Log!Insert

LEMMA UpdateChanges ==
  ASSUME Inv, NEW c \in Callers, NEW f \in Flow, Update(c, f)
  PROVE  Log!Update([id |-> f.id, data |-> f.size])
<1> DEFINE e == [id |-> f.id, data |-> f.size]
<1>1. order \in Seq(Ids) /\ Len(order) \in Nat /\ order' = order
      /\ flows' = [flows EXCEPT ![f.id] = f.size]
  BY InvQueue DEF Update
<1>2. \A i \in 1..Len(order) : order[i] \in DOMAIN flows
  BY InvQueue, ToSetPlaces
<1>3. Shells' = [i \in 1..Len(order) |-> [id |-> order[i], data |-> flows'[order[i]]]]
  BY <1>1 DEF Shells
<1>4. Log!Changed(e) = [i \in 1..Len(order) |->
         IF order[i] = f.id THEN e ELSE [id |-> order[i], data |-> flows[order[i]]]]
  BY <1>1, ShellsFacts DEF Log!Changed
<1>5. Shells' = Log!Changed(e)
  BY <1>1, <1>2, <1>3, <1>4
<1> QED BY <1>5 DEF Log!Update

(* Counters, deletions and returns are invisible in the log; the locked    *)
(* sections are its steps.                                                 *)
THEOREM StoreImplementsWindow == Spec => RefinesWindow
<1>1. Init => Log!Init
  BY DEF Init, Log!Init, Shells
<1>2. ASSUME Inv, Inv', [Next]_storeVars PROVE [Log!Next]_Shells
  <2>1. ASSUME NEW c \in Callers, NEW f \in Flow, BeginInsert(c, f)
        PROVE  UNCHANGED Shells
    BY <2>1 DEF BeginInsert, Shells
  <2>2. ASSUME NEW c \in Callers, NEW f \in Flow, Update(c, f)
        PROVE  Log!Next
    <3>1. [id |-> f.id, data |-> f.size] \in Log!Entry
      BY DEF Flow, Log!Entry
    <3> QED BY <1>2, <2>2, <3>1, UpdateChanges DEF Log!Next
  <2>3. ASSUME NEW c \in Callers, StoreFlow(c)
        PROVE  Log!Next
    <3>1. arg[c] \in Flow
      BY <1>2, <2>3, StoreFlowFacts
    <3>2. [id |-> arg[c].id, data |-> arg[c].size] \in Log!Entry
      BY <3>1 DEF Flow, Log!Entry
    <3>3. Log!Insert([id |-> arg[c].id, data |-> arg[c].size])
      BY <1>2, <2>3, InsertKnown, InsertNew
    <3> QED BY <3>2, <3>3 DEF Log!Next
  <2>4. ASSUME NEW c \in Callers, NEW id \in gone[c], RemoveBodies(c, id)
        PROVE  UNCHANGED Shells
    BY <2>4 DEF RemoveBodies, Shells
  <2>5. ASSUME NEW c \in Callers, Return(c)
        PROVE  UNCHANGED Shells
    BY <2>5 DEF Return, Shells
  <2>6. ASSUME NEW c \in Callers, Clear(c)
        PROVE  Log!Next
    BY <2>6 DEF Clear, Shells, Log!Next, Log!Clear
  <2>7. CASE UNCHANGED storeVars
    BY <2>7 DEF storeVars, Shells
  <2> QED BY <1>2, <2>1, <2>2, <2>3, <2>4, <2>5, <2>6, <2>7 DEF Next
<1> QED BY <1>1, <1>2, SpecInv, PTL DEF Spec, RefinesWindow, Log!Spec

------------------------------------------------------------------------------
(***************************************************************************)
(* That a report handed out again is that of the flows retained, for any   *)
(* number of callers of the store and of readers of the report.            *)
(***************************************************************************)

(* What a reader has loaded, and what the cache is filed under, is no      *)
(* later than now.                                                         *)
KeysArePast ==
  /\ DOMAIN key = Readers
  /\ \A r \in Readers : key[r] # NoReport => key[r].generation \in Nat /\ key[r].generation <= generation
  /\ cache # NoReport => cache.key.generation \in Nat /\ cache.key.generation <= generation

(* A report not yet retired by the generation, and computed while no       *)
(* insert was under way, is that of the store: none has begun since.       *)
CacheIsTrue ==
  cache # NoReport =>
    /\ cache.report = [flows |-> cache.report.flows, latency |-> cache.key.latency]
    /\ cache.key.generation = generation /\ ~cache.racing
         => ~Inserting /\ cache.report.flows = Shells

InsightsInv == Inv /\ KeysArePast /\ CacheIsTrue

------------------------------------------------------------------------------
LEMMA InsightsInitInv == InsightsInit => InsightsInv
BY InitInv DEF InsightsInit, InsightsInv, KeysArePast, CacheIsTrue

(* A step that leaves the readers, the flows and what is under way alone,  *)
(* or makes the generation greater.                                        *)
LEMMA StoreKeeps ==
  ASSUME InsightsInv, Inv', UNCHANGED insightVars,
         \/ generation' = generation + 1
         \/ generation' = generation /\ ~Inserting /\ ~Inserting' /\ Shells' = Shells
         \/ generation' = generation /\ Inserting
  PROVE  InsightsInv'
<1>1. generation \in Nat /\ generation' \in Nat /\ generation <= generation'
  BY DEF InsightsInv, Inv, TypeOK
<1>2. KeysArePast'
  BY <1>1 DEF InsightsInv, KeysArePast, insightVars
<1>3. CacheIsTrue'
  BY <1>1 DEF InsightsInv, KeysArePast, CacheIsTrue, insightVars
<1> QED BY <1>2, <1>3 DEF InsightsInv

(* What the store does to its generation, to its flows and to the callers  *)
(* that are inserting.                                                     *)
LEMMA StoreSteps ==
  ASSUME Inv, Next
  PROVE  \/ generation' = generation + 1
         \/ generation' = generation /\ ~Inserting /\ ~Inserting' /\ Shells' = Shells
         \/ generation' = generation /\ Inserting
<1>1. PICK c \in Callers :
        \/ \E f \in Flow : BeginInsert(c, f) \/ Update(c, f)
        \/ StoreFlow(c)
        \/ \E id \in gone[c] : RemoveBodies(c, id)
        \/ Return(c)
        \/ Clear(c)
  BY DEF Next
<1>2. CASE \E f \in Flow : BeginInsert(c, f) \/ Update(c, f)
  BY <1>2 DEF BeginInsert, Update
<1>3. CASE StoreFlow(c)
  BY <1>3 DEF StoreFlow, Inserting
<1>4. CASE \E id \in gone[c] : RemoveBodies(c, id)
  BY <1>4 DEF RemoveBodies, Inserting, Shells
<1>5. CASE Return(c)
  <2>1. /\ UNCHANGED <<generation, flows, order>>
        /\ \A d \in Callers : step'[d] = "insert" <=> step[d] = "insert"
    BY <1>5 DEF Return, Inv, TypeOK
  <2> QED BY <2>1 DEF Inserting, Shells
<1>6. CASE Clear(c)
  BY <1>6 DEF Clear
<1> QED BY <1>1, <1>2, <1>3, <1>4, <1>5, <1>6

LEMMA ReaderInv ==
  ASSUME InsightsInv, NEW r \in Readers, LoadKey(r) \/ Reuse(r) \/ Recompute(r)
  PROVE  InsightsInv'
<1>1. generation \in Nat
  BY DEF InsightsInv, Inv, TypeOK
<1>2. UNCHANGED storeVars
  BY DEF LoadKey, Reuse, Recompute
<1>3. Inv' /\ generation' = generation /\ Shells' = Shells /\ Inserting' = Inserting
  BY <1>2, NextInv DEF InsightsInv, storeVars, Shells, Inserting
<1>4. CASE LoadKey(r)
  <2>1. cache' = cache /\ key' = [key EXCEPT ![r] = [generation |-> generation, latency |-> latency]]
    BY <1>4 DEF LoadKey
  <2>2. KeysArePast'
    BY <1>1, <1>3, <2>1 DEF InsightsInv, KeysArePast
  <2>3. CacheIsTrue'
    BY <1>3, <2>1 DEF InsightsInv, CacheIsTrue
  <2> QED BY <1>3, <2>2, <2>3 DEF InsightsInv
<1>5. CASE Reuse(r)
  <2>1. cache' = cache /\ key' = [key EXCEPT ![r] = NoReport]
    BY <1>5 DEF Reuse
  <2>2. KeysArePast'
    BY <1>3, <2>1 DEF InsightsInv, KeysArePast
  <2>3. CacheIsTrue'
    BY <1>3, <2>1 DEF InsightsInv, CacheIsTrue
  <2> QED BY <1>3, <2>2, <2>3 DEF InsightsInv
<1>6. CASE Recompute(r)
  <2>1. /\ key[r] # NoReport /\ key' = [key EXCEPT ![r] = NoReport]
        /\ cache'.key = key[r] /\ cache'.racing = Inserting
        /\ cache'.report = [flows |-> Shells, latency |-> key[r].latency]
    BY <1>6 DEF Recompute
  <2>2. key[r].generation \in Nat /\ key[r].generation <= generation
    BY <2>1 DEF InsightsInv, KeysArePast
  <2>3. KeysArePast'
    BY <1>3, <2>1, <2>2 DEF InsightsInv, KeysArePast
  <2>4. CacheIsTrue'
    BY <1>3, <2>1 DEF CacheIsTrue
  <2> QED BY <1>3, <2>3, <2>4 DEF InsightsInv
<1> QED BY <1>4, <1>5, <1>6

LEMMA LatencyInv ==
  ASSUME InsightsInv, NEW l \in Latencies, SetLatency(l)
  PROVE  InsightsInv'
<1>1. UNCHANGED storeVars /\ cache' = cache /\ key' = key
  BY DEF SetLatency
<1>2. Inv' /\ generation' = generation /\ Shells' = Shells /\ Inserting' = Inserting
  BY <1>1, NextInv DEF InsightsInv, storeVars, Shells, Inserting
<1> QED BY <1>1, <1>2 DEF InsightsInv, KeysArePast, CacheIsTrue

LEMMA InsightsNextInv == InsightsInv /\ [InsightsNext]_vars => InsightsInv'
<1> SUFFICES ASSUME InsightsInv, [InsightsNext]_vars PROVE InsightsInv'
  OBVIOUS
<1>1. CASE UNCHANGED vars
  <2>1. UNCHANGED storeVars /\ UNCHANGED insightVars
    BY <1>1 DEF vars
  <2>2. Inv' /\ generation' = generation /\ Shells' = Shells /\ Inserting' = Inserting
    BY <2>1, NextInv DEF InsightsInv, storeVars, Shells, Inserting
  <2> QED BY <2>1, <2>2 DEF InsightsInv, KeysArePast, CacheIsTrue, insightVars
<1>2. CASE Next /\ UNCHANGED insightVars
  BY <1>2, NextInv, StoreSteps, StoreKeeps DEF InsightsInv
<1> QED BY <1>1, <1>2, LatencyInv, ReaderInv DEF InsightsNext

LEMMA InsightsInvTrue == InsightsInv => ReusedReportIsTrue
<1> SUFFICES ASSUME InsightsInv, CacheIsCurrent, ~cache.racing, ~Inserting
             PROVE  cache.report = [flows |-> Shells, latency |-> latency]
  BY DEF ReusedReportIsTrue
<1>1. cache # NoReport /\ cache.key.generation = generation /\ cache.key.latency = latency
  BY DEF CacheIsCurrent
<1> QED BY <1>1 DEF InsightsInv, CacheIsTrue

(* Every change to the store or to the latency retires the cached report,  *)
(* whatever callers and readers do in between, but for the insert that was *)
(* counted and not yet stored when it was computed (state.rs insights,     *)
(* flowstore.rs insert).                                                   *)
THEOREM ReportsAreTrue == InsightsSpec => []ReusedReportIsTrue
<1>1. InsightsSpec => []InsightsInv
  BY InsightsInitInv, InsightsNextInv, PTL DEF InsightsSpec
<1> QED BY <1>1, InsightsInvTrue, PTL

------------------------------------------------------------------------------
(* Analysis: rows of flows, and what is built up step by step. *)

(* The first place where something goes wrong, if it is not the start. *)
LEMMA FirstWrong ==
  ASSUME NEW N \in Nat, NEW S \in SUBSET (0..N), S # {}, 0 \notin S
  PROVE  \E n \in 1..N : n \in S /\ n - 1 \in 0..N /\ n - 1 \notin S
<1>1. PICK n \in S : \A m \in S : n <= m
  <2>1. S \in SUBSET Nat
    OBVIOUS
  <2> QED BY <2>1, Smallest
<1>2. n \in 1..N /\ n - 1 \in 0..N /\ ~ (n <= n - 1)
  OBVIOUS
<1> QED BY <1>1, <1>2

(* What goes on from each step to the next, from what was there at first. *)
Goes(f, first, next, N) == f[0] = first /\ \A n \in 1..N : f[n] = next[<<n, f[n - 1]>>]

LEMMA Recursion ==
  ASSUME NEW T, NEW first \in T, NEW N \in Nat, NEW next \in [(1..N) \X T -> T]
  PROVE  \E f \in [0..N -> T] : Goes(f, first, next, N)
<1> DEFINE S == {n \in 0..N : ~ \E f \in [0..n -> T] : Goes(f, first, next, n)}
<1>1. 0 \notin S
  <2> DEFINE only == [n \in 0..0 |-> first]
  <2>1. only \in [0..0 -> T] /\ Goes(only, first, next, 0)
    BY DEF Goes
  <2> QED BY <2>1
<1>2. ASSUME S # {} PROVE FALSE
  <2>1. PICK n \in 1..N : n \in S /\ n - 1 \in 0..N /\ n - 1 \notin S
    <3>1. S \in SUBSET (0..N)
      OBVIOUS
    <3> HIDE DEF S
    <3> QED BY <1>1, <1>2, <3>1, FirstWrong
  <2>2. PICK f \in [0..(n - 1) -> T] : Goes(f, first, next, n - 1)
    BY <2>1
  <2>3. \A k \in 0..n : (k # n => k \in 0..(n - 1)) /\ (k # 0 => k - 1 \in 0..(n - 1) /\ k - 1 # n)
    OBVIOUS
  <2>4. n - 1 \in 0..(n - 1) /\ f[n - 1] \in T /\ <<n, f[n - 1]>> \in (1..N) \X T
    BY <2>3
  <2> DEFINE more == [k \in 0..n |-> IF k = n THEN next[<<n, f[n - 1]>>] ELSE f[k]]
  <2>5. next[<<n, f[n - 1]>>] \in T
    BY <2>4
  <2>6. more \in [0..n -> T]
    BY <2>3, <2>5
  <2>7. more[0] = first /\ \A k \in 1..n : more[k] = next[<<k, more[k - 1]>>]
    <3>1. f[0] = first /\ \A k \in 1..(n - 1) : f[k] = next[<<k, f[k - 1]>>]
      BY <2>2 DEF Goes
    <3>2. more[0] = f[0]
      BY <2>3
    <3>3. \A k \in 1..n : more[k - 1] = f[k - 1] /\ (k # n => k \in 1..(n - 1) /\ more[k] = f[k])
      BY <2>3
    <3>4. more[n] = next[<<n, f[n - 1]>>]
      OBVIOUS
    <3> HIDE DEF more
    <3> QED BY <3>1, <3>2, <3>3, <3>4
  <2> HIDE DEF more
  <2> QED BY <2>1, <2>6, <2>7 DEF Goes
<1>3. N \in 0..N /\ N \notin S
  <2> HIDE DEF S
  <2> QED BY <1>2
<1> QED BY <1>3

------------------------------------------------------------------------------
(* Analysis: flows in a row. *)

Timed(F)    == \A f \in F : f.at \in Int
Once(s)     == \A i, j \in 1..Len(s) : s[i] = s[j] => i = j
InOrder(s)  == \A i, j \in 1..Len(s) : i <= j => s[i].at <= s[j].at
Row(s, F)   == s \in Seq(F) /\ Once(s) /\ InOrder(s)

LEMMA Told == ASSUME NEW F, NEW s \in Seq(F) PROVE ToSet(s) = {s[i] : i \in 1..Len(s)} /\ ToSet(s) \subseteq F
BY DEF ToSet

LEMMA OneMore ==
  ASSUME NEW F, NEW s \in Seq(F), NEW f \in F
  PROVE  /\ Append(s, f) \in Seq(F) /\ Len(Append(s, f)) = Len(s) + 1 /\ Append(s, f)[Len(s) + 1] = f
         /\ \A i \in 1..Len(s) : Append(s, f)[i] = s[i]
         /\ ToSet(Append(s, f)) = ToSet(s) \cup {f}
<1>1. /\ Append(s, f) \in Seq(F) /\ Len(Append(s, f)) = Len(s) + 1 /\ Append(s, f)[Len(s) + 1] = f
      /\ \A i \in 1..Len(s) : Append(s, f)[i] = s[i]
  OBVIOUS
<1>2. Len(s) \in Nat /\ \A i \in 1..(Len(s) + 1) : i \in 1..Len(s) \/ i = Len(s) + 1
  OBVIOUS
<1>3. 1..Len(s) \subseteq 1..(Len(s) + 1) /\ Len(s) + 1 \in 1..(Len(s) + 1)
  BY <1>2
<1>4. ToSet(Append(s, f)) = {Append(s, f)[i] : i \in 1..(Len(s) + 1)} /\ ToSet(s) = {s[i] : i \in 1..Len(s)}
  BY <1>1, Told
<1> QED BY <1>1, <1>2, <1>3, <1>4

LEMMA RowGrows ==
  ASSUME NEW F, Timed(F), NEW s, Row(s, F), NEW f \in F, f \notin ToSet(s), \A g \in ToSet(s) : g.at <= f.at
  PROVE  Row(Append(s, f), F)
<1> DEFINE t == Append(s, f)
<1>1. /\ t \in Seq(F) /\ Len(t) = Len(s) + 1 /\ t[Len(s) + 1] = f
      /\ \A i \in 1..Len(s) : t[i] = s[i] /\ s[i] \in ToSet(s)
  BY OneMore, Told DEF Row
<1>2. Len(s) \in Nat /\ \A i \in 1..(Len(s) + 1) : i \in 1..Len(s) \/ i = Len(s) + 1
  BY DEF Row
<1> HIDE DEF t
<1>3. Once(t)
  BY <1>1, <1>2 DEF Row, Once
<1>4. InOrder(t)
  <2> SUFFICES ASSUME NEW i \in 1..(Len(s) + 1), NEW j \in 1..(Len(s) + 1), i <= j
               PROVE  t[i].at <= t[j].at
    BY <1>1 DEF InOrder
  <2>1. CASE j \in 1..Len(s)
    <3>1. i \in 1..Len(s)
      BY <1>2, <2>1
    <3> QED BY <1>1, <2>1, <3>1 DEF Row, InOrder
  <2>2. CASE j = Len(s) + 1
    <3>1. f.at <= f.at
      BY DEF Timed
    <3> QED BY <1>1, <1>2, <2>2, <3>1
  <2> QED BY <1>2, <2>1, <2>2
<1> QED BY <1>1, <1>3, <1>4 DEF Row, t

(* The least of a set of whole numbers that has one. *)
LEMMA LeastIs ==
  ASSUME NEW S \in SUBSET Nat, S # {}
  PROVE  Min(S) \in S /\ \A m \in S : Min(S) <= m
<1>1. \E n \in S : \A m \in S : n <= m
  BY Smallest
<1> QED BY <1>1 DEF Min

LEMMA InsertedIn ==
  ASSUME NEW F, NEW s \in Seq(F), NEW f \in F
  PROVE  Inserted(s, f) \in Seq(F)
<1> DEFINE L == Len(s)
           places == {n \in 0..L : \A k \in (n + 1)..L : f.at < s[k].at}
           n == Min(places)
<1>1. n \in 0..L
  <2>1. places \in SUBSET Nat /\ L \in places
    OBVIOUS
  <2> HIDE DEF places
  <2>2. n \in places
    BY <2>1, LeastIs
  <2> QED BY <2>2 DEF places
<1>2. Inserted(s, f) = [k \in 1..(L + 1) |-> IF k <= n THEN s[k] ELSE IF k = n + 1 THEN f ELSE s[k - 1]]
  BY DEF Inserted
<1>3. L \in Nat /\ \A k \in 1..L : s[k] \in F
  OBVIOUS
<1> HIDE DEF n, L
<1>4. \A k \in 1..(L + 1) : (k <= n => k \in 1..L) /\ (~ (k <= n) /\ k # n + 1 => k - 1 \in 1..L)
  BY <1>1, <1>3
<1>5. \A k \in 1..(L + 1) : Inserted(s, f)[k] \in F
  BY <1>2, <1>3, <1>4
<1>6. Inserted(s, f) = [k \in 1..(L + 1) |-> Inserted(s, f)[k]] /\ L + 1 \in Nat
  BY <1>2, <1>3
<1> QED BY <1>5, <1>6

LEMMA InsertedFacts ==
  ASSUME NEW F, Timed(F), NEW s, Row(s, F), NEW f \in F, f \notin ToSet(s)
  PROVE  Row(Inserted(s, f), F) /\ ToSet(Inserted(s, f)) = ToSet(s) \cup {f}
<1> DEFINE L == Len(s)
           places == {n \in 0..L : \A k \in (n + 1)..L : f.at < s[k].at}
           n == Min(places)
           t == Inserted(s, f)
<1>1. s \in Seq(F) /\ L \in Nat /\ (\A k \in 1..L : s[k] \in F /\ s[k].at \in Int /\ s[k] # f) /\ f.at \in Int
  BY Told DEF Row, Timed
<1>2. n \in 0..L /\ n \in places /\ \A m \in places : n <= m
  <2>1. places \in SUBSET Nat /\ L \in places
    BY <1>1
  <2> HIDE DEF places
  <2>2. n \in places /\ \A m \in places : n <= m
    BY <2>1, LeastIs
  <2> QED BY <2>2 DEF places
<1>3. t = [k \in 1..(L + 1) |-> IF k <= n THEN s[k] ELSE IF k = n + 1 THEN f ELSE s[k - 1]]
  BY DEF Inserted
<1>4. \A k \in (n + 1)..L : f.at < s[k].at
  BY <1>2
<1>5. \A k \in 1..n : s[k].at <= f.at
  <2>1. CASE n = 0
    BY <2>1
  <2>2. CASE n # 0
    <3>1. n - 1 \in 0..L /\ ~ (n <= n - 1) /\ n \in 1..L
      BY <1>2, <2>2
    <3>2. n - 1 \notin places
      BY <1>2, <3>1
    <3>3. PICK k \in ((n - 1) + 1)..L : ~ (f.at < s[k].at)
      BY <3>1, <3>2
    <3>4. k \in 1..L /\ k = n
      <4>1. k \notin (n + 1)..L
        BY <1>4, <3>3
      <4> HIDE DEF n, L
      <4> QED BY <1>1, <3>1, <3>3, <4>1
    <3>5. s[n].at <= f.at
      BY <1>1, <3>3, <3>4
    <3>6. \A m \in 1..n : m \in 1..L /\ s[m].at <= s[n].at
      BY <1>1, <3>1 DEF Row, InOrder
    <3> HIDE DEF n, L
    <3> QED BY <1>1, <3>1, <3>5, <3>6
  <2> QED BY <2>1, <2>2
<1> HIDE DEF n, t, places
<1>6. n \in Nat /\ n <= L /\ n + 1 \in 1..(L + 1)
  BY <1>1, <1>2
<1>7. \A k \in 1..(L + 1) :
        \/ k \in 1..n /\ k \in 1..L /\ t[k] = s[k]
        \/ k = n + 1 /\ t[k] = f
        \/ k \in (n + 2)..(L + 1) /\ k - 1 \in (n + 1)..L /\ k - 1 \in 1..L /\ t[k] = s[k - 1]
  BY <1>1, <1>3, <1>6
<1>8. t \in Seq(F) /\ Len(t) = L + 1
  <2>1. \A k \in 1..(L + 1) : t[k] \in F
    BY <1>1, <1>7
  <2>2. t = [k \in 1..(L + 1) |-> t[k]]
    BY <1>3
  <2>3. L + 1 \in Nat
    BY <1>1
  <2> HIDE DEF L
  <2> QED BY <2>1, <2>2, <2>3
<1>9. Once(t)
  <2> SUFFICES ASSUME NEW i \in 1..(L + 1), NEW j \in 1..(L + 1), t[i] = t[j] PROVE i = j
    BY <1>8 DEF Once
  <2>1. \A a, b \in 1..L : s[a] = s[b] => a = b
    BY DEF Row, Once
  <2> HIDE DEF L
  <2> QED BY <1>1, <1>6, <1>7, <2>1
<1>10. InOrder(t)
  <2> SUFFICES ASSUME NEW i \in 1..(L + 1), NEW j \in 1..(L + 1), i <= j PROVE t[i].at <= t[j].at
    BY <1>8 DEF InOrder
  <2>1. \A a, b \in 1..L : a <= b => s[a].at <= s[b].at
    BY DEF Row, InOrder
  <2> HIDE DEF L
  <2>2. CASE j \in 1..n
    <3>1. i \in 1..n /\ i # n + 1 /\ i \notin (n + 2)..(L + 1) /\ j # n + 1 /\ j \notin (n + 2)..(L + 1)
      BY <1>1, <1>6, <2>2
    <3> QED BY <1>7, <2>1, <3>1
  <2>3. CASE j = n + 1
    <3>1. i \notin (n + 2)..(L + 1) /\ j \notin 1..n /\ j \notin (n + 2)..(L + 1) /\ f.at <= f.at
      BY <1>1, <1>6, <2>3
    <3> QED BY <1>5, <1>7, <2>3, <3>1
  <2>4. CASE j \in (n + 2)..(L + 1)
    <3>1. j # n + 1 /\ j \notin 1..n /\ j - 1 \in (n + 1)..L /\ j - 1 \in 1..L /\ t[j] = s[j - 1]
      BY <1>1, <1>6, <1>7, <2>4
    <3>2. CASE i \in 1..n
      <4>1. i <= j - 1 /\ i \in 1..L /\ i # n + 1 /\ i \notin (n + 2)..(L + 1)
        BY <1>1, <1>6, <2>4, <3>2
      <4> QED BY <1>7, <2>1, <3>1, <4>1
    <3>3. CASE i = n + 1
      <4>1. t[i] = f
        BY <1>3, <1>6, <3>3
      <4> QED BY <1>1, <1>4, <3>1, <4>1
    <3>4. CASE i \in (n + 2)..(L + 1)
      <4>1. i - 1 <= j - 1 /\ i # n + 1 /\ i \notin 1..n
        BY <1>1, <1>6, <2>4, <3>4
      <4> QED BY <1>7, <2>1, <3>1, <4>1
    <3> QED BY <1>7, <3>2, <3>3, <3>4
  <2> QED BY <1>7, <2>2, <2>3, <2>4
<1>11. ToSet(t) = ToSet(s) \cup {f}
  <2>1. ToSet(t) = {t[k] : k \in 1..(L + 1)} /\ ToSet(s) = {s[k] : k \in 1..L}
    BY <1>1, <1>8, Told
  <2>2. \A k \in 1..(L + 1) : t[k] = f \/ \E m \in 1..L : t[k] = s[m]
    BY <1>7
  <2>3. \E k \in 1..(L + 1) : t[k] = f
    <3>1. ~ (n + 1 <= n)
      BY <1>6
    <3>2. t[n + 1] = f
      BY <1>3, <1>6, <3>1
    <3> QED BY <1>6, <3>2
  <2>4. \A m \in 1..L : \E k \in 1..(L + 1) : t[k] = s[m]
    <3> SUFFICES ASSUME NEW m \in 1..L PROVE \E k \in 1..(L + 1) : t[k] = s[m]
      OBVIOUS
    <3>1. m \in 1..(L + 1) /\ m + 1 \in 1..(L + 1) /\ (m + 1) - 1 = m
      BY <1>1
    <3>2. m <= n => t[m] = s[m]
      BY <1>3, <3>1
    <3>3. ~ (m <= n) => t[m + 1] = s[m]
      <4>1. ~ (m <= n) => ~ (m + 1 <= n) /\ m + 1 # n + 1
        BY <1>6
      <4> QED BY <1>3, <3>1, <4>1
    <3> HIDE DEF L
    <3> QED BY <3>1, <3>2, <3>3
  <2> HIDE DEF L
  <2> QED BY <2>1, <2>2, <2>3, <2>4
<1> QED BY <1>8, <1>9, <1>10, <1>11 DEF Row, t

(* Sifting through flows, one after another. *)
Judging(judged, stored) ==
  judged = [n \in 0..Len(stored) |->
              IF n = 0 THEN <<>>
              ELSE IF Judgeable(stored[n]) THEN Inserted(judged[n - 1], stored[n]) ELSE judged[n - 1]]
Sifting(among, fs, S) ==
  among = [n \in 0..Len(fs) |->
             IF n = 0 THEN <<>> ELSE IF fs[n] \in S THEN Append(among[n - 1], fs[n]) ELSE among[n - 1]]

LEMMA JudgingExists ==
  ASSUME NEW F, NEW stored \in Seq(F)
  PROVE  \E judged : Judging(judged, stored)
<1> DEFINE N == Len(stored)
           next == [x \in (1..N) \X Seq(F) |->
                      IF Judgeable(stored[x[1]]) THEN Inserted(x[2], stored[x[1]]) ELSE x[2]]
<1>1. N \in Nat /\ <<>> \in Seq(F)
  OBVIOUS
<1>2. next \in [(1..N) \X Seq(F) -> Seq(F)]
  <2>1. \A x \in (1..N) \X Seq(F) : x[2] \in Seq(F) /\ stored[x[1]] \in F
    OBVIOUS
  <2>2. \A x \in (1..N) \X Seq(F) : (IF Judgeable(stored[x[1]]) THEN Inserted(x[2], stored[x[1]]) ELSE x[2]) \in Seq(F)
    BY <2>1, InsertedIn
  <2> HIDE DEF N
  <2> QED BY <2>2
<1> HIDE DEF next
<1>3. PICK f \in [0..N -> Seq(F)] : Goes(f, <<>>, next, N)
  <2> HIDE DEF N
  <2> QED BY <1>1, <1>2, Recursion
<1>4. \A n \in 0..N : f[n] = IF n = 0 THEN <<>>
                           ELSE IF Judgeable(stored[n]) THEN Inserted(f[n - 1], stored[n]) ELSE f[n - 1]
  <2>1. \A n \in 1..N : f[n - 1] \in Seq(F)
    OBVIOUS
  <2>2. \A n \in 1..N, s \in Seq(F) : next[<<n, s>>] = (IF Judgeable(stored[n]) THEN Inserted(s, stored[n]) ELSE s)
    BY DEF next
  <2>3. f[0] = <<>> /\ \A n \in 1..N : f[n] = next[<<n, f[n - 1]>>]
    BY <1>3 DEF Goes
  <2>4. \A n \in 0..N : n = 0 \/ (n # 0 /\ n \in 1..N)
    OBVIOUS
  <2> HIDE DEF N
  <2> QED BY <2>1, <2>2, <2>3, <2>4
<1> QED BY <1>3, <1>4 DEF Judging

LEMMA SiftingExists ==
  ASSUME NEW F, NEW fs \in Seq(F), NEW S
  PROVE  \E among : Sifting(among, fs, S)
<1> DEFINE N == Len(fs)
           next == [x \in (1..N) \X Seq(F) |-> IF fs[x[1]] \in S THEN Append(x[2], fs[x[1]]) ELSE x[2]]
<1>1. N \in Nat /\ <<>> \in Seq(F)
  OBVIOUS
<1>2. next \in [(1..N) \X Seq(F) -> Seq(F)]
  <2>1. \A x \in (1..N) \X Seq(F) : x[2] \in Seq(F) /\ fs[x[1]] \in F
    OBVIOUS
  <2>2. \A x \in (1..N) \X Seq(F) : (IF fs[x[1]] \in S THEN Append(x[2], fs[x[1]]) ELSE x[2]) \in Seq(F)
    BY <2>1
  <2> HIDE DEF N
  <2> QED BY <2>2
<1> HIDE DEF next
<1>3. PICK f \in [0..N -> Seq(F)] : Goes(f, <<>>, next, N)
  <2> HIDE DEF N
  <2> QED BY <1>1, <1>2, Recursion
<1>4. \A n \in 0..N : f[n] = IF n = 0 THEN <<>>
                           ELSE IF fs[n] \in S THEN Append(f[n - 1], fs[n]) ELSE f[n - 1]
  <2>1. \A n \in 1..N : f[n - 1] \in Seq(F)
    OBVIOUS
  <2>2. \A n \in 1..N, s \in Seq(F) : next[<<n, s>>] = (IF fs[n] \in S THEN Append(s, fs[n]) ELSE s)
    BY DEF next
  <2>3. f[0] = <<>> /\ \A n \in 1..N : f[n] = next[<<n, f[n - 1]>>]
    BY <1>3 DEF Goes
  <2>4. \A n \in 0..N : n = 0 \/ (n # 0 /\ n \in 1..N)
    OBVIOUS
  <2> HIDE DEF N
  <2> QED BY <2>1, <2>2, <2>3, <2>4
<1> QED BY <1>3, <1>4 DEF Sifting

(* The stored of S in the first n. *)
UpTo(fs, n, S) == {fs[i] : i \in {k \in 1..n : fs[k] \in S}}

LEMMA UpToGrows ==
  ASSUME NEW fs, NEW N \in Nat, NEW n \in 1..N, NEW S
  PROVE  UpTo(fs, n, S) = UpTo(fs, n - 1, S) \cup (IF fs[n] \in S THEN {fs[n]} ELSE {})
<1>1. n \in 1..n /\ \A k \in 1..n : k \in 1..(n - 1) \/ k = n
  OBVIOUS
<1>2. 1..(n - 1) \subseteq 1..n
  OBVIOUS
<1> QED BY <1>1, <1>2 DEF UpTo

LEMMA JudgedFacts ==
  ASSUME NEW F, Timed(F), NEW stored \in Seq(F), Once(stored)
  PROVE  /\ Row(Judged(stored), F)
         /\ ToSet(Judged(stored)) = {f \in ToSet(stored) : Judgeable(f)}
<1> DEFINE N == Len(stored)
           good == {f \in F : Judgeable(f)}
<1>1. PICK judged : Judging(judged, stored) /\ Judged(stored) = judged[N]
  <2>1. Judged(stored) = (CHOOSE judged : Judging(judged, stored))[N]
    BY DEF Judged, Judging
  <2> QED BY <2>1, JudgingExists
<1> DEFINE Fine(n) == Row(judged[n], F) /\ ToSet(judged[n]) = UpTo(stored, n, good)
           S == {n \in 0..N : ~ Fine(n)}
<1>2. 0 \notin S
  <2>1. judged[0] = <<>>
    BY <1>1 DEF Judging
  <2>2. Row(<<>>, F) /\ ToSet(<<>>) = {}
    BY DEF Row, Once, InOrder, ToSet
  <2>3. UpTo(stored, 0, good) = {}
    BY DEF UpTo
  <2> QED BY <2>1, <2>2, <2>3
<1>3. ASSUME S # {} PROVE FALSE
  <2>1. PICK n \in 1..N : n \in S /\ n - 1 \in 0..N /\ n - 1 \notin S
    <3>1. S \in SUBSET (0..N) /\ N \in Nat
      OBVIOUS
    <3> HIDE DEF S, N
    <3> QED BY <1>2, <1>3, <3>1, FirstWrong
  <2>2. Fine(n - 1)
    BY <2>1
  <2>3. judged[n] = IF Judgeable(stored[n]) THEN Inserted(judged[n - 1], stored[n]) ELSE judged[n - 1]
    <3>1. n \in 0..N /\ n # 0
      OBVIOUS
    <3> HIDE DEF S, Fine, good
    <3> QED BY <1>1, <3>1 DEF Judging
  <2>4. stored[n] \in F /\ (Judgeable(stored[n]) <=> stored[n] \in good)
    OBVIOUS
  <2>5. UpTo(stored, n, good) = UpTo(stored, n - 1, good) \cup (IF stored[n] \in good THEN {stored[n]} ELSE {})
    BY UpToGrows
  <2>6. stored[n] \notin UpTo(stored, n - 1, good)
    <3>1. \A k \in 1..(n - 1) : k \in 1..N /\ k # n
      OBVIOUS
    <3> QED BY <3>1 DEF UpTo, Once
  <2> HIDE DEF good
  <2>7. Fine(n)
    <3>1. CASE stored[n] \in good
      BY <2>2, <2>3, <2>4, <2>5, <2>6, <3>1, InsertedFacts
    <3>2. CASE stored[n] \notin good
      BY <2>2, <2>3, <2>4, <2>5, <3>2
    <3> QED BY <3>1, <3>2
  <2> QED BY <2>1, <2>7
<1>4. Fine(N)
  <2>1. N \in 0..N
    OBVIOUS
  <2> QED BY <1>3, <2>1
<1>5. UpTo(stored, N, good) = {f \in ToSet(stored) : Judgeable(f)}
  BY Told DEF UpTo
<1> QED BY <1>1, <1>4, <1>5

LEMMA WithinFacts ==
  ASSUME NEW F, Timed(F), NEW fs, Row(fs, F), NEW S
  PROVE  Row(Within(fs, S), F) /\ ToSet(Within(fs, S)) = ToSet(fs) \cap S
<1> DEFINE N == Len(fs)
<1>0. fs \in Seq(F)
  BY DEF Row
<1>1. PICK among : Sifting(among, fs, S) /\ Within(fs, S) = among[N]
  <2>1. Within(fs, S) = (CHOOSE among : Sifting(among, fs, S))[N]
    BY DEF Within, Sifting
  <2> QED BY <1>0, <2>1, SiftingExists
<1> DEFINE Fine(n) == Row(among[n], F) /\ ToSet(among[n]) = UpTo(fs, n, S)
           W == {n \in 0..N : ~ Fine(n)}
<1>2. 0 \notin W
  <2>1. among[0] = <<>>
    BY <1>1 DEF Sifting
  <2>2. Row(<<>>, F) /\ ToSet(<<>>) = {}
    BY DEF Row, Once, InOrder, ToSet
  <2>3. UpTo(fs, 0, S) = {}
    BY DEF UpTo
  <2> QED BY <2>1, <2>2, <2>3
<1>3. ASSUME W # {} PROVE FALSE
  <2>1. PICK n \in 1..N : n \in W /\ n - 1 \in 0..N /\ n - 1 \notin W
    <3>1. W \in SUBSET (0..N) /\ N \in Nat
      BY <1>0
    <3> HIDE DEF W, N
    <3> QED BY <1>2, <1>3, <3>1, FirstWrong
  <2>2. Fine(n - 1)
    BY <2>1
  <2>3. among[n] = IF fs[n] \in S THEN Append(among[n - 1], fs[n]) ELSE among[n - 1]
    <3>1. n \in 0..N /\ n # 0
      BY <1>0
    <3>2. among = [k \in 0..N |->
             IF k = 0 THEN <<>> ELSE IF fs[k] \in S THEN Append(among[k - 1], fs[k]) ELSE among[k - 1]]
      BY <1>1 DEF Sifting
    <3> HIDE DEF N
    <3> QED BY <3>1, <3>2
  <2>4. fs[n] \in F
    BY <1>0
  <2>5. UpTo(fs, n, S) = UpTo(fs, n - 1, S) \cup (IF fs[n] \in S THEN {fs[n]} ELSE {})
    BY <1>0, UpToGrows
  <2>6. fs[n] \notin UpTo(fs, n - 1, S) /\ \A g \in UpTo(fs, n - 1, S) : g.at <= fs[n].at
    <3>1. \A k \in 1..(n - 1) : k \in 1..N /\ k # n /\ k <= n
      BY <1>0
    <3>2. \A k \in 1..(n - 1) : fs[k] # fs[n] /\ fs[k].at <= fs[n].at
      BY <3>1 DEF Row, Once, InOrder
    <3> QED BY <3>2 DEF UpTo
  <2>7. Fine(n)
    <3>1. CASE fs[n] \in S
      <4>1. among[n - 1] \in Seq(F) /\ among[n] = Append(among[n - 1], fs[n])
        BY <2>2, <2>3, <3>1 DEF Row
      <4>2. ToSet(among[n]) = ToSet(among[n - 1]) \cup {fs[n]}
        BY <2>4, <4>1, OneMore
      <4>3. Row(among[n], F)
        BY <2>2, <2>4, <2>6, <4>1, RowGrows
      <4> QED BY <2>2, <2>5, <3>1, <4>2, <4>3
    <3>2. CASE fs[n] \notin S
      BY <2>2, <2>3, <2>5, <3>2
    <3> QED BY <3>1, <3>2
  <2> QED BY <2>1, <2>7
<1>4. Fine(N)
  <2>1. N \in 0..N
    BY <1>0
  <2> QED BY <1>3, <2>1
<1>5. UpTo(fs, N, S) = ToSet(fs) \cap S
  BY <1>0, Told DEF UpTo
<1> QED BY <1>1, <1>4, <1>5

------------------------------------------------------------------------------
(* Analysis: the sweep over start times. *)

(* Where the window that ends at i begins, how much it holds, and the places *)
(* that lie in some window of the first i that holds enough.                 *)
Since(t, w, i) == Min({k \in 1..i : t[i] - t[k] <= w})
Size(t, w, i)  == i - Since(t, w, i) + 1
Covered(t, w, least, i) ==
  {p \in 1..i : \E m \in 1..i : Size(t, w, m) >= least /\ p \in Since(t, w, m)..m}

Sorted(t, N) == t \in [1..N -> Int] /\ \A i, j \in 1..N : i <= j => t[i] <= t[j]

LEMMA SinceFacts ==
  ASSUME NEW N \in Nat, NEW t, Sorted(t, N), NEW w \in Nat, NEW i \in 1..N
  PROVE  /\ Since(t, w, i) \in 1..i /\ Size(t, w, i) \in 1..i
         /\ \A k \in 1..i : t[i] - t[k] <= w <=> Since(t, w, i) <= k
<1> DEFINE S == {k \in 1..i : t[i] - t[k] <= w}
<1>1. \A k \in 1..i : k \in 1..N /\ t[k] \in Int
  BY DEF Sorted
<1>2. i \in 1..i /\ t[i] - t[i] = 0
  BY <1>1
<1>3. S \in SUBSET Nat /\ i \in S
  BY <1>2
<1>4. Min(S) \in S /\ \A m \in S : Min(S) <= m
  <2> HIDE DEF S
  <2> QED BY <1>3, LeastIs
<1>5. Since(t, w, i) = Min(S)
  BY DEF Since
<1>6. Since(t, w, i) \in 1..i /\ t[i] - t[Since(t, w, i)] <= w
  BY <1>4, <1>5
<1>7. \A k \in 1..i : t[i] - t[k] <= w => Since(t, w, i) <= k
  BY <1>4, <1>5
<1>8. \A k \in 1..i : Since(t, w, i) <= k => t[i] - t[k] <= w
  <2> SUFFICES ASSUME NEW k \in 1..i, Since(t, w, i) <= k PROVE t[i] - t[k] <= w
    OBVIOUS
  <2>1. t[Since(t, w, i)] <= t[k] /\ t[k] \in Int /\ t[i] \in Int /\ t[Since(t, w, i)] \in Int
    BY <1>1, <1>6 DEF Sorted
  <2> QED BY <1>6, <2>1
<1> QED BY <1>6, <1>7, <1>8 DEF Size

LEMMA SinceGrows ==
  ASSUME NEW N \in Nat, NEW t, Sorted(t, N), NEW w \in Nat, NEW i \in 1..N, NEW m \in i..N
  PROVE  Since(t, w, i) <= Since(t, w, m)
<1>1. m \in 1..N /\ i <= m
  OBVIOUS
<1>2. /\ Since(t, w, i) \in 1..i /\ Since(t, w, m) \in 1..m
      /\ \A k \in 1..i : t[i] - t[k] <= w => Since(t, w, i) <= k
      /\ t[m] - t[Since(t, w, m)] <= w
  <2>1. /\ Since(t, w, i) \in 1..i
        /\ \A k \in 1..i : t[i] - t[k] <= w <=> Since(t, w, i) <= k
    BY SinceFacts
  <2>2. /\ Since(t, w, m) \in 1..m
        /\ \A k \in 1..m : t[m] - t[k] <= w <=> Since(t, w, m) <= k
    BY <1>1, SinceFacts
  <2>3. Since(t, w, m) <= Since(t, w, m)
    BY <2>2
  <2> QED BY <2>1, <2>2, <2>3
<1>3. CASE Since(t, w, m) \in 1..i
  <2>1. t[i] <= t[m] /\ t[i] \in Int /\ t[m] \in Int /\ t[Since(t, w, m)] \in Int
    BY <1>1, <1>2 DEF Sorted
  <2>2. t[i] - t[Since(t, w, m)] <= w
    BY <1>2, <2>1
  <2> QED BY <1>2, <1>3, <2>2
<1>4. CASE Since(t, w, m) \notin 1..i
  BY <1>2, <1>4
<1> QED BY <1>3, <1>4

Further(a, b)   == Max({a, b})
Upward(from, i) == [k \in 1..(i - from + 1) |-> from + k - 1]

(* The step of the sweep to the i-th flow. *)
Stepped(acc, i, t, w, least) ==
  LET j == Min({k \in acc.j..i : t[i] - t[k] <= w})
      dense == i - j + 1 >= least
  IN [j |-> j,
      longest |-> Max({acc.longest, i - j + 1}),
      members |-> IF dense THEN Mark(acc, j, i) ELSE acc.members,
      unmarked |-> IF dense THEN i + 1 ELSE acc.unmarked]
Unswept == [j |-> 1, longest |-> 0, members |-> <<>>, unmarked |-> 1]
Sweeping(sweep, t, w, least, N) ==
  sweep = [i \in 0..N |-> IF i = 0 THEN Unswept ELSE Stepped(sweep[i - 1], i, t, w, least)]

LEMMA SweepingExists ==
  ASSUME NEW t, NEW w, NEW least, NEW N \in Nat
  PROVE  \E sweep : Sweeping(sweep, t, w, least, N)
<1> DEFINE S == {n \in 0..N : ~ \E sweep : Sweeping(sweep, t, w, least, n)}
           next(acc, i) == Stepped(acc, i, t, w, least)
<1>1. 0 \notin S
  <2> DEFINE none == [n \in 0..0 |-> Unswept]
  <2>1. Sweeping(none, t, w, least, 0)
    BY DEF Sweeping
  <2> QED BY <2>1
<1>2. ASSUME S # {} PROVE FALSE
  <2>1. PICK n \in 1..N : n \in S /\ n - 1 \in 0..N /\ n - 1 \notin S
    <3>1. S \in SUBSET (0..N)
      OBVIOUS
    <3> HIDE DEF S
    <3> QED BY <1>1, <1>2, <3>1, FirstWrong
  <2>2. PICK sweep : Sweeping(sweep, t, w, least, n - 1)
    BY <2>1
  <2> DEFINE more == [k \in 0..n |-> IF k = n THEN next(sweep[n - 1], n) ELSE sweep[k]]
  <2>3. \A k \in 0..(n - 1) : sweep[k] = IF k = 0 THEN Unswept ELSE next(sweep[k - 1], k)
    BY <2>2 DEF Sweeping
  <2>4. \A k \in 0..n : (k # n => k \in 0..(n - 1)) /\ (k # 0 => k - 1 \in 0..n /\ k - 1 # n)
    OBVIOUS
  <2>5. \A k \in 0..n : more[k] = IF k = 0 THEN Unswept ELSE next(more[k - 1], k)
    <3> HIDE DEF next
    <3> QED BY <2>3, <2>4
  <2>6. more = [k \in 0..n |-> IF k = 0 THEN Unswept ELSE next(more[k - 1], k)]
    <3> HIDE DEF next
    <3>1. more = [k \in 0..n |-> more[k]]
      OBVIOUS
    <3> HIDE DEF more
    <3> QED BY <2>5, <3>1
  <2>7. Sweeping(more, t, w, least, n)
    BY <2>6 DEF Sweeping
  <2> QED BY <2>1, <2>7
<1>3. N \in 0..N
  OBVIOUS
<1> QED BY <1>2, <1>3

Rising(s) == s \in Seq(Nat) /\ \A a, b \in 1..Len(s) : a < b => s[a] < s[b]

LEMMA Marked ==
  ASSUME NEW s, Rising(s), NEW from \in Nat, NEW i \in Nat, from <= i,
         \A a \in 1..Len(s) : s[a] < from
  PROVE  Rising(s \o Upward(from, i)) /\ ToSet(s \o Upward(from, i)) = ToSet(s) \cup from..i
<1> DEFINE M == i - from + 1
           v == [k \in 1..M |-> from + k - 1]
           r == s \o v
           L == Len(s)
<1>1. s \in Seq(Nat) /\ L \in Nat /\ M \in Nat
  BY DEF Rising
<1>2. \A k \in 1..M : from + k - 1 \in from..i
  OBVIOUS
<1>3. v \in Seq(Nat) /\ Len(v) = M
  <2>1. \A k \in 1..M : v[k] \in Nat
    BY <1>2
  <2>2. v = [k \in 1..M |-> v[k]]
    OBVIOUS
  <2> HIDE DEF v, M
  <2> QED BY <1>1, <2>1, <2>2
<1>4. r \in Seq(Nat) /\ Len(r) = L + M /\ \A k \in 1..(L + M) : r[k] = IF k <= L THEN s[k] ELSE v[k - L]
  <2> HIDE DEF v, M
  <2>1. v \in Seq(Nat)
    BY <1>3
  <2>2. /\ s \o v \in Seq(Nat) /\ Len(s \o v) = Len(s) + Len(v)
        /\ \A k \in 1..(Len(s) + Len(v)) : (s \o v)[k] = IF k <= Len(s) THEN s[k] ELSE v[k - Len(s)]
    BY <1>1, <2>1, ConcatProperties
  <2> QED BY <1>3, <2>2
<1>5. \A k \in 1..(L + M) :
        \/ k \in 1..L /\ r[k] = s[k]
        \/ ~ (k <= L) /\ k - L \in 1..M /\ r[k] = from + (k - L) - 1
  <2> SUFFICES ASSUME NEW k \in 1..(L + M)
               PROVE  \/ k \in 1..L /\ r[k] = s[k]
                      \/ ~ (k <= L) /\ k - L \in 1..M /\ r[k] = from + (k - L) - 1
    OBVIOUS
  <2>1. CASE k <= L
    <3> HIDE DEF r, v, M, L
    <3> QED BY <1>1, <1>4, <2>1
  <2>2. CASE ~ (k <= L)
    <3>1. k - L \in 1..M
      <4> HIDE DEF L, M, v, r
      <4> QED BY <1>1, <2>2
    <3>2. r[k] = v[k - L]
      <4> HIDE DEF L, M, v, r
      <4> QED BY <1>4, <2>2
    <3>3. v[k - L] = from + (k - L) - 1
      <4> HIDE DEF L, M
      <4> QED BY <3>1
    <3> QED BY <2>2, <3>1, <3>2, <3>3
  <2> QED BY <2>1, <2>2
<1> HIDE DEF r, v
<1>6. Rising(r)
  <2> SUFFICES ASSUME NEW a \in 1..(L + M), NEW b \in 1..(L + M), a < b PROVE r[a] < r[b]
    BY <1>4 DEF Rising
  <2>1. (\A k \in 1..L : s[k] \in Nat /\ s[k] < from) /\ \A k, m \in 1..L : k < m => s[k] < s[m]
    BY <1>1 DEF Rising
  <2> HIDE DEF L, M
  <2>2. CASE b \in 1..L
    <3>1. a \in 1..L /\ a <= L /\ b <= L
      BY <1>1, <2>2
    <3> QED BY <1>5, <2>1, <2>2, <3>1
  <2>3. CASE b \notin 1..L
    <3>1. b - L \in 1..M /\ r[b] = from + (b - L) - 1
      BY <1>5, <2>3
    <3>2. CASE a \in 1..L
      <4>1. r[a] = s[a]
        BY <1>1, <1>5, <3>2
      <4> QED BY <1>1, <2>1, <3>1, <3>2, <4>1
    <3>3. CASE a \notin 1..L
      <4>1. a - L \in 1..M /\ r[a] = from + (a - L) - 1
        BY <1>5, <3>3
      <4> QED BY <1>1, <3>1, <4>1
    <3> QED BY <3>2, <3>3
  <2> QED BY <2>2, <2>3
<1>7. ToSet(r) = ToSet(s) \cup from..i
  <2>1. ToSet(r) = {r[k] : k \in 1..(L + M)} /\ ToSet(s) = {s[k] : k \in 1..L}
    BY <1>1, <1>4, Told
  <2>2. \A k \in 1..(L + M) : r[k] \in from..i \/ \E m \in 1..L : r[k] = s[m]
    BY <1>2, <1>5
  <2>3. \A k \in 1..L : k \in 1..(L + M) /\ r[k] = s[k]
    <3>1. \A k \in 1..L : k \in 1..(L + M) /\ k <= L
      <4> HIDE DEF L, M
      <4> QED BY <1>1
    <3> QED BY <1>5, <3>1
  <2>4. \A p \in from..i : \E k \in 1..(L + M) : r[k] = p
    <3> SUFFICES ASSUME NEW p \in from..i PROVE \E k \in 1..(L + M) : r[k] = p
      OBVIOUS
    <3>1. p - from + 1 \in 1..M
      OBVIOUS
    <3> HIDE DEF L, M
    <3>2. L + (p - from + 1) \in 1..(L + M) /\ ~ (L + (p - from + 1) <= L)
      BY <1>1, <3>1
    <3>3. r[L + (p - from + 1)] = from + ((L + (p - from + 1)) - L) - 1
      BY <1>5, <3>2
    <3>4. from + ((L + (p - from + 1)) - L) - 1 = p
      BY <1>1
    <3> QED BY <3>2, <3>3, <3>4
  <2> HIDE DEF L, M
  <2> QED BY <2>1, <2>2, <2>3, <2>4
<1> QED BY <1>6, <1>7 DEF r, v, Upward

LEMMA MoreOf ==
  ASSUME NEW a \in Nat, NEW b \in Nat
  PROVE  /\ Further(a, b) \in Nat /\ (Further(a, b) = a \/ Further(a, b) = b)
         /\ a <= Further(a, b) /\ b <= Further(a, b)
<1>1. \E m \in {a, b} : \A y \in {a, b} : m >= y
  <2>1. a >= b \/ b >= a
    OBVIOUS
  <2>2. a >= a /\ b >= b
    OBVIOUS
  <2> QED BY <2>1, <2>2
<1>2. Max({a, b}) \in {a, b} /\ \A y \in {a, b} : Max({a, b}) >= y
  BY <1>1 DEF Max
<1> QED BY <1>2 DEF Further

(* What the sweep has seen and marked, once it is at i. *)
SeenTo(acc, t, w, i) ==
  /\ acc.j = IF i = 0 THEN 1 ELSE Since(t, w, i)
  /\ acc.longest \in Nat
  /\ \A m \in 1..i : Size(t, w, m) <= acc.longest
  /\ acc.longest # 0 => \E m \in 1..i : Size(t, w, m) = acc.longest
MarkedTo(acc, t, w, least, i) ==
  /\ Rising(acc.members) /\ ToSet(acc.members) = Covered(t, w, least, i)
  /\ acc.unmarked \in 1..(i + 1)
  /\ acc.unmarked # 1 => Size(t, w, acc.unmarked - 1) >= least
  /\ \A m \in 1..i : Size(t, w, m) >= least => m < acc.unmarked

LEMMA StepFrom ==
  ASSUME NEW N \in Nat, NEW t, Sorted(t, N), NEW w \in Nat, NEW least \in Nat, NEW i \in 1..N,
         NEW acc, SeenTo(acc, t, w, i - 1)
  PROVE  /\ Stepped(acc, i, t, w, least).j = Since(t, w, i)
         /\ Stepped(acc, i, t, w, least).longest = Further(acc.longest, Size(t, w, i))
         /\ Stepped(acc, i, t, w, least).members =
              IF Size(t, w, i) >= least THEN Mark(acc, Since(t, w, i), i) ELSE acc.members
         /\ Stepped(acc, i, t, w, least).unmarked =
              IF Size(t, w, i) >= least THEN i + 1 ELSE acc.unmarked
<1> DEFINE j == Min({k \in acc.j..i : t[i] - t[k] <= w})
<1>1. acc.j \in 1..i /\ acc.j <= Since(t, w, i)
  <2>1. Since(t, w, i) \in 1..i
    BY SinceFacts
  <2>2. CASE i = 1
    <3>1. acc.j = 1
      BY <2>2 DEF SeenTo
    <3> QED BY <2>1, <3>1
  <2>3. CASE i # 1
    <3>1. i - 1 \in 1..N /\ i \in (i - 1)..N /\ i - 1 # 0
      BY <2>3
    <3>2. acc.j = Since(t, w, i - 1) /\ Since(t, w, i - 1) \in 1..(i - 1) /\ Since(t, w, i - 1) <= Since(t, w, i)
      BY <3>1, SinceFacts, SinceGrows DEF SeenTo
    <3> QED BY <2>1, <3>2
  <2> QED BY <2>2, <2>3
<1>2. {k \in acc.j..i : t[i] - t[k] <= w} = {k \in 1..i : t[i] - t[k] <= w}
  <2>1. \A k \in 1..i : t[i] - t[k] <= w => k \in acc.j..i
    <3>1. Since(t, w, i) \in 1..i /\ \A k \in 1..i : t[i] - t[k] <= w => Since(t, w, i) <= k
      BY SinceFacts
    <3> QED BY <1>1, <3>1
  <2>2. \A k \in acc.j..i : k \in 1..i
    BY <1>1
  <2> QED BY <2>1, <2>2
<1>3. j = Since(t, w, i)
  BY <1>2 DEF Since
<1>4. Stepped(acc, i, t, w, least) =
        [j |-> j,
         longest |-> Max({acc.longest, i - j + 1}),
         members |-> IF i - j + 1 >= least THEN Mark(acc, j, i) ELSE acc.members,
         unmarked |-> IF i - j + 1 >= least THEN i + 1 ELSE acc.unmarked]
  BY DEF Stepped
<1> HIDE DEF j
<1> QED BY <1>3, <1>4 DEF Size, Further

LEMMA SeenFurther ==
  ASSUME NEW N \in Nat, NEW t, Sorted(t, N), NEW w \in Nat, NEW least \in Nat, NEW i \in 1..N,
         NEW acc, SeenTo(acc, t, w, i - 1)
  PROVE  SeenTo(Stepped(acc, i, t, w, least), t, w, i)
<1> DEFINE so == Stepped(acc, i, t, w, least)
<1>1. so.j = Since(t, w, i) /\ so.longest = Further(acc.longest, Size(t, w, i))
  <2>1. Stepped(acc, i, t, w, least).j = Since(t, w, i)
    BY StepFrom
  <2>2. Stepped(acc, i, t, w, least).longest = Further(acc.longest, Size(t, w, i))
    BY StepFrom
  <2> QED BY <2>1, <2>2
<1>2. /\ acc.longest \in Nat /\ Size(t, w, i) \in Nat
      /\ \A m \in 1..(i - 1) : Size(t, w, m) <= acc.longest /\ Size(t, w, m) \in Nat
      /\ acc.longest # 0 => \E m \in 1..(i - 1) : Size(t, w, m) = acc.longest
  <2>1. \A m \in 1..N : Size(t, w, m) \in Nat
    BY SinceFacts
  <2>2. \A m \in 1..(i - 1) : m \in 1..N
    OBVIOUS
  <2> QED BY <2>1, <2>2 DEF SeenTo
<1>3. /\ so.longest \in Nat /\ (so.longest = acc.longest \/ so.longest = Size(t, w, i))
      /\ acc.longest <= so.longest /\ Size(t, w, i) <= so.longest
  <2> DEFINE most == Further(acc.longest, Size(t, w, i))
  <2>1. /\ most \in Nat /\ (most = acc.longest \/ most = Size(t, w, i))
        /\ acc.longest <= most /\ Size(t, w, i) <= most
    BY <1>2, MoreOf
  <2> HIDE DEF so
  <2> QED BY <1>1, <2>1
<1> HIDE DEF so
<1>4. \A m \in 1..i : m = i \/ m \in 1..(i - 1)
  OBVIOUS
<1>5. 1..(i - 1) \subseteq 1..i /\ i \in 1..i /\ i # 0
  OBVIOUS
<1>6. \A m \in 1..i : Size(t, w, m) <= so.longest
  BY <1>2, <1>3, <1>4
<1>7. so.longest # 0 => \E m \in 1..i : Size(t, w, m) = so.longest
  BY <1>2, <1>3, <1>5
<1> QED BY <1>1, <1>3, <1>5, <1>6, <1>7 DEF SeenTo, so

LEMMA MarkedFurther ==
  ASSUME NEW N \in Nat, NEW t, Sorted(t, N), NEW w \in Nat, NEW least \in Nat, NEW i \in 1..N,
         NEW acc, SeenTo(acc, t, w, i - 1), MarkedTo(acc, t, w, least, i - 1)
  PROVE  MarkedTo(Stepped(acc, i, t, w, least), t, w, least, i)
<1> DEFINE so == Stepped(acc, i, t, w, least)
           j == Since(t, w, i)
           dense(m) == Size(t, w, m) >= least
           from == Further(acc.unmarked, j)
<1>1. /\ so.members = IF dense(i) THEN Mark(acc, j, i) ELSE acc.members
      /\ so.unmarked = IF dense(i) THEN i + 1 ELSE acc.unmarked
  BY StepFrom
<1>2. /\ j \in 1..i /\ Rising(acc.members) /\ ToSet(acc.members) = Covered(t, w, least, i - 1)
      /\ acc.unmarked \in 1..i
      /\ acc.unmarked # 1 => dense(acc.unmarked - 1)
      /\ \A m \in 1..(i - 1) : dense(m) => m < acc.unmarked
  BY SinceFacts DEF MarkedTo
<1> HIDE DEF so, dense
<1>3. (\A m \in 1..i : m = i \/ m \in 1..(i - 1)) /\ 1..(i - 1) \subseteq 1..i /\ i \in 1..i
  OBVIOUS
<1>4. Covered(t, w, least, i - 1) = {p \in 1..(i - 1) : \E m \in 1..(i - 1) : dense(m) /\ p \in Since(t, w, m)..m}
  BY DEF Covered, dense
<1>5. Covered(t, w, least, i) = {p \in 1..i : \E m \in 1..i : dense(m) /\ p \in Since(t, w, m)..m}
  BY DEF Covered, dense
<1>6. CASE ~ dense(i)
  <2>1. Covered(t, w, least, i) = Covered(t, w, least, i - 1)
    <3>1. \A p \in 1..i : (\E m \in 1..i : dense(m) /\ p \in Since(t, w, m)..m) =>
                          p \in 1..(i - 1) /\ \E m \in 1..(i - 1) : dense(m) /\ p \in Since(t, w, m)..m
      <4> SUFFICES ASSUME NEW p \in 1..i, NEW m \in 1..i, dense(m), p \in Since(t, w, m)..m
                   PROVE  p \in 1..(i - 1) /\ m \in 1..(i - 1)
        OBVIOUS
      <4>1. m \in 1..(i - 1)
        BY <1>3, <1>6
      <4>2. Since(t, w, m) \in 1..m
        BY <4>1, SinceFacts
      <4> QED BY <4>1, <4>2
    <3> QED BY <1>3, <1>4, <1>5, <3>1
  <2>2. so.members = acc.members /\ so.unmarked = acc.unmarked
    BY <1>1, <1>6
  <2>3. \A m \in 1..i : dense(m) => m < so.unmarked
    BY <1>2, <1>3, <1>6, <2>2
  <2>4. acc.unmarked \in 1..(i + 1)
    BY <1>2
  <2> QED BY <1>2, <2>1, <2>2, <2>3, <2>4 DEF MarkedTo, dense, so
<1>7. CASE dense(i)
  <2>1. so.members = Mark(acc, j, i) /\ so.unmarked = i + 1
    BY <1>1, <1>7
  <2>2. (from = acc.unmarked \/ from = j) /\ acc.unmarked <= from /\ j <= from /\ from \in 1..i
    <3>1. acc.unmarked \in Nat /\ j \in Nat
      BY <1>2
    <3>2. (from = acc.unmarked \/ from = j) /\ acc.unmarked <= from /\ j <= from
      BY <3>1, MoreOf
    <3> QED BY <1>2, <3>2
  <2>3. so.members = acc.members \o Upward(from, i)
    BY <2>1 DEF Mark, Further, Upward
  <2> HIDE DEF from
  <2>4. \A p \in ToSet(acc.members) : p < from
    <3> SUFFICES ASSUME NEW p \in 1..(i - 1), NEW m \in 1..(i - 1), dense(m), p \in Since(t, w, m)..m
                 PROVE  p < from
      BY <1>2, <1>4
    <3>1. m < acc.unmarked
      BY <1>2
    <3> QED BY <1>2, <2>2, <3>1
  <2>5. Rising(so.members) /\ ToSet(so.members) = ToSet(acc.members) \cup from..i
    <3>1. \A a \in 1..Len(acc.members) : acc.members[a] < from
      <4>1. ToSet(acc.members) = {acc.members[a] : a \in 1..Len(acc.members)}
        BY <1>2, Told DEF Rising
      <4> QED BY <2>4, <4>1
    <3>2. from \in Nat /\ i \in Nat /\ from <= i
      BY <2>2
    <3>3. Rising(acc.members)
      BY <1>2
    <3> HIDE DEF so, j, from, dense
    <3>4. /\ Rising(acc.members \o Upward(from, i))
          /\ ToSet(acc.members \o Upward(from, i)) = ToSet(acc.members) \cup from..i
      BY <3>1, <3>2, <3>3, Marked
    <3> QED BY <2>3, <3>4
  <2>6. Covered(t, w, least, i) = Covered(t, w, least, i - 1) \cup from..i
    <3>1. \A p \in from..i : p \in Covered(t, w, least, i)
      <4> SUFFICES ASSUME NEW p \in from..i PROVE p \in 1..i /\ dense(i) /\ p \in Since(t, w, i)..i
        BY <1>3, <1>5
      <4> QED BY <1>2, <1>7, <2>2
    <3>2. \A p \in Covered(t, w, least, i - 1) : p \in Covered(t, w, least, i)
      BY <1>3, <1>4, <1>5
    <3>3. \A p \in Covered(t, w, least, i) : p \in from..i \/ p \in Covered(t, w, least, i - 1)
      <4> SUFFICES ASSUME NEW p \in 1..i, NEW m \in 1..i, dense(m), p \in Since(t, w, m)..m, p \notin from..i
                   PROVE  p \in Covered(t, w, least, i - 1)
        BY <1>5
      <4>1. p < from
        BY <2>2
      <4>2. CASE m \in 1..(i - 1)
        <5>1. p \in 1..(i - 1)
          BY <4>2
        <5> QED BY <1>4, <4>2, <5>1
      <4>3. CASE m = i
        <5>1. j <= p
          BY <4>3
        <5>2. from # j /\ from = acc.unmarked
          BY <1>2, <2>2, <4>1, <5>1
        <5> DEFINE u == from - 1
        <5>3. u \in 1..(i - 1) /\ p \in 1..(i - 1) /\ p <= u /\ acc.unmarked # 1 /\ j <= u
          BY <1>2, <2>2, <4>1, <5>1, <5>2
        <5>4. dense(u)
          BY <1>2, <5>2, <5>3
        <5>5. Since(t, w, u) <= j /\ Since(t, w, u) \in 1..u
          <6>1. u \in 1..N /\ i \in u..N
            BY <5>3
          <6> HIDE DEF u
          <6> QED BY <6>1, SinceGrows, SinceFacts
        <5>6. p \in Since(t, w, u)..u
          <6> HIDE DEF u, j
          <6> QED BY <1>2, <5>1, <5>3, <5>5
        <5> HIDE DEF u
        <5> QED BY <1>4, <5>3, <5>4, <5>6
      <4> QED BY <1>3, <4>2, <4>3
    <3> QED BY <3>1, <3>2, <3>3
  <2>7. i + 1 \in 1..(i + 1) /\ (i + 1) - 1 = i /\ \A m \in 1..i : m < i + 1
    OBVIOUS
  <2>8. so.unmarked \in 1..(i + 1) /\ dense(so.unmarked - 1) /\ \A m \in 1..i : m < so.unmarked
    BY <1>7, <2>1, <2>7
  <2>9. Rising(so.members) /\ ToSet(so.members) = Covered(t, w, least, i)
    BY <1>2, <2>5, <2>6
  <2> QED BY <2>8, <2>9 DEF MarkedTo, dense, so
<1> QED BY <1>6, <1>7 DEF so

LEMMA SweepFacts ==
  ASSUME NEW N \in Nat, NEW t, Sorted(t, N), NEW w \in Nat, NEW least \in Nat,
         NEW sweep, Sweeping(sweep, t, w, least, N)
  PROVE  SeenTo(sweep[N], t, w, N) /\ MarkedTo(sweep[N], t, w, least, N)
<1> DEFINE Fine(n) == SeenTo(sweep[n], t, w, n) /\ MarkedTo(sweep[n], t, w, least, n)
           S == {n \in 0..N : ~ Fine(n)}
<1>1. 0 \notin S
  <2>1. sweep[0] = Unswept
    BY DEF Sweeping
  <2>2. Covered(t, w, least, 0) = {} /\ ToSet(<<>>) = {}
    BY DEF Covered, ToSet
  <2>3. Unswept.j = 1 /\ Unswept.longest = 0 /\ Unswept.members = <<>> /\ Unswept.unmarked = 1
    BY DEF Unswept
  <2>4. SeenTo(Unswept, t, w, 0)
    BY <2>3 DEF SeenTo
  <2>5. MarkedTo(Unswept, t, w, least, 0)
    <3>1. Rising(<<>>) /\ 1 \in 1..(0 + 1) /\ 1..0 = {}
      BY DEF Rising
    <3> QED BY <2>2, <2>3, <3>1 DEF MarkedTo
  <2> QED BY <2>1, <2>4, <2>5
<1>2. ASSUME S # {} PROVE FALSE
  <2>1. PICK n \in 1..N : n \in S /\ n - 1 \in 0..N /\ n - 1 \notin S
    <3>1. S \in SUBSET (0..N)
      OBVIOUS
    <3> HIDE DEF S
    <3> QED BY <1>1, <1>2, <3>1, FirstWrong
  <2>2. Fine(n - 1)
    BY <2>1
  <2>3. sweep[n] = Stepped(sweep[n - 1], n, t, w, least)
    <3>1. n \in 0..N /\ n # 0
      OBVIOUS
    <3> QED BY <3>1 DEF Sweeping
  <2>4. Fine(n)
    BY <2>2, <2>3, SeenFurther, MarkedFurther
  <2> QED BY <2>1, <2>4
<1>3. N \in 0..N
  OBVIOUS
<1>4. Fine(N)
  BY <1>2, <1>3
<1> QED BY <1>4

------------------------------------------------------------------------------
(* Analysis: windows of calls and sets of calls. *)

Starts(g) == [i \in DOMAIN g |-> g[i].at]

LEMMA StartsSorted ==
  ASSUME NEW F, Timed(F), NEW g, Row(g, F)
  PROVE  /\ Len(g) \in Nat /\ Len(Starts(g)) = Len(g) /\ Sorted(Starts(g), Len(g))
         /\ \A i \in 1..Len(g) : Starts(g)[i] = g[i].at /\ g[i].at \in Int
<1>1. g \in Seq(F) /\ Len(g) \in Nat /\ DOMAIN g = 1..Len(g)
  BY DEF Row
<1>2. \A i \in 1..Len(g) : g[i] \in F /\ g[i].at \in Int
  BY <1>1 DEF Timed
<1>3. Starts(g) = [i \in 1..Len(g) |-> g[i].at]
  BY <1>1 DEF Starts
<1>4. Starts(g) \in Seq(Int) /\ Len(Starts(g)) = Len(g)
  BY <1>1, <1>2, <1>3
<1>5. \A i \in 1..Len(g) : Starts(g)[i] = g[i].at /\ g[i].at \in Int
  BY <1>2, <1>3
<1>6. Starts(g) \in [1..Len(g) -> Int]
  BY <1>2, <1>3
<1>7. \A i, j \in 1..Len(g) : i <= j => Starts(g)[i] <= Starts(g)[j]
  BY <1>5 DEF Row, InOrder
<1> QED BY <1>1, <1>4, <1>5, <1>6, <1>7 DEF Sorted

LEMMA Greatest ==
  ASSUME NEW N \in Nat, NEW S \in SUBSET (1..N), S # {}
  PROVE  \E m \in S : \A k \in S : k <= m
<1> DEFINE T == {N - k : k \in S}
<1>1. T \in SUBSET Nat /\ T # {}
  <2>1. \A k \in S : N - k \in Nat
    OBVIOUS
  <2> QED BY <2>1
<1>2. PICK x \in T : \A y \in T : x <= y
  <2> HIDE DEF T
  <2> QED BY <1>1, Smallest
<1>3. PICK m \in S : x = N - m
  BY <1>2
<1>4. \A k \in S : N - m <= N - k
  BY <1>2, <1>3
<1> HIDE DEF T
<1>5. \A k \in S : k \in 1..N
  OBVIOUS
<1>6. \A k \in S : k <= m
  BY <1>4, <1>5
<1> QED BY <1>6

LEMMA FlowsFinite == ASSUME NEW F, NEW g \in Seq(F) PROVE IsFiniteSet(ToSet(g))
<1> DEFINE place == [i \in 1..Len(g) |-> g[i]]
<1>1. ToSet(g) = {g[i] : i \in 1..Len(g)}
  BY Told
<1>2. place \in Surjection(1..Len(g), ToSet(g))
  <2>1. place \in [1..Len(g) -> ToSet(g)]
    BY <1>1
  <2>2. \A f \in ToSet(g) : \E i \in 1..Len(g) : place[i] = f
    BY <1>1
  <2> QED BY <2>1, <2>2 DEF Surjection
<1>3. IsFiniteSet(1..Len(g))
  BY FS_Interval
<1> HIDE DEF place
<1> QED BY <1>2, <1>3, FS_Surjection

LEMMA OnceCounts ==
  ASSUME NEW F, NEW g \in Seq(F), Once(g)
  PROVE  Cardinality(ToSet(g)) = Len(g)
<1> DEFINE place == [i \in 1..Len(g) |-> g[i]]
<1>1. g \in Seq(F) /\ Len(g) \in Nat /\ ToSet(g) = {g[i] : i \in 1..Len(g)}
  BY Told
<1>2. place \in [1..Len(g) -> ToSet(g)]
  BY <1>1
<1>3. place \in Surjection(1..Len(g), ToSet(g))
  <2>1. \A f \in ToSet(g) : \E i \in 1..Len(g) : place[i] = f
    BY <1>1
  <2> QED BY <1>2, <2>1 DEF Surjection
<1>4. place \in Injection(1..Len(g), ToSet(g))
  <2>1. \A i, j \in 1..Len(g) : place[i] = place[j] => i = j
    BY DEF Once
  <2> HIDE DEF place
  <2> QED BY <1>2, <2>1 DEF Injection, IsInjective
<1> HIDE DEF place
<1>5. IsFiniteSet(1..Len(g)) /\ Cardinality(1..Len(g)) = Len(g)
  <2> DEFINE L == Len(g)
  <2>1. L \in Nat
    BY <1>1
  <2> HIDE DEF L
  <2>2. IsFiniteSet(1..L) /\ Cardinality(1..L) = L
    BY <2>1, FS_Interval
  <2> QED BY <2>2 DEF L
<1>6. Cardinality(ToSet(g)) = Cardinality(1..Len(g))
  BY <1>3, <1>4, <1>5, FS_Surjection
<1> QED BY <1>5, <1>6

(* The flows of S that start in the window after s. *)
InWindow(S, s, w) == {x \in S : x.at \in s.at..(s.at + w)}

LEMMA SizeIsHeld ==
  ASSUME NEW F, Timed(F), NEW g, Row(g, F), NEW w \in Nat, NEW n \in Nat,
         NEW m \in 1..Len(g), Size(Starts(g), w, m) >= n,
         NEW S \in SUBSET ToSet(g), \A k \in Since(Starts(g), w, m)..m : g[k] \in S,
         NEW p \in Since(Starts(g), w, m)..m
  PROVE  InRun(S, g[p], w, n)
<1> DEFINE N == Len(g)
           t == Starts(g)
           a == Since(t, w, m)
           W == InWindow(S, g[a], w)
           place == [k \in a..m |-> g[k]]
<1>1. N \in Nat /\ Sorted(t, N) /\ \A i \in 1..N : t[i] = g[i].at /\ g[i].at \in Int
  BY StartsSorted
<1>2. /\ a \in 1..m /\ Size(t, w, m) = m - a + 1
      /\ \A k \in 1..m : t[m] - t[k] <= w <=> a <= k
  <2>1. m \in 1..N
    OBVIOUS
  <2> HIDE DEF N, t
  <2> QED BY <1>1, <2>1, SinceFacts DEF Size
<1> HIDE DEF t, a
<1>3. \A k \in a..m : k \in 1..N /\ k \in 1..m
  BY <1>1, <1>2
<1>4. \A k \in a..m : g[k].at \in g[a].at..(g[a].at + w)
  <2> SUFFICES ASSUME NEW k \in a..m PROVE g[k].at \in g[a].at..(g[a].at + w)
    OBVIOUS
  <2>1. a \in a..m /\ a <= k /\ k <= m /\ m \in a..m
    BY <1>2
  <2>2. t[a] <= t[k] /\ t[k] <= t[m] /\ t[m] - t[a] <= w
    BY <1>2, <1>3, <1>1, <2>1 DEF Sorted
  <2>3. t[a] = g[a].at /\ t[k] = g[k].at /\ t[m] = g[m].at /\ g[a].at \in Int /\ g[k].at \in Int /\ g[m].at \in Int
    BY <1>1, <1>3, <2>1
  <2>4. g[a].at <= g[k].at /\ g[k].at <= g[a].at + w
    <3> DEFINE x == g[a].at
               y == g[k].at
               z == g[m].at
    <3>1. x \in Int /\ y \in Int /\ z \in Int /\ x <= y /\ y <= z /\ z - x <= w
      BY <2>2, <2>3
    <3> HIDE DEF x, y, z
    <3>2. x <= y /\ y <= x + w
      BY <3>1
    <3> QED BY <3>2 DEF x, y
  <2> QED BY <2>3, <2>4
<1>5. \A k \in a..m : g[k] \in W
  BY <1>4 DEF InWindow, a, t
<1>6. IsFiniteSet(W)
  <2>1. g \in Seq(F) /\ W \in SUBSET ToSet(g)
    BY DEF Row, InWindow
  <2> HIDE DEF W
  <2> QED BY <2>1, FlowsFinite, FS_Subset
<1> HIDE DEF W
<1>7. place \in Injection(a..m, W)
  <2>1. place \in [a..m -> W]
    BY <1>5
  <2>2. \A k, l \in a..m : place[k] = place[l] => k = l
    BY <1>3 DEF Row, Once
  <2> HIDE DEF place
  <2> QED BY <2>1, <2>2 DEF Injection, IsInjective
<1> HIDE DEF place
<1>8. Cardinality(a..m) <= Cardinality(W)
  BY <1>6, <1>7, FS_Injection
<1>9. Cardinality(a..m) = m - a + 1
  <2>1. a \in Int /\ m \in Int /\ ~ (a > m)
    BY <1>2
  <2> QED BY <2>1, FS_Interval
<1>10. Cardinality(W) >= n
  <2>1. Cardinality(W) \in Nat
    BY <1>6, FS_CardinalityType
  <2>2. m - a + 1 >= n /\ m - a + 1 \in Int
    BY <1>2 DEF t
  <2> QED BY <1>8, <1>9, <2>1, <2>2
<1>11. g[a] \in S /\ g[p].at \in g[a].at..(g[a].at + w)
  <2>1. a \in a..m /\ p \in a..m
    BY <1>2 DEF a, t
  <2>2. \A k \in a..m : g[k] \in S
    BY DEF a, t
  <2> QED BY <1>4, <2>1, <2>2
<1> QED BY <1>10, <1>11 DEF InRun, W, InWindow

LEMMA HeldIsSize ==
  ASSUME NEW F, Timed(F), NEW g, Row(g, F), NEW w \in Nat, NEW n \in Nat,
         NEW S \in SUBSET ToSet(g), NEW f \in S, InRun(S, f, w, n)
  PROVE  \E m \in 1..Len(g) : /\ Size(Starts(g), w, m) >= n
                              /\ \E p \in Since(Starts(g), w, m)..m : f = g[p]
<1> DEFINE N == Len(g)
           t == Starts(g)
<1>1. /\ N \in Nat /\ Sorted(t, N) /\ (\A i \in 1..N : t[i] = g[i].at /\ g[i].at \in Int)
      /\ g \in Seq(F) /\ ToSet(g) = {g[k] : k \in 1..N}
  BY StartsSorted, Told DEF Row
<1>2. PICK s \in S : f.at \in s.at..(s.at + w) /\ Cardinality(InWindow(S, s, w)) >= n
  BY DEF InRun, InWindow
<1> DEFINE W == InWindow(S, s, w)
           K == {k \in 1..N : g[k] \in W}
<1>3. f \in W /\ W \in SUBSET ToSet(g) /\ \A x \in W : x.at \in s.at..(s.at + w)
  BY <1>2 DEF InWindow
<1> HIDE DEF W
<1>4. PICK m \in K : \A k \in K : k <= m
  <2>1. K \in SUBSET (1..N) /\ K # {}
    BY <1>1, <1>3
  <2> HIDE DEF K
  <2> QED BY <1>1, <2>1, Greatest
<1>5. m \in 1..N /\ g[m] \in W
  BY <1>4
<1> DEFINE a == Since(t, w, m)
<1>6. /\ a \in 1..m /\ Size(t, w, m) = m - a + 1
      /\ \A k \in 1..m : t[m] - t[k] <= w <=> a <= k
  <2> HIDE DEF N, t
  <2> QED BY <1>1, <1>5, SinceFacts DEF Size
<1> HIDE DEF a
<1>7. \A k \in K : k \in a..m
  <2> SUFFICES ASSUME NEW k \in K PROVE k \in a..m
    OBVIOUS
  <2>1. k \in 1..N /\ g[k] \in W /\ k <= m
    BY <1>4
  <2>2. PICK i \in 1..N : s = g[i]
    BY <1>1
  <2>3. s.at \in Int /\ g[k].at \in Int /\ g[m].at \in Int
    BY <1>1, <1>5, <2>1, <2>2
  <2>4. g[k].at \in s.at..(s.at + w) /\ g[m].at \in s.at..(s.at + w)
    BY <1>3, <1>5, <2>1
  <2>5. g[m].at - g[k].at <= w
    BY <2>3, <2>4
  <2>6. t[m] - t[k] <= w
    BY <1>1, <1>5, <2>1, <2>5
  <2>7. k \in 1..m
    BY <2>1, <1>5
  <2> HIDE DEF K, t
  <2> QED BY <1>6, <2>6, <2>7
<1>8. W \subseteq {g[k] : k \in a..m}
  BY <1>1, <1>3, <1>7
<1> DEFINE V == {g[k] : k \in a..m}
           place == [k \in a..m |-> g[k]]
<1>9. place \in Surjection(a..m, V)
  <2>1. place \in [a..m -> V] /\ \A v \in V : \E k \in a..m : place[k] = v
    OBVIOUS
  <2> HIDE DEF place, V
  <2> QED BY <2>1 DEF Surjection
<1>10. IsFiniteSet(a..m) /\ Cardinality(a..m) = m - a + 1
  <2>1. a \in Int /\ m \in Int /\ ~ (a > m)
    BY <1>5, <1>6
  <2> QED BY <2>1, FS_Interval
<1> HIDE DEF place, V
<1>11. IsFiniteSet(V) /\ Cardinality(V) <= Cardinality(a..m)
  BY <1>9, <1>10, FS_Surjection
<1>12. IsFiniteSet(W) /\ Cardinality(W) <= Cardinality(V)
  <2>1. W \in SUBSET V
    BY <1>8 DEF V
  <2> QED BY <1>11, <2>1, FS_Subset
<1>13. Size(t, w, m) >= n
  <2>1. Cardinality(W) \in Nat /\ Cardinality(V) \in Nat
    BY <1>11, <1>12, FS_CardinalityType
  <2>2. m - a + 1 \in Int /\ Cardinality(W) >= n
    BY <1>2, <1>5, <1>6 DEF W
  <2> QED BY <1>6, <1>10, <1>11, <1>12, <2>1, <2>2
<1>14. \E p \in a..m : f = g[p]
  BY <1>3, <1>8
<1> QED BY <1>5, <1>13, <1>14 DEF a, t

(* The run that is told of the calls g. *)
RunsOf(g, w, least)    == DenseRuns(Starts(g), w, least)
MembersOf(g, w, least) ==
  [i \in DOMAIN RunsOf(g, w, least).members |-> g[RunsOf(g, w, least).members[i]]]
InRunsOf(g, w, least)  == {f \in ToSet(g) : InRun(ToSet(g), f, w, least)}

LEMMA RunsSwept ==
  ASSUME NEW F, Timed(F), NEW g, Row(g, F), NEW w \in Nat, NEW least \in Nat
  PROVE  /\ SeenTo(RunsOf(g, w, least), Starts(g), w, Len(g))
         /\ MarkedTo(RunsOf(g, w, least), Starts(g), w, least, Len(g))
<1> DEFINE N == Len(g)
           t == Starts(g)
<1>1. N \in Nat /\ Sorted(t, N) /\ Len(t) = N
  BY StartsSorted
<1>2. RunsOf(g, w, least) = (CHOOSE sweep : Sweeping(sweep, t, w, least, Len(t)))[Len(t)]
  BY DEF RunsOf, DenseRuns, Sweeping, Stepped, Unswept
<1> HIDE DEF N, t
<1>3. PICK sweep : Sweeping(sweep, t, w, least, N) /\ RunsOf(g, w, least) = sweep[N]
  BY <1>1, <1>2, SweepingExists
<1>4. SeenTo(sweep[N], t, w, N) /\ MarkedTo(sweep[N], t, w, least, N)
  BY <1>1, <1>3, SweepFacts
<1> QED BY <1>3, <1>4 DEF N, t

LEMMA MembersFacts ==
  ASSUME NEW F, Timed(F), NEW g, Row(g, F), NEW w \in Nat, NEW least \in Nat
  PROVE  /\ Row(MembersOf(g, w, least), F)
         /\ ToSet(MembersOf(g, w, least)) =
              {g[p] : p \in Covered(Starts(g), w, least, Len(g))}
<1> DEFINE N == Len(g)
           t == Starts(g)
           s == RunsOf(g, w, least).members
           v == MembersOf(g, w, least)
           cov == Covered(t, w, least, N)
<1>1. N \in Nat /\ g \in Seq(F)
  BY DEF Row
<1>2. Rising(s) /\ ToSet(s) = cov
  BY RunsSwept DEF MarkedTo
<1>3. cov \subseteq 1..N
  BY DEF Covered
<1>4. v = [i \in DOMAIN s |-> g[s[i]]]
  BY DEF MembersOf
<1> HIDE DEF s, v, cov, t
<1>5. /\ s \in Seq(Nat) /\ Len(s) \in Nat /\ DOMAIN s = 1..Len(s) /\ ToSet(s) = {s[i] : i \in 1..Len(s)}
      /\ \A a, b \in 1..Len(s) : a < b => s[a] < s[b]
  BY <1>2, Told DEF Rising
<1>6. \A i \in 1..Len(s) : s[i] \in 1..N /\ v[i] = g[s[i]] /\ v[i] \in F
  BY <1>1, <1>2, <1>3, <1>4, <1>5
<1>7. v \in Seq(F) /\ Len(v) = Len(s)
  <2>1. v = [i \in 1..Len(s) |-> v[i]]
    BY <1>4, <1>5
  <2> QED BY <1>5, <1>6, <2>1
<1>8. Once(v)
  <2> SUFFICES ASSUME NEW a \in 1..Len(s), NEW b \in 1..Len(s), v[a] = v[b] PROVE a = b
    BY <1>7 DEF Once
  <2>1. s[a] = s[b]
    BY <1>6 DEF Row, Once
  <2>2. ~ (s[a] < s[b]) /\ ~ (s[b] < s[a])
    <3>1. s[a] \in Nat /\ s[b] \in Nat
      BY <1>6
    <3> QED BY <2>1, <3>1
  <2> QED BY <1>5, <2>2
<1>9. InOrder(v)
  <2> SUFFICES ASSUME NEW a \in 1..Len(s), NEW b \in 1..Len(s), a <= b PROVE v[a].at <= v[b].at
    BY <1>7 DEF InOrder
  <2>1. s[a] <= s[b]
    <3>1. a = b \/ a < b
      OBVIOUS
    <3>2. s[a] \in Nat /\ s[b] \in Nat
      BY <1>6
    <3> QED BY <1>5, <3>1, <3>2
  <2> QED BY <1>6, <2>1 DEF Row, InOrder
<1>10. ToSet(v) = {g[p] : p \in cov}
  <2>1. ToSet(v) = {v[i] : i \in 1..Len(s)}
    BY <1>7, Told
  <2>2. \A i \in 1..Len(s) : s[i] \in cov /\ v[i] = g[s[i]]
    BY <1>2, <1>5, <1>6
  <2>3. \A p \in cov : \E i \in 1..Len(s) : p = s[i] /\ v[i] = g[p]
    BY <1>2, <1>5, <1>6
  <2> QED BY <2>1, <2>2, <2>3
<1> QED BY <1>7, <1>8, <1>9, <1>10 DEF Row, v, cov, t

LEMMA MembersAreInRuns ==
  ASSUME NEW F, Timed(F), NEW g, Row(g, F), NEW w \in Nat, NEW least \in Nat
  PROVE  ToSet(MembersOf(g, w, least)) = InRunsOf(g, w, least)
<1> DEFINE N == Len(g)
           t == Starts(g)
           cov == Covered(t, w, least, N)
<1>1. N \in Nat /\ g \in Seq(F) /\ ToSet(g) = {g[p] : p \in 1..N} /\ Sorted(t, N)
  BY StartsSorted, Told DEF Row
<1>2. cov = {p \in 1..N : \E m \in 1..N : Size(t, w, m) >= least /\ p \in Since(t, w, m)..m}
  BY DEF Covered
<1>3. ToSet(MembersOf(g, w, least)) = {g[p] : p \in cov}
  BY MembersFacts
<1> HIDE DEF cov, t, N
<1>4. \A m \in 1..N : \A k \in Since(t, w, m)..m : k \in 1..N
  <2>1. \A m \in 1..N : Since(t, w, m) \in 1..m
    BY <1>1, SinceFacts
  <2> QED BY <1>1, <2>1
<1>5. \A p \in cov : g[p] \in InRunsOf(g, w, least)
  <2> SUFFICES ASSUME NEW p \in 1..N, NEW m \in 1..N, Size(t, w, m) >= least, p \in Since(t, w, m)..m
               PROVE  g[p] \in InRunsOf(g, w, least)
    BY <1>2
  <2>1. \A k \in Since(t, w, m)..m : g[k] \in ToSet(g)
    BY <1>1, <1>4
  <2>2. ToSet(g) \in SUBSET ToSet(g)
    OBVIOUS
  <2>3. InRun(ToSet(g), g[p], w, least)
    BY <2>1, <2>2, SizeIsHeld DEF N, t
  <2> QED BY <1>1, <2>3 DEF InRunsOf
<1>6. \A f \in InRunsOf(g, w, least) : \E p \in cov : f = g[p]
  <2> SUFFICES ASSUME NEW f \in ToSet(g), InRun(ToSet(g), f, w, least) PROVE \E p \in cov : f = g[p]
    BY DEF InRunsOf
  <2>1. ToSet(g) \in SUBSET ToSet(g)
    OBVIOUS
  <2>2. PICK m \in 1..N : Size(t, w, m) >= least /\ \E p \in Since(t, w, m)..m : f = g[p]
    BY <2>1, HeldIsSize DEF N, t
  <2>3. PICK p \in Since(t, w, m)..m : f = g[p]
    BY <2>2
  <2> QED BY <1>2, <1>4, <2>2, <2>3
<1> QED BY <1>3, <1>5, <1>6

LEMMA LongestFacts ==
  ASSUME NEW F, Timed(F), NEW g, Row(g, F), g # <<>>, NEW w \in Nat, NEW least \in Nat
  PROVE  /\ RunsOf(g, w, least).longest \in Nat
         /\ RunsOf(g, w, least).longest < least <=> InRunsOf(g, w, least) = {}
         /\ RunsOf(g, w, least).longest >= least => MembersOf(g, w, least) # <<>>
         /\ \A high \in Nat :
              RunsOf(g, w, least).longest >= least =>
                (RunsOf(g, w, least).longest >= high <=>
                   \E f \in InRunsOf(g, w, least) : InRun(InRunsOf(g, w, least), f, w, high))
<1> DEFINE N == Len(g)
           t == Starts(g)
           S == InRunsOf(g, w, least)
           v == MembersOf(g, w, least)
           longest == RunsOf(g, w, least).longest
           cov == Covered(t, w, least, N)
<1>1. /\ N \in Nat /\ N # 0 /\ g \in Seq(F) /\ Sorted(t, N) /\ 1 \in 1..N
  <2>1. g \in Seq(F) /\ Len(g) # 0 /\ Len(g) \in Nat
    BY DEF Row
  <2> QED BY <2>1, StartsSorted
<1>2. /\ longest \in Nat /\ (\A m \in 1..N : Size(t, w, m) <= longest)
      /\ longest # 0 => \E m \in 1..N : Size(t, w, m) = longest
  BY RunsSwept DEF SeenTo
<1>3. ToSet(v) = S /\ S = {g[p] : p \in cov} /\ S \in SUBSET ToSet(g)
  <2>1. ToSet(v) = {g[p] : p \in cov}
    BY MembersFacts
  <2>2. ToSet(v) = S
    BY MembersAreInRuns
  <2> QED BY <2>1, <2>2 DEF InRunsOf
<1>4. cov = {p \in 1..N : \E m \in 1..N : Size(t, w, m) >= least /\ p \in Since(t, w, m)..m}
  BY DEF Covered
<1> HIDE DEF N, t, S, v, longest, cov
<1>5. \A m \in 1..N : Size(t, w, m) \in 1..m /\ Since(t, w, m) \in 1..m /\ m \in Since(t, w, m)..m
  <2>1. \A m \in 1..N : Size(t, w, m) \in 1..m /\ Since(t, w, m) \in 1..m
    BY <1>1, SinceFacts
  <2> QED BY <2>1
<1>6. PICK top \in 1..N : Size(t, w, top) = longest
  <2>1. Size(t, w, 1) \in 1..1 /\ Size(t, w, 1) <= longest
    BY <1>1, <1>2, <1>5
  <2> QED BY <1>2, <2>1
<1>7. longest >= least => \A k \in Since(t, w, top)..top : g[k] \in S
  <2> SUFFICES ASSUME longest >= least, NEW k \in Since(t, w, top)..top PROVE k \in cov
    BY <1>3
  <2>1. k \in 1..N
    BY <1>1, <1>5
  <2> QED BY <1>4, <1>6, <2>1
<1>8. longest >= least => S # {}
  BY <1>5, <1>6, <1>7
<1>9. longest < least => S = {}
  <2> SUFFICES ASSUME longest < least, NEW p \in cov PROVE FALSE
    BY <1>3
  <2>1. PICK m \in 1..N : Size(t, w, m) >= least
    BY <1>4
  <2>2. Size(t, w, m) \in Nat /\ Size(t, w, m) <= longest
    BY <1>2, <1>5
  <2> QED BY <1>2, <2>1, <2>2
<1>10. longest >= least => v # <<>>
  <2>1. ToSet(<<>>) = {}
    BY DEF ToSet
  <2> QED BY <1>3, <1>8, <2>1
<1>11. ASSUME NEW high \in Nat, longest >= least
       PROVE  longest >= high <=> \E f \in S : InRun(S, f, w, high)
  <2>1. ASSUME longest >= high PROVE \E f \in S : InRun(S, f, w, high)
    <3>1. InRun(S, g[top], w, high) /\ g[top] \in S
      <4>1. Size(Starts(g), w, top) >= high /\ top \in 1..Len(g) /\ top \in Since(Starts(g), w, top)..top
        BY <1>5, <1>6, <2>1 DEF t, N
      <4>2. \A k \in Since(Starts(g), w, top)..top : g[k] \in S
        BY <1>7, <1>11 DEF t
      <4> QED BY <1>3, <4>1, <4>2, SizeIsHeld
    <3> QED BY <3>1
  <2>2. ASSUME NEW f \in S, InRun(S, f, w, high) PROVE longest >= high
    <3>1. PICK m \in 1..N : Size(t, w, m) >= high
      BY <1>3, <2>2, HeldIsSize DEF t, N
    <3>2. Size(t, w, m) \in Nat /\ Size(t, w, m) <= longest
      BY <1>2, <1>5
    <3> QED BY <1>2, <3>1, <3>2
  <2> QED BY <2>1, <2>2
<1>12. longest < least <=> S = {}
  BY <1>2, <1>8, <1>9
<1> QED BY <1>2, <1>10, <1>11, <1>12 DEF S, v, longest

------------------------------------------------------------------------------
(* Analysis: the groups, and what is told of them. *)

NamedOf(r)  == {f \in ToSet(r) : Endpoint(f) # <<>>}
OfKey(S, k) == {f \in S : EndpointKey(f) = k}

LEMMA HeadIn ==
  ASSUME NEW F, NEW s \in Seq(F), s # <<>>
  PROVE  Head(s) \in ToSet(s) /\ Head(s) = s[1] /\ 1 \in 1..Len(s)
<1>1. Head(s) = s[1] /\ 1 \in 1..Len(s)
  OBVIOUS
<1> QED BY <1>1, Told

LEMMA SomeIsRow ==
  ASSUME NEW F, NEW s \in Seq(F), ToSet(s) # {}
  PROVE  s # <<>>
BY DEF ToSet

LEMMA EndpointGroups ==
  ASSUME NEW F, Timed(F), NEW r, Row(r, F)
  PROVE  /\ \A g \in ByEndpoint(r) :
              /\ Row(g, F) /\ g # <<>> /\ Head(g) \in NamedOf(r)
              /\ g = Within(Within(r, NamedOf(r)), OfKey(NamedOf(r), EndpointKey(Head(g))))
              /\ ToSet(g) = OfKey(NamedOf(r), EndpointKey(Head(g)))
         /\ \A f \in NamedOf(r) : \E g \in ByEndpoint(r) : ToSet(g) = OfKey(NamedOf(r), EndpointKey(f))
<1> DEFINE n == Within(r, NamedOf(r))
           group(k) == Within(n, OfKey(NamedOf(r), k))
<1>1. Row(n, F) /\ ToSet(n) = NamedOf(r)
  <2>1. Row(n, F) /\ ToSet(n) = ToSet(r) \cap NamedOf(r)
    BY WithinFacts
  <2> QED BY <2>1 DEF NamedOf
<1>2. ByEndpoint(r) = {Within(n, {f \in ToSet(n) : EndpointKey(f) = k}) : k \in {EndpointKey(f) : f \in ToSet(n)}}
  BY DEF ByEndpoint, Only, NamedOf
<1>3. \A k : {f \in ToSet(n) : EndpointKey(f) = k} = OfKey(NamedOf(r), k)
  BY <1>1 DEF OfKey
<1> HIDE DEF n
<1>4. \A k : Row(group(k), F) /\ ToSet(group(k)) = OfKey(NamedOf(r), k)
  <2> SUFFICES ASSUME NEW k PROVE Row(group(k), F) /\ ToSet(group(k)) = OfKey(NamedOf(r), k)
    OBVIOUS
  <2>1. Row(group(k), F) /\ ToSet(group(k)) = ToSet(n) \cap OfKey(NamedOf(r), k)
    BY <1>1, WithinFacts
  <2> QED BY <1>1, <2>1 DEF OfKey
<1>5. ByEndpoint(r) = {group(k) : k \in {EndpointKey(f) : f \in NamedOf(r)}}
  BY <1>1, <1>2, <1>3
<1> HIDE DEF group
<1>6. \A f \in NamedOf(r) : group(EndpointKey(f)) \in ByEndpoint(r)
  BY <1>5
<1>7. ASSUME NEW f \in NamedOf(r), NEW g, g = group(EndpointKey(f))
      PROVE  /\ Row(g, F) /\ g # <<>> /\ Head(g) \in NamedOf(r)
             /\ g = group(EndpointKey(Head(g)))
             /\ ToSet(g) = OfKey(NamedOf(r), EndpointKey(Head(g)))
  <2>1. Row(g, F) /\ ToSet(g) = OfKey(NamedOf(r), EndpointKey(f)) /\ f \in ToSet(g)
    BY <1>4, <1>7 DEF OfKey
  <2>2. g \in Seq(F) /\ g # <<>>
    BY <2>1, SomeIsRow DEF Row
  <2>3. Head(g) \in ToSet(g)
    BY <2>2, HeadIn
  <2>4. EndpointKey(Head(g)) = EndpointKey(f) /\ Head(g) \in NamedOf(r)
    BY <2>1, <2>3 DEF OfKey
  <2> QED BY <1>7, <2>1, <2>2, <2>4
<1>8. \A g \in ByEndpoint(r) : \E f \in NamedOf(r) : g = group(EndpointKey(f))
  BY <1>5
<1>9. \A g \in ByEndpoint(r) :
        /\ Row(g, F) /\ g # <<>> /\ Head(g) \in NamedOf(r)
        /\ g = group(EndpointKey(Head(g)))
        /\ ToSet(g) = OfKey(NamedOf(r), EndpointKey(Head(g)))
  BY <1>7, <1>8
<1> QED BY <1>4, <1>6, <1>9 DEF group, n

RunFinding(rule, g, w, least, high) ==
  Finding(rule, EndpointKey(Head(g)), IF RunsOf(g, w, least).longest >= high THEN 3 ELSE 2,
          MembersOf(g, w, least))

LEMMA DenseFindingsAre ==
  ASSUME NEW rule, NEW groups, NEW w, NEW least, NEW high, NEW x
  PROVE  x \in DenseFindings(rule, groups, w, least, high) <=>
           \E g \in groups : ~ (RunsOf(g, w, least).longest < least) /\ x = RunFinding(rule, g, w, least, high)
<1> DEFINE of(g) == IF RunsOf(g, w, least).longest < least THEN {} ELSE {RunFinding(rule, g, w, least, high)}
<1>1. DenseFindings(rule, groups, w, least, high) = UNION {of(g) : g \in groups}
  BY DEF DenseFindings, RunsOf, Starts, RunFinding, MembersOf
<1>2. \A g : x \in of(g) <=> ~ (RunsOf(g, w, least).longest < least) /\ x = RunFinding(rule, g, w, least, high)
  OBVIOUS
<1> HIDE DEF of
<1> QED BY <1>1, <1>2

LEMMA DenseTellsRuns ==
  ASSUME NEW F, Timed(F), NEW r, Row(r, F), NEW rule,
         NEW w \in Nat, NEW least \in Nat, NEW high \in Nat
  PROVE  TellsRuns(DenseFindings(rule, ByEndpoint(r), w, least, high), NamedOf(r), w, least, high)
<1> DEFINE all == NamedOf(r)
           groups == ByEndpoint(r)
           found == DenseFindings(rule, groups, w, least, high)
           told == {f \in all : InRun(OfKey(all, EndpointKey(f)), f, w, least)}
<1>1. \A g \in groups : /\ Row(g, F) /\ g # <<>> /\ Head(g) \in all
                         /\ ToSet(g) = OfKey(all, EndpointKey(Head(g)))
  BY EndpointGroups
<1>2. \A f \in all : \E g \in groups : ToSet(g) = OfKey(all, EndpointKey(f))
  BY EndpointGroups
<1> HIDE DEF all, groups
<1>3. \A g \in groups : InRunsOf(g, w, least) = OfKey(told, EndpointKey(Head(g)))
  <2> SUFFICES ASSUME NEW g \in groups PROVE InRunsOf(g, w, least) = OfKey(told, EndpointKey(Head(g)))
    OBVIOUS
  <2>1. ToSet(g) = OfKey(all, EndpointKey(Head(g)))
    BY <1>1
  <2> QED BY <2>1 DEF InRunsOf, OfKey
<1> HIDE DEF told
<1>4. ASSUME NEW x \in found
      PROVE  \E g \in groups :
               /\ Row(x.flows, F) /\ x.flows # <<>> /\ x.flows = MembersOf(g, w, least)
               /\ ToSet(x.flows) = InRunsOf(g, w, least)
               /\ ToSet(x.flows) = OfKey(told, EndpointKey(Head(g)))
               /\ EndpointKey(Head(x.flows)) = EndpointKey(Head(g))
               /\ x.severity = 3 <=> \E f \in ToSet(x.flows) : InRun(ToSet(x.flows), f, w, high)
  <2>1. PICK g \in groups : ~ (RunsOf(g, w, least).longest < least) /\ x = RunFinding(rule, g, w, least, high)
    BY DenseFindingsAre
  <2>2. Row(g, F) /\ g # <<>>
    BY <1>1
  <2>3. /\ x.flows = MembersOf(g, w, least)
        /\ x.severity = IF RunsOf(g, w, least).longest >= high THEN 3 ELSE 2
    BY <2>1 DEF RunFinding, Finding
  <2>4. Row(x.flows, F) /\ ToSet(x.flows) = InRunsOf(g, w, least)
    BY <2>2, <2>3, MembersFacts, MembersAreInRuns
  <2>5. RunsOf(g, w, least).longest \in Nat /\ RunsOf(g, w, least).longest >= least
    <3>1. RunsOf(g, w, least).longest \in Nat
      BY <2>2, LongestFacts
    <3> QED BY <2>1, <3>1
  <2>6. /\ x.flows # <<>>
        /\ RunsOf(g, w, least).longest >= high <=>
             \E f \in InRunsOf(g, w, least) : InRun(InRunsOf(g, w, least), f, w, high)
    BY <2>2, <2>3, <2>5, LongestFacts
  <2>7. Head(x.flows) \in ToSet(x.flows)
    BY <2>4, <2>6, HeadIn DEF Row
  <2>8. EndpointKey(Head(x.flows)) = EndpointKey(Head(g))
    BY <1>3, <2>4, <2>7 DEF OfKey
  <2>9. x.severity = 3 <=> RunsOf(g, w, least).longest >= high
    BY <2>3
  <2>10. x.severity = 3 <=> \E f \in ToSet(x.flows) : InRun(ToSet(x.flows), f, w, high)
    BY <2>4, <2>6, <2>9
  <2> QED BY <1>3, <2>3, <2>4, <2>6, <2>8, <2>10
<1>5. UNION {ToSet(x.flows) : x \in found} = told
  <2>1. \A x \in found : \A f \in ToSet(x.flows) : f \in told
    BY <1>4 DEF OfKey
  <2>2. \A f \in told : \E x \in found : f \in ToSet(x.flows)
    <3> SUFFICES ASSUME NEW f \in told PROVE \E x \in found : f \in ToSet(x.flows)
      OBVIOUS
    <3>1. f \in all
      BY DEF told
    <3>2. PICK g \in groups : ToSet(g) = OfKey(all, EndpointKey(f))
      BY <1>2, <3>1
    <3>3. f \in ToSet(g) /\ EndpointKey(Head(g)) = EndpointKey(f)
      <4>1. f \in ToSet(g) /\ ToSet(g) = OfKey(all, EndpointKey(Head(g)))
        BY <1>1, <3>1, <3>2 DEF OfKey
      <4> QED BY <4>1 DEF OfKey
    <3>4. f \in InRunsOf(g, w, least)
      BY <1>3, <3>3 DEF OfKey
    <3>5. ~ (RunsOf(g, w, least).longest < least) /\ ToSet(MembersOf(g, w, least)) = InRunsOf(g, w, least)
      BY <1>1, <3>4, LongestFacts, MembersAreInRuns
    <3> DEFINE x == RunFinding(rule, g, w, least, high)
    <3>6. x \in found /\ x.flows = MembersOf(g, w, least)
      <4>1. x.flows = MembersOf(g, w, least)
        BY DEF RunFinding, Finding
      <4> QED BY <3>5, <4>1, DenseFindingsAre
    <3> QED BY <3>4, <3>5, <3>6
  <2> HIDE DEF found
  <2> QED BY <2>1, <2>2
<1>6. \A x \in found :
        /\ Cardinality(ToSet(x.flows)) = Len(x.flows)
        /\ ToSet(x.flows) = OfKey(told, EndpointKey(Head(x.flows)))
        /\ x.severity = 3 <=> \E f \in ToSet(x.flows) : InRun(ToSet(x.flows), f, w, high)
  <2> SUFFICES ASSUME NEW x \in found
               PROVE  /\ Cardinality(ToSet(x.flows)) = Len(x.flows)
                      /\ ToSet(x.flows) = OfKey(told, EndpointKey(Head(x.flows)))
                      /\ x.severity = 3 <=> \E f \in ToSet(x.flows) : InRun(ToSet(x.flows), f, w, high)
    OBVIOUS
  <2>1. Row(x.flows, F)
    BY <1>4
  <2>2. Cardinality(ToSet(x.flows)) = Len(x.flows)
    BY <2>1, OnceCounts DEF Row
  <2> QED BY <1>4, <2>2
<1> QED BY <1>5, <1>6 DEF TellsRuns, Same, OfKey, all, told, groups

------------------------------------------------------------------------------
(* Analysis: the runs. *)

CaptureFine ==
  /\ traffic \in Pools
  /\ capture \in Seq(traffic) /\ Once(capture)

LEMMA CaptureInv == AnalysisSpec => []CaptureFine
<1>1. AnalysisInit => CaptureFine
  BY DEF AnalysisInit, CaptureFine, Once
<1>2. CaptureFine /\ [AnalysisNext]_analysisVars => CaptureFine'
  <2> SUFFICES ASSUME CaptureFine, [AnalysisNext]_analysisVars PROVE CaptureFine'
    OBVIOUS
  <2>1. ASSUME NEW f \in traffic, Capture(f) PROVE CaptureFine'
    <3>1. /\ capture \in Seq(traffic) /\ f \notin ToSet(capture)
          /\ capture' = Append(capture, f) /\ traffic' = traffic
      BY <2>1 DEF Capture, CaptureFine
    <3>2. /\ capture' \in Seq(traffic) /\ Len(capture') = Len(capture) + 1 /\ capture'[Len(capture) + 1] = f
          /\ \A i \in 1..Len(capture) : capture'[i] = capture[i] /\ capture[i] # f
      BY <3>1, OneMore, Told
    <3>3. Len(capture) \in Nat /\ \A i \in 1..(Len(capture) + 1) : i \in 1..Len(capture) \/ i = Len(capture) + 1
      BY <3>1
    <3>4. Once(capture')
      BY <3>2, <3>3 DEF Once, CaptureFine
    <3> QED BY <3>1, <3>2, <3>4 DEF CaptureFine
  <2>2. CASE UNCHANGED analysisVars
    BY <2>2 DEF analysisVars, CaptureFine, Once
  <2> QED BY <2>1, <2>2 DEF AnalysisNext
<1> QED BY <1>1, <1>2, PTL DEF AnalysisSpec

LEMMA TrafficTimed == CaptureFine => Timed(traffic)
BY AnalysisAssumption DEF CaptureFine, Timed

(* dense_runs (insights.rs) tells of an endpoint exactly the calls that lie *)
(* in some window holding enough of them, each once, whatever the calls,    *)
(* the windows and the thresholds: see RunsAreExact.                        *)
THEOREM RunsTold == AnalysisSpec => []RunsAreExact
<1>1. CaptureFine => RunsAreExact
  <2> SUFFICES ASSUME CaptureFine PROVE RunsAreExact
    OBVIOUS
  <2> DEFINE fs == Judged(capture)
  <2>1. Timed(traffic) /\ capture \in Seq(traffic) /\ Once(capture)
    BY TrafficTimed DEF CaptureFine
  <2>2. Row(fs, traffic)
    BY <2>1, JudgedFacts
  <2>3. /\ Limit.burst \in Nat /\ Limit.burstWindow \in Nat /\ Limit.burstHigh \in Nat
        /\ Limit.retry \in Nat /\ Limit.retryWindow \in Nat /\ Limit.retryHigh \in Nat
    BY AnalysisAssumption
  <2> HIDE DEF fs
  <2>4. TellsRuns(Burst(fs), {f \in ToSet(fs) : NotPreflight(f) /\ Endpoint(f) # <<>>},
                  Limit.burstWindow, Limit.burst, Limit.burstHigh)
    <3> DEFINE r == Only(fs, NotPreflight)
    <3>1. Row(r, traffic) /\ ToSet(r) = ToSet(fs) \cap {f \in ToSet(fs) : NotPreflight(f)}
      BY <2>1, <2>2, WithinFacts DEF Only
    <3>2. NamedOf(r) = {f \in ToSet(fs) : NotPreflight(f) /\ Endpoint(f) # <<>>}
      BY <3>1 DEF NamedOf
    <3> HIDE DEF r
    <3>3. TellsRuns(DenseFindings("burst", ByEndpoint(r), Limit.burstWindow, Limit.burst, Limit.burstHigh),
                    NamedOf(r), Limit.burstWindow, Limit.burst, Limit.burstHigh)
      BY <2>1, <2>3, <3>1, DenseTellsRuns
    <3> QED BY <3>2, <3>3 DEF Burst, r
  <2>5. TellsRuns(RetryStorm(fs), {f \in ToSet(fs) : Refused(f) /\ Endpoint(f) # <<>>},
                  Limit.retryWindow, Limit.retry, Limit.retryHigh)
    <3> DEFINE r == Only(fs, Refused)
    <3>1. Row(r, traffic) /\ ToSet(r) = ToSet(fs) \cap {f \in ToSet(fs) : Refused(f)}
      BY <2>1, <2>2, WithinFacts DEF Only
    <3>2. NamedOf(r) = {f \in ToSet(fs) : Refused(f) /\ Endpoint(f) # <<>>}
      BY <3>1 DEF NamedOf
    <3> HIDE DEF r
    <3>3. TellsRuns(DenseFindings("retry-storm", ByEndpoint(r), Limit.retryWindow, Limit.retry, Limit.retryHigh),
                    NamedOf(r), Limit.retryWindow, Limit.retry, Limit.retryHigh)
      BY <2>1, <2>3, <3>1, DenseTellsRuns
    <3> QED BY <3>2, <3>3 DEF RetryStorm, r
  <2> QED BY <2>4, <2>5 DEF RunsAreExact, fs
<1> QED BY <1>1, CaptureInv, PTL

------------------------------------------------------------------------------
(* Analysis: the walk along redirects. *)

UrlOf(fs, i) == Canonical(fs[i].url)

Visited(fs, chain, k) == \E i \in ToSet(chain) : UrlOf(fs, i) = UrlOf(fs, k)
Hopped(so, fs, used) ==
  IF so.looped \/ Nexts(fs, used, so.chain) = {} THEN so
  ELSE [chain |-> Append(so.chain, Min(Nexts(fs, used, so.chain))),
        looped |-> Visited(fs, so.chain, Min(Nexts(fs, used, so.chain)))]
From(start) == [chain |-> <<start>>, looped |-> FALSE]
Walking(walk, fs, used, start, N) ==
  walk = [n \in 0..N |-> IF n = 0 THEN From(start) ELSE Hopped(walk[n - 1], fs, used)]

LEMMA WalkingExists ==
  ASSUME NEW fs, NEW used, NEW start, NEW N \in Nat
  PROVE  \E walk : Walking(walk, fs, used, start, N)
<1> DEFINE S == {n \in 0..N : ~ \E walk : Walking(walk, fs, used, start, n)}
           next(so) == Hopped(so, fs, used)
<1>1. 0 \notin S
  <2> DEFINE none == [n \in 0..0 |-> From(start)]
  <2>1. Walking(none, fs, used, start, 0)
    BY DEF Walking
  <2> QED BY <2>1
<1>2. ASSUME S # {} PROVE FALSE
  <2>1. PICK n \in 1..N : n \in S /\ n - 1 \in 0..N /\ n - 1 \notin S
    <3>1. S \in SUBSET (0..N)
      OBVIOUS
    <3> HIDE DEF S
    <3> QED BY <1>1, <1>2, <3>1, FirstWrong
  <2>2. PICK walk : Walking(walk, fs, used, start, n - 1)
    BY <2>1
  <2> DEFINE more == [k \in 0..n |-> IF k = n THEN next(walk[n - 1]) ELSE walk[k]]
  <2>3. \A k \in 0..(n - 1) : walk[k] = IF k = 0 THEN From(start) ELSE next(walk[k - 1])
    BY <2>2 DEF Walking
  <2>4. \A k \in 0..n : (k # n => k \in 0..(n - 1)) /\ (k # 0 => k - 1 \in 0..n /\ k - 1 # n)
    OBVIOUS
  <2>5. \A k \in 0..n : more[k] = IF k = 0 THEN From(start) ELSE next(more[k - 1])
    <3> HIDE DEF next
    <3> QED BY <2>3, <2>4
  <2>6. more = [k \in 0..n |-> IF k = 0 THEN From(start) ELSE next(more[k - 1])]
    <3> HIDE DEF next
    <3>1. more = [k \in 0..n |-> more[k]]
      OBVIOUS
    <3> HIDE DEF more
    <3> QED BY <2>5, <3>1
  <2>7. Walking(more, fs, used, start, n)
    BY <2>6 DEF Walking
  <2> QED BY <2>1, <2>7
<1>3. N \in 0..N
  OBVIOUS
<1> QED BY <1>2, <1>3

Walked(so, fs, used, start, N) ==
  /\ so.chain \in Seq(1..N) /\ so.chain # <<>> /\ so.chain[1] = start /\ Once(so.chain)
  /\ \A i \in ToSet(so.chain) : i \notin used
  /\ \A i \in 1..Len(so.chain) : i # Len(so.chain) => Follows(fs, so.chain[i], so.chain[i + 1])
  /\ so.looped \in BOOLEAN
  /\ ~ so.looped => \A i, j \in 1..Len(so.chain) : UrlOf(fs, so.chain[i]) = UrlOf(fs, so.chain[j]) => i = j
  /\ so.looped => \E i \in 1..Len(so.chain) :
                     i # Len(so.chain) /\ UrlOf(fs, so.chain[i]) = UrlOf(fs, so.chain[Len(so.chain)])

LEMMA LastIs == ASSUME NEW T, NEW c \in Seq(T), c # <<>> PROVE Last(c) = c[Len(c)] /\ Len(c) \in 1..Len(c)
BY DEF Last

LEMMA WalkedFrom ==
  ASSUME NEW N \in Nat, NEW fs, NEW used, NEW start \in 1..N, start \notin used
  PROVE  Walked(From(start), fs, used, start, N)
<1>1. From(start).chain = <<start>> /\ From(start).looped = FALSE
  BY DEF From
<1>2. <<start>> \in Seq(1..N) /\ Len(<<start>>) = 1 /\ <<start>>[1] = start /\ <<start>> # <<>>
  OBVIOUS
<1>3. \A i \in 1..1 : i = 1
  OBVIOUS
<1>4. ToSet(<<start>>) = {start}
  BY DEF ToSet
<1> QED BY <1>1, <1>2, <1>3, <1>4 DEF Walked, Once

LEMMA WalkedOn ==
  ASSUME NEW N \in Nat, NEW fs, DOMAIN fs = 1..N, NEW used, NEW start,
         NEW so, Walked(so, fs, used, start, N)
  PROVE  Walked(Hopped(so, fs, used), fs, used, start, N)
<1> DEFINE c == so.chain
           nexts == Nexts(fs, used, c)
           k == Min(nexts)
           L == Len(c)
<1>1. CASE so.looped \/ nexts = {}
  <2>1. Hopped(so, fs, used) = so
    BY <1>1 DEF Hopped
  <2> QED BY <2>1
<1>2. CASE ~ (so.looped \/ nexts = {})
  <2>1. /\ c \in Seq(1..N) /\ c # <<>> /\ L \in 1..L /\ L \in Nat /\ Last(c) = c[L]
        /\ ToSet(c) = {c[i] : i \in 1..L}
    BY LastIs, Told DEF Walked
  <2>2. k \in 1..N /\ k \notin used /\ k \notin ToSet(c) /\ Follows(fs, c[L], k)
    <3>1. \A l \in nexts : l \in 1..N /\ l \notin used /\ l \notin ToSet(c) /\ Follows(fs, c[L], l)
      BY <2>1 DEF Nexts
    <3>2. nexts \in SUBSET Nat
      BY <3>1
    <3> HIDE DEF nexts
    <3>3. k \in nexts
      BY <1>2, <3>2, LeastIs
    <3> QED BY <3>1, <3>3
  <2>3. Hopped(so, fs, used) = [chain |-> Append(c, k), looped |-> Visited(fs, c, k)]
    BY <1>2 DEF Hopped
  <2> HIDE DEF k, nexts
  <2> DEFINE d == Append(c, k)
  <2>4. /\ d \in Seq(1..N) /\ Len(d) = L + 1 /\ d[L + 1] = k
        /\ \A i \in 1..L : d[i] = c[i]
        /\ ToSet(d) = ToSet(c) \cup {k}
    <3> HIDE DEF c, L
    <3> QED BY <2>1, <2>2, OneMore DEF L
  <2> HIDE DEF d
  <2>5. /\ \A i \in 1..(L + 1) : i \in 1..L \/ i = L + 1
        /\ \A i \in 1..L : i \in 1..(L + 1) /\ i # L + 1 /\ i + 1 \in 1..(L + 1)
        /\ \A i \in 1..L : i # L => i + 1 \in 1..L
    BY <2>1
  <2>6. d # <<>> /\ d[1] = start /\ Once(d) /\ \A i \in ToSet(d) : i \notin used
    <3>1. 1 \in 1..L /\ L + 1 # 0
      BY <2>1
    <3>2. \A i \in 1..L : c[i] # k
      BY <2>1, <2>2
    <3>3. Once(d)
      BY <2>4, <2>5, <3>2 DEF Walked, Once
    <3>4. d # <<>>
      BY <2>4, <3>1
    <3> QED BY <2>2, <2>4, <3>1, <3>3, <3>4 DEF Walked
  <2>7. \A i \in 1..(L + 1) : i # L + 1 => Follows(fs, d[i], d[i + 1])
    <3> SUFFICES ASSUME NEW i \in 1..L PROVE Follows(fs, d[i], d[i + 1])
      BY <2>5
    <3>1. CASE i = L
      BY <2>2, <2>4, <3>1
    <3>2. CASE i # L
      <4>1. d[i] = c[i] /\ d[i + 1] = c[i + 1]
        BY <2>4, <2>5, <3>2
      <4> QED BY <3>2, <4>1 DEF Walked
    <3> QED BY <3>1, <3>2
  <2>8. Visited(fs, c, k) <=> \E i \in 1..L : UrlOf(fs, c[i]) = UrlOf(fs, k)
    BY <2>1 DEF Visited
  <2>9. ~ Visited(fs, c, k) => \A i, j \in 1..(L + 1) : UrlOf(fs, d[i]) = UrlOf(fs, d[j]) => i = j
    <3>1. \A i, j \in 1..L : UrlOf(fs, c[i]) = UrlOf(fs, c[j]) => i = j
      BY <1>2 DEF Walked
    <3> HIDE DEF c, L
    <3> QED BY <2>4, <2>5, <2>8, <3>1
  <2>10. Visited(fs, c, k) =>
           \E i \in 1..(L + 1) : i # L + 1 /\ UrlOf(fs, d[i]) = UrlOf(fs, d[L + 1])
    <3> HIDE DEF c, L
    <3> QED BY <2>4, <2>5, <2>8
  <2>11. Visited(fs, c, k) \in BOOLEAN
    BY DEF Visited
  <2> DEFINE then == [chain |-> d, looped |-> Visited(fs, c, k)]
  <2>12. then.chain = d /\ then.looped = Visited(fs, c, k)
    OBVIOUS
  <2> HIDE DEF then
  <2>13. Walked(then, fs, used, start, N)
    <3> HIDE DEF c, L
    <3> QED BY <2>4, <2>6, <2>7, <2>9, <2>10, <2>11, <2>12 DEF Walked
  <2> QED BY <2>3, <2>13 DEF then, d
<1> QED BY <1>1, <1>2

LEMMA FollowFromIs ==
  ASSUME NEW fs, NEW N \in Nat, Len(fs) = N, NEW used, NEW start
  PROVE  \E walk : Walking(walk, fs, used, start, N) /\ FollowFrom(fs, used, start) = walk[N]
<1>1. FollowFrom(fs, used, start) = (CHOOSE walk : Walking(walk, fs, used, start, N))[N]
  BY DEF FollowFrom, Walking, From, Hopped, Visited, UrlOf
<1>2. PICK walk : Walking(walk, fs, used, start, N)
  BY WalkingExists
<1> QED BY <1>1, <1>2

LEMMA FollowFromWalked ==
  ASSUME NEW F, NEW fs \in Seq(F), NEW used, NEW start \in 1..Len(fs), start \notin used
  PROVE  Walked(FollowFrom(fs, used, start), fs, used, start, Len(fs))
<1> DEFINE N == Len(fs)
<1>1. N \in Nat /\ DOMAIN fs = 1..N
  OBVIOUS
<1>2. PICK walk : Walking(walk, fs, used, start, N) /\ FollowFrom(fs, used, start) = walk[N]
  BY <1>1, FollowFromIs
<1> DEFINE S == {n \in 0..N : ~ Walked(walk[n], fs, used, start, N)}
<1> HIDE DEF N
<1>3. 0 \notin S
  <2>1. walk[0] = From(start)
    BY <1>1, <1>2 DEF Walking
  <2> QED BY <1>1, <2>1, WalkedFrom DEF N
<1>4. ASSUME S # {} PROVE FALSE
  <2>1. PICK n \in 1..N : n \in S /\ n - 1 \in 0..N /\ n - 1 \notin S
    <3>1. S \in SUBSET (0..N)
      OBVIOUS
    <3> HIDE DEF S
    <3> QED BY <1>1, <1>3, <1>4, <3>1, FirstWrong
  <2>2. walk[n] = Hopped(walk[n - 1], fs, used)
    <3>1. n \in 0..N /\ n # 0
      BY <1>1
    <3> QED BY <1>2, <3>1 DEF Walking
  <2>3. Walked(walk[n - 1], fs, used, start, N)
    BY <2>1
  <2>4. Walked(walk[n], fs, used, start, N)
    BY <1>1, <2>2, <2>3, WalkedOn
  <2> QED BY <2>1, <2>4
<1>5. N \in 0..N
  BY <1>1
<1> QED BY <1>2, <1>4, <1>5 DEF N

(* The walk n hops on, where the next hop is never in doubt. *)
Forced(so, way, H, n) ==
  \/ so.looped
  \/ /\ n + 1 <= H /\ Len(so.chain) = n + 1
     /\ \A k \in 1..(n + 1) : so.chain[k] = way[k]
  \/ /\ H <= n + 1 /\ H <= Len(so.chain)
     /\ \A k \in 1..H : so.chain[k] = way[k]
Certain(fs, used, way, H) ==
  /\ way \in [1..H -> DOMAIN fs]
  /\ \A m, n \in 1..H : way[m] = way[n] => m = n
  /\ \A n \in 1..H : way[n] \notin used /\ IsRedirect(fs[way[n]]) /\ fs[way[n]].to # <<>>
  /\ \A n \in 1..(H - 1) : {l \in DOMAIN fs \ {way[n]} : Follows(fs, way[n], l)} = {way[n + 1]}

LEMMA ForcedOn ==
  ASSUME NEW N \in Nat, NEW fs, DOMAIN fs = 1..N, NEW used, NEW H \in Nat \ {0}, NEW way, Certain(fs, used, way, H),
         NEW so, Walked(so, fs, used, way[1], N), NEW n \in Nat, Forced(so, way, H, n)
  PROVE  Forced(Hopped(so, fs, used), way, H, n + 1)
<1> DEFINE c == so.chain
           nexts == Nexts(fs, used, c)
           next == Min(nexts)
           L == Len(c)
           then == [chain |-> Append(c, next), looped |-> Visited(fs, c, next)]
<1>1. c \in Seq(1..N) /\ c # <<>> /\ L \in Nat /\ Last(c) = c[L] /\ ToSet(c) = {c[i] : i \in 1..L} /\ L \in 1..L
  <2>1. c \in Seq(1..N) /\ c # <<>>
    BY DEF Walked
  <2> HIDE DEF c, nexts, next, then
  <2>2. Last(c) = c[L] /\ L \in 1..L
    BY <2>1, LastIs
  <2>3. ToSet(c) = {c[i] : i \in 1..L}
    BY <2>1, Told
  <2>4. L \in Nat
    BY <2>1
  <2> QED BY <2>1, <2>2, <2>3, <2>4
<1>2. then.chain = Append(c, next) /\ then.looped = Visited(fs, c, next)
  OBVIOUS
<1>3. nexts # {} => next \in nexts /\ next \in 1..N
  <2>1. nexts \in SUBSET (1..N)
    BY DEF Nexts
  <2>2. nexts \in SUBSET Nat
    BY <2>1
  <2> HIDE DEF nexts
  <2> QED BY <2>1, <2>2, LeastIs
<1>4. nexts # {} => /\ Len(then.chain) = L + 1 /\ then.chain[L + 1] = next
                    /\ \A i \in 1..L : then.chain[i] = c[i]
  <2> HIDE DEF c, next, nexts, L, then
  <2> QED BY <1>1, <1>2, <1>3, OneMore DEF L
<1>5. Hopped(so, fs, used) = IF so.looped \/ nexts = {} THEN so ELSE then
  BY DEF Hopped
<1> HIDE DEF then
<1>6. CASE so.looped
  BY <1>5, <1>6 DEF Forced
<1>7. CASE ~ so.looped /\ H <= n + 1
  <2>1. H <= L /\ \A k \in 1..H : c[k] = way[k]
    BY <1>7 DEF Forced
  <2>2. H <= (n + 1) + 1
    BY <1>7
  <2>3. CASE nexts = {}
    BY <1>5, <2>1, <2>2, <2>3 DEF Forced
  <2>4. CASE nexts # {}
    <3>1. H <= Len(then.chain) /\ \A k \in 1..H : then.chain[k] = way[k]
      <4>1. \A k \in 1..H : k \in 1..L
        BY <1>1, <2>1
      <4>2. H <= L + 1
        BY <1>1, <2>1
      <4> HIDE DEF nexts, c, L
      <4> QED BY <1>4, <2>1, <2>4, <4>1, <4>2
    <3>2. Hopped(so, fs, used) = then
      BY <1>5, <1>7, <2>4
    <3> QED BY <2>2, <3>1, <3>2 DEF Forced
  <2> QED BY <2>3, <2>4
<1>8. CASE ~ so.looped /\ ~ (H <= n + 1)
  <2>1. n + 1 <= H /\ L = n + 1 /\ \A k \in 1..(n + 1) : c[k] = way[k]
    BY <1>8 DEF Forced
  <2>2. n + 1 \in 1..(H - 1) /\ n + 1 \in 1..H /\ (n + 1) + 1 \in 1..H /\ n + 1 \in 1..(n + 1)
        /\ (n + 1) + 1 <= H
    BY <1>8
  <2> DEFINE cur == way[n + 1]
             k == way[(n + 1) + 1]
  <2>3. Last(c) = cur
    BY <1>1, <2>1, <2>2
  <2>4. /\ k \notin used /\ k \in 1..N /\ IsRedirect(fs[cur]) /\ fs[cur].to # <<>>
        /\ {l \in DOMAIN fs \ {cur} : Follows(fs, cur, l)} = {k}
    BY <2>2 DEF Certain
  <2>5. k \notin ToSet(c) /\ cur \in ToSet(c)
    <3>1. \A i \in 1..L : i \in 1..H /\ i # (n + 1) + 1 /\ i \in 1..(n + 1)
      BY <2>1, <2>2
    <3>2. \A i \in 1..L : c[i] # k
      BY <2>1, <2>2, <3>1 DEF Certain
    <3> QED BY <1>1, <2>1, <2>3, <3>2
  <2> HIDE DEF cur, k
  <2>6. nexts = {k}
    <3>1. nexts = {l \in DOMAIN fs \ (used \cup ToSet(c)) : Follows(fs, cur, l)}
      BY <2>3, <2>4 DEF Nexts
    <3> HIDE DEF nexts
    <3>2. \A l \in nexts : l \in {m \in DOMAIN fs \ {cur} : Follows(fs, cur, m)}
      BY <2>5, <3>1
    <3>3. k \in {m \in DOMAIN fs \ {cur} : Follows(fs, cur, m)}
      BY <2>4
    <3>4. k \in nexts
      BY <2>4, <2>5, <3>1, <3>3
    <3> QED BY <2>4, <3>2, <3>4
  <2>7. next = k /\ nexts # {}
    <3> HIDE DEF nexts
    <3> QED BY <1>3, <2>6
  <2> HIDE DEF next, nexts
  <2>8. Hopped(so, fs, used) = then
    BY <1>5, <1>8, <2>7
  <2>9. Len(then.chain) = (n + 1) + 1 /\ \A i \in 1..((n + 1) + 1) : then.chain[i] = way[i]
    <3>1. \A i \in 1..((n + 1) + 1) : i \in 1..(n + 1) \/ i = (n + 1) + 1
      OBVIOUS
    <3> HIDE DEF L, c
    <3> QED BY <1>4, <2>1, <2>7, <3>1 DEF k
  <2> QED BY <2>2, <2>8, <2>9 DEF Forced
<1> QED BY <1>6, <1>7, <1>8

LEMMA FewRedirectsLeft ==
  ASSUME NEW F, NEW fs \in Seq(F), NEW used, NEW H \in Nat \ {0}, NEW way, Certain(fs, used, way, H)
  PROVE  LET walk == FollowFrom(fs, used, way[1])
         IN walk.looped \/ H <= Cardinality({i \in ToSet(walk.chain) : IsRedirect(fs[i])})
<1> DEFINE N == Len(fs)
           told == FollowFrom(fs, used, way[1])
<1>1. N \in Nat /\ DOMAIN fs = 1..N /\ 1 \in 1..H
  OBVIOUS
<1>2. way[1] \in 1..N /\ way[1] \notin used
  BY <1>1 DEF Certain
<1>3. PICK walk : Walking(walk, fs, used, way[1], N) /\ told = walk[N]
  BY <1>1, FollowFromIs
<1> DEFINE Fine(n) == Walked(walk[n], fs, used, way[1], N) /\ Forced(walk[n], way, H, n)
           S == {n \in 0..N : ~ Fine(n)}
<1> HIDE DEF N
<1>4. 0 \notin S
  <2>1. walk[0] = From(way[1])
    BY <1>1, <1>3 DEF Walking
  <2>2. Len(<<way[1]>>) = 1 /\ <<way[1]>>[1] = way[1] /\ 0 + 1 = 1 /\ 1 <= H /\ \A k \in 1..1 : k = 1
    OBVIOUS
  <2>3. From(way[1]).chain = <<way[1]>> /\ From(way[1]).looped = FALSE
    BY DEF From
  <2>4. Forced(From(way[1]), way, H, 0)
    BY <2>2, <2>3 DEF Forced
  <2>5. Walked(From(way[1]), fs, used, way[1], N)
    BY <1>1, <1>2, WalkedFrom
  <2> QED BY <2>1, <2>4, <2>5
<1>5. ASSUME S # {} PROVE FALSE
  <2>1. PICK n \in 1..N : n \in S /\ n - 1 \in 0..N /\ n - 1 \notin S
    <3>1. S \in SUBSET (0..N)
      OBVIOUS
    <3> HIDE DEF S
    <3> QED BY <1>1, <1>4, <1>5, <3>1, FirstWrong
  <2>2. walk[n] = Hopped(walk[n - 1], fs, used)
    <3>1. n \in 0..N /\ n # 0
      BY <1>1
    <3> QED BY <1>3, <3>1 DEF Walking
  <2>3. Fine(n - 1)
    BY <2>1
  <2>4. Walked(walk[n], fs, used, way[1], N)
    BY <1>1, <2>2, <2>3, WalkedOn
  <2>5. Forced(walk[n], way, H, n)
    <3>1. n - 1 \in Nat /\ (n - 1) + 1 = n
      BY <1>1
    <3>2. Forced(Hopped(walk[n - 1], fs, used), way, H, (n - 1) + 1)
      BY <1>1, <2>3, <3>1, ForcedOn
    <3> QED BY <2>2, <3>1, <3>2
  <2> QED BY <2>1, <2>4, <2>5
<1>6. Fine(N)
  <2>1. N \in 0..N
    BY <1>1
  <2> QED BY <1>5, <2>1
<1>7. H <= N
  <2>1. way \in Injection(1..H, 1..N)
    BY <1>1 DEF Certain, Injection, IsInjective
  <2>2. IsFiniteSet(1..N) /\ Cardinality(1..N) = N /\ Cardinality(1..H) = H
    BY <1>1, FS_Interval
  <2>3. Cardinality(1..H) <= Cardinality(1..N)
    BY <2>1, <2>2, FS_Injection
  <2> QED BY <2>2, <2>3
<1>8. CASE ~ told.looped
  <2> DEFINE hops == {i \in ToSet(told.chain) : IsRedirect(fs[i])}
  <2>1. H <= Len(told.chain) /\ \A k \in 1..H : told.chain[k] = way[k]
    <3>1. ~ (N + 1 <= H)
      BY <1>1, <1>7
    <3> QED BY <1>3, <1>6, <1>8, <3>1 DEF Forced
  <2>2. told.chain \in Seq(1..N)
    BY <1>3, <1>6 DEF Walked
  <2>3. \A k \in 1..H : way[k] \in hops
    <3>1. ToSet(told.chain) = {told.chain[i] : i \in 1..Len(told.chain)} /\ Len(told.chain) \in Nat
      BY <2>2, Told
    <3>2. \A k \in 1..H : k \in 1..Len(told.chain)
      BY <2>1, <3>1
    <3>3. \A k \in 1..H : way[k] \in ToSet(told.chain)
      BY <2>1, <3>1, <3>2
    <3> QED BY <3>3 DEF Certain
  <2>4. IsFiniteSet(hops)
    <3>1. IsFiniteSet(ToSet(told.chain))
      BY <2>2, FlowsFinite
    <3>2. hops \in SUBSET ToSet(told.chain)
      OBVIOUS
    <3> HIDE DEF hops
    <3> QED BY <3>1, <3>2, FS_Subset
  <2> HIDE DEF hops, told
  <2>5. way \in Injection(1..H, hops)
    <3>1. way = [k \in 1..H |-> way[k]]
      BY DEF Certain
    <3>2. way \in [1..H -> hops]
      BY <2>3, <3>1
    <3> QED BY <3>2 DEF Certain, Injection, IsInjective
  <2>6. H <= Cardinality(hops)
    <3>1. Cardinality(1..H) = H
      BY FS_Interval
    <3>2. Cardinality(1..H) <= Cardinality(hops)
      BY <2>4, <2>5, FS_Injection
    <3> QED BY <3>1, <3>2
  <2> QED BY <2>6 DEF hops, told
<1> QED BY <1>8


HopsOf(fs, chain) == Cardinality({i \in ToSet(chain) : IsRedirect(fs[i])})
ToldOn(acc, n, fs) ==
  LET walk == FollowFrom(fs, acc.used, n)
  IN IF n \in acc.used \/ ~ IsRedirect(fs[n]) THEN acc
     ELSE IF ~ walk.looped /\ HopsOf(fs, walk.chain) < Limit.hops THEN acc
     ELSE [used |-> Used(acc.used, walk.chain), found |-> acc.found \cup {RedirectFinding(fs, walk)}]
Untold == [used |-> {}, found |-> {}]
Telling(tell, fs, N) ==
  tell = [n \in 0..N |-> IF n = 0 THEN Untold ELSE ToldOn(tell[n - 1], n, fs)]

LEMMA TellingExists ==
  ASSUME NEW fs, NEW N \in Nat
  PROVE  \E tell : Telling(tell, fs, N)
<1> DEFINE S == {n \in 0..N : ~ \E tell : Telling(tell, fs, n)}
           next(acc, n) == ToldOn(acc, n, fs)
<1>1. 0 \notin S
  <2> DEFINE none == [n \in 0..0 |-> Untold]
  <2>1. Telling(none, fs, 0)
    BY DEF Telling
  <2> QED BY <2>1
<1>2. ASSUME S # {} PROVE FALSE
  <2>1. PICK n \in 1..N : n \in S /\ n - 1 \in 0..N /\ n - 1 \notin S
    <3>1. S \in SUBSET (0..N)
      OBVIOUS
    <3> HIDE DEF S
    <3> QED BY <1>1, <1>2, <3>1, FirstWrong
  <2>2. PICK tell : Telling(tell, fs, n - 1)
    BY <2>1
  <2> DEFINE more == [k \in 0..n |-> IF k = n THEN next(tell[n - 1], n) ELSE tell[k]]
  <2>3. \A k \in 0..(n - 1) : tell[k] = IF k = 0 THEN Untold ELSE next(tell[k - 1], k)
    BY <2>2 DEF Telling
  <2>4. \A k \in 0..n : (k # n => k \in 0..(n - 1)) /\ (k # 0 => k - 1 \in 0..n /\ k - 1 # n)
    OBVIOUS
  <2>5. \A k \in 0..n : more[k] = IF k = 0 THEN Untold ELSE next(more[k - 1], k)
    <3> HIDE DEF next
    <3> QED BY <2>3, <2>4
  <2>6. more = [k \in 0..n |-> IF k = 0 THEN Untold ELSE next(more[k - 1], k)]
    <3> HIDE DEF next
    <3>1. more = [k \in 0..n |-> more[k]]
      OBVIOUS
    <3> HIDE DEF more
    <3> QED BY <2>5, <3>1
  <2>7. Telling(more, fs, n)
    BY <2>6 DEF Telling
  <2> QED BY <2>1, <2>7
<1>3. N \in 0..N
  OBVIOUS
<1> QED BY <1>2, <1>3

FlowsAt(fs, places) == {fs[i] : i \in places}
(* x tells a walk along flows that are used. *)
TellsWalk(x, fs, used) ==
  \E so : /\ x = RedirectFinding(fs, so)
          /\ Walked(so, fs, {}, so.chain[1], Len(fs))
          /\ ToSet(so.chain) \subseteq used
Short(fs, m, used) ==
  \E u \in SUBSET used : /\ ~ FollowFrom(fs, u, m).looped
                         /\ HopsOf(fs, FollowFrom(fs, u, m).chain) < Limit.hops
ToldTo(acc, fs, n) ==
  /\ acc.used \subseteq 1..Len(fs)
  /\ \A x \in acc.found : TellsWalk(x, fs, acc.used)
  /\ \A x, y \in acc.found : x = y \/ ToSet(x.flows) \cap ToSet(y.flows) = {}
  /\ UNION {ToSet(x.flows) : x \in acc.found} = FlowsAt(fs, acc.used)
  /\ \A m \in 1..n : IsRedirect(fs[m]) /\ m \notin acc.used => Short(fs, m, acc.used)

LEMMA WalkFinding ==
  ASSUME NEW F, NEW fs \in Seq(F), NEW used, NEW start, NEW so, Walked(so, fs, used, start, Len(fs)),
         NEW x, x = RedirectFinding(fs, so)
  PROVE  /\ x.flows \in Seq(F) /\ Len(x.flows) = Len(so.chain) /\ x.flows # <<>>
         /\ DOMAIN x.flows = 1..Len(so.chain) /\ Len(so.chain) \in Nat /\ Len(so.chain) \in 1..Len(so.chain)
         /\ \A i \in 1..Len(so.chain) : so.chain[i] \in 1..Len(fs) /\ x.flows[i] = fs[so.chain[i]]
         /\ ToSet(x.flows) = FlowsAt(fs, ToSet(so.chain))
         /\ x.rule = IF so.looped THEN "redirect-loop" ELSE "redirect-chain"
<1> DEFINE c == so.chain
           L == Len(c)
<1>1. c \in Seq(1..Len(fs)) /\ c # <<>> /\ L \in Nat /\ L \in 1..L /\ L # 0 /\ ToSet(c) = {c[i] : i \in 1..L}
  <2>1. c \in Seq(1..Len(fs)) /\ c # <<>>
    BY DEF Walked
  <2> HIDE DEF c
  <2>2. L \in 1..L
    BY <2>1, LastIs
  <2> QED BY <2>1, <2>2, Told
<1>2. x.flows = [i \in DOMAIN c |-> fs[c[i]]] /\ x.rule = IF so.looped THEN "redirect-loop" ELSE "redirect-chain"
  BY DEF RedirectFinding, Finding
<1> HIDE DEF c
<1>3. DOMAIN c = 1..L /\ \A i \in 1..L : c[i] \in 1..Len(fs) /\ fs[c[i]] \in F
  BY <1>1
<1>4. x.flows = [i \in 1..L |-> fs[c[i]]]
  BY <1>2, <1>3
<1> HIDE DEF L
<1>5. x.flows \in Seq(F) /\ Len(x.flows) = L /\ DOMAIN x.flows = 1..L /\ \A i \in 1..L : x.flows[i] = fs[c[i]]
  BY <1>1, <1>3, <1>4
<1>6. x.flows # <<>>
  BY <1>1, <1>5
<1>7. ToSet(x.flows) = FlowsAt(fs, ToSet(c))
  <2>1. ToSet(x.flows) = {x.flows[i] : i \in 1..L}
    BY <1>5, Told
  <2> QED BY <1>1, <1>5, <2>1 DEF FlowsAt, L
<1> QED BY <1>1, <1>2, <1>3, <1>5, <1>6, <1>7 DEF c, L

LEMMA ToldFurther ==
  ASSUME NEW F, NEW fs, Row(fs, F), NEW acc, NEW n \in 1..Len(fs), ToldTo(acc, fs, n - 1)
  PROVE  ToldTo(ToldOn(acc, n, fs), fs, n)
<1> DEFINE walk == FollowFrom(fs, acc.used, n)
           x == RedirectFinding(fs, walk)
           then == [used |-> Used(acc.used, walk.chain), found |-> acc.found \cup {x}]
           N == Len(fs)
<1>1. fs \in Seq(F) /\ N \in Nat /\ \A m \in 1..n : m \in 1..(n - 1) \/ m = n
  BY DEF Row
<1>2. ToldOn(acc, n, fs) = IF n \in acc.used \/ ~ IsRedirect(fs[n]) THEN acc
                           ELSE IF ~ walk.looped /\ HopsOf(fs, walk.chain) < Limit.hops THEN acc ELSE then
  BY DEF ToldOn
<1>3. CASE n \in acc.used \/ ~ IsRedirect(fs[n])
  <2>1. ToldOn(acc, n, fs) = acc
    BY <1>2, <1>3
  <2>2. \A m \in 1..n : IsRedirect(fs[m]) /\ m \notin acc.used => Short(fs, m, acc.used)
    BY <1>1, <1>3 DEF ToldTo
  <2> QED BY <2>1, <2>2 DEF ToldTo
<1>4. CASE ~ (n \in acc.used \/ ~ IsRedirect(fs[n])) /\ ~ walk.looped /\ HopsOf(fs, walk.chain) < Limit.hops
  <2>1. ToldOn(acc, n, fs) = acc
    BY <1>2, <1>4
  <2>2. Short(fs, n, acc.used)
    BY <1>4 DEF Short
  <2>3. \A m \in 1..n : IsRedirect(fs[m]) /\ m \notin acc.used => Short(fs, m, acc.used)
    BY <1>1, <2>2 DEF ToldTo
  <2> QED BY <2>1, <2>3 DEF ToldTo
<1>5. CASE ~ (n \in acc.used \/ ~ IsRedirect(fs[n])) /\ ~ (~ walk.looped /\ HopsOf(fs, walk.chain) < Limit.hops)
  <2>1. ToldOn(acc, n, fs) = then
    BY <1>2, <1>5
  <2>2. Walked(walk, fs, acc.used, n, N)
    BY <1>1, <1>5, FollowFromWalked
  <2>3. then.used = acc.used \cup ToSet(walk.chain) /\ then.found = acc.found \cup {x}
    BY DEF Used
  <2>4. /\ ToSet(x.flows) = FlowsAt(fs, ToSet(walk.chain))
        /\ ToSet(walk.chain) \subseteq 1..N /\ \A i \in ToSet(walk.chain) : i \notin acc.used
    <3>1. walk.chain \in Seq(1..N)
      BY <2>2 DEF Walked
    <3>2. ToSet(walk.chain) \subseteq 1..N
      BY <3>1, Told
    <3>3. ToSet(x.flows) = FlowsAt(fs, ToSet(walk.chain))
      BY <1>1, <2>2, WalkFinding
    <3> QED BY <2>2, <3>2, <3>3 DEF Walked
  <2>5. TellsWalk(x, fs, then.used)
    <3>1. Walked(walk, fs, {}, walk.chain[1], N)
      BY <2>2 DEF Walked
    <3>2. ToSet(walk.chain) \subseteq then.used
      BY <2>3
    <3> QED BY <3>1, <3>2 DEF TellsWalk
  <2> HIDE DEF then, x, walk, N
  <2>6. \A y \in acc.found : TellsWalk(y, fs, then.used)
    BY <2>3 DEF ToldTo, TellsWalk
  <2>7. \A y \in acc.found : ToSet(x.flows) \cap ToSet(y.flows) = {}
    <3>1. \A y \in acc.found : ToSet(y.flows) \subseteq FlowsAt(fs, acc.used)
      BY DEF ToldTo
    <3>2. FlowsAt(fs, ToSet(walk.chain)) \cap FlowsAt(fs, acc.used) = {}
      <4>1. acc.used \subseteq 1..N
        BY DEF ToldTo, N
      <4>2. \A i, j \in 1..N : fs[i] = fs[j] => i = j
        BY DEF Row, Once, N
      <4> QED BY <2>4, <4>1, <4>2 DEF FlowsAt
    <3> QED BY <2>4, <3>1, <3>2
  <2>8. UNION {ToSet(y.flows) : y \in then.found} = FlowsAt(fs, then.used)
    <3>1. FlowsAt(fs, then.used) = FlowsAt(fs, acc.used) \cup FlowsAt(fs, ToSet(walk.chain))
      BY <2>3 DEF FlowsAt
    <3>2. \A f : f \in UNION {ToSet(y.flows) : y \in then.found} <=>
                 f \in UNION {ToSet(y.flows) : y \in acc.found} \/ f \in ToSet(x.flows)
      BY <2>3
    <3>3. UNION {ToSet(y.flows) : y \in acc.found} = FlowsAt(fs, acc.used)
      BY DEF ToldTo
    <3> QED BY <2>4, <3>1, <3>2, <3>3
  <2>9. \A m \in 1..n : IsRedirect(fs[m]) /\ m \notin then.used => Short(fs, m, then.used)
    <3>1. n \in then.used
      <4>1. walk.chain \in Seq(1..N) /\ walk.chain # <<>> /\ walk.chain[1] = n
        BY <2>2 DEF Walked
      <4>2. n \in ToSet(walk.chain)
        BY <4>1, HeadIn
      <4> QED BY <2>3, <4>2
    <3>2. \A m : Short(fs, m, acc.used) => Short(fs, m, then.used)
      <4>1. SUBSET acc.used \subseteq SUBSET then.used
        BY <2>3
      <4> QED BY <4>1 DEF Short
    <3>3. \A m : m \notin then.used => m \notin acc.used
      BY <2>3
    <3> QED BY <1>1, <3>1, <3>2, <3>3 DEF ToldTo
  <2>10. then.used \subseteq 1..Len(fs)
    BY <2>3, <2>4 DEF ToldTo, N
  <2>11. \A y \in then.found : TellsWalk(y, fs, then.used)
    BY <2>3, <2>5, <2>6
  <2>12. \A y, z \in then.found : y = z \/ ToSet(y.flows) \cap ToSet(z.flows) = {}
    BY <2>3, <2>7 DEF ToldTo
  <2>13. ToldTo(then, fs, n)
    BY <2>8, <2>9, <2>10, <2>11, <2>12 DEF ToldTo
  <2> QED BY <2>1, <2>13
<1> QED BY <1>3, <1>4, <1>5

LEMMA RedirectChainTold ==
  ASSUME NEW F, NEW fs, Row(fs, F)
  PROVE  \E acc : RedirectChain(fs) = acc.found /\ ToldTo(acc, fs, Len(fs))
<1> DEFINE N == Len(fs)
<1>1. N \in Nat
  BY DEF Row
<1>2. RedirectChain(fs) = (CHOOSE tell : Telling(tell, fs, N))[N].found
  BY DEF RedirectChain, Telling, ToldOn, Untold, HopsOf
<1>3. PICK tell : Telling(tell, fs, N) /\ RedirectChain(fs) = tell[N].found
  <2> HIDE DEF N
  <2> QED BY <1>1, <1>2, TellingExists
<1> DEFINE S == {n \in 0..N : ~ ToldTo(tell[n], fs, n)}
<1>4. 0 \notin S
  <2>1. tell[0] = Untold
    BY <1>1, <1>3 DEF Telling
  <2>2. Untold.used = {} /\ Untold.found = {}
    BY DEF Untold
  <2>3. 1..0 = {} /\ FlowsAt(fs, {}) = {} /\ UNION {ToSet(x.flows) : x \in {}} = {}
    BY DEF FlowsAt
  <2>4. ToldTo(Untold, fs, 0)
    BY <2>2, <2>3 DEF ToldTo
  <2> QED BY <2>1, <2>4
<1>5. ASSUME S # {} PROVE FALSE
  <2>1. PICK n \in 1..N : n \in S /\ n - 1 \in 0..N /\ n - 1 \notin S
    <3>1. S \in SUBSET (0..N)
      OBVIOUS
    <3> HIDE DEF S, N
    <3> QED BY <1>1, <1>4, <1>5, <3>1, FirstWrong
  <2>2. tell[n] = ToldOn(tell[n - 1], n, fs)
    <3>1. n \in 0..N /\ n # 0
      BY <1>1
    <3> HIDE DEF N
    <3> QED BY <1>3, <3>1 DEF Telling
  <2>3. ToldTo(tell[n - 1], fs, n - 1)
    BY <2>1
  <2>4. ToldTo(tell[n], fs, n)
    BY <2>2, <2>3, ToldFurther
  <2> QED BY <2>1, <2>4
<1>6. N \in 0..N
  BY <1>1
<1> QED BY <1>3, <1>5, <1>6


(* The URLs along a finding, as RedirectsTold reads them. *)
UrlsOf(x) == [i \in DOMAIN x.flows |-> Canonical(x.flows[i].url)]

LEMMA FrontIs ==
  ASSUME NEW T, NEW s \in Seq(T), s # <<>>, NEW i \in 1..Len(s), i # Len(s)
  PROVE  s[i] \in ToSet(Front(s))
<1>1. Len(s) \in Nat /\ Len(s) - 1 \in Nat /\ i \in 1..(Len(s) - 1)
  OBVIOUS
<1>2. Front(s) = SubSeq(s, 1, Len(s) - 1)
  BY DEF Front
<1>3. Front(s) \in Seq(T) /\ Len(Front(s)) = Len(s) - 1 /\ Front(s)[i] = s[i]
  BY <1>1, <1>2
<1> QED BY <1>1, <1>3, Told

LEMMA WalkIsTold ==
  ASSUME NEW F, NEW fs \in Seq(F), NEW used, NEW x, TellsWalk(x, fs, used)
  PROVE  /\ \A i \in 1..(Len(x.flows) - 1) : Follows(x.flows, i, i + 1)
         /\ IF x.rule = "redirect-loop" THEN Last(UrlsOf(x)) \in ToSet(Front(UrlsOf(x)))
            ELSE Cardinality(ToSet(UrlsOf(x))) = Len(x.flows)
<1>1. PICK so : x = RedirectFinding(fs, so) /\ Walked(so, fs, {}, so.chain[1], Len(fs))
  BY DEF TellsWalk
<1> DEFINE c == so.chain
           L == Len(c)
           u == UrlsOf(x)
<1>2. /\ Len(x.flows) = L /\ DOMAIN x.flows = 1..L /\ L \in Nat /\ L \in 1..L
      /\ \A i \in 1..L : c[i] \in 1..Len(fs) /\ x.flows[i] = fs[c[i]]
      /\ x.rule = IF so.looped THEN "redirect-loop" ELSE "redirect-chain"
  BY <1>1, WalkFinding
<1>3. \A i \in 1..(Len(x.flows) - 1) : Follows(x.flows, i, i + 1)
  <2> SUFFICES ASSUME NEW i \in 1..(Len(x.flows) - 1) PROVE Follows(x.flows, i, i + 1)
    OBVIOUS
  <2>1. i \in 1..L /\ i + 1 \in 1..L /\ i # L
    BY <1>2
  <2>2. Follows(fs, c[i], c[i + 1])
    BY <1>1, <2>1 DEF Walked
  <2>3. x.flows[i] = fs[c[i]] /\ x.flows[i + 1] = fs[c[i + 1]]
    BY <1>2, <2>1
  <2> QED BY <2>2, <2>3 DEF Follows
<1>4. /\ u = [i \in 1..L |-> UrlOf(fs, c[i])]
      /\ \A i \in 1..L : u[i] = UrlOf(fs, c[i])
  BY <1>2 DEF UrlsOf, UrlOf
<1> DEFINE U == {UrlOf(fs, c[i]) : i \in 1..L}
<1>5. \A i \in 1..L : UrlOf(fs, c[i]) \in U
  OBVIOUS
<1>6. u \in Seq(U) /\ Len(u) = L /\ u # <<>>
  <2> HIDE DEF U, u, L, c
  <2>1. u \in Seq(U) /\ Len(u) = L
    BY <1>2, <1>4, <1>5
  <2> QED BY <1>2, <2>1
<1> HIDE DEF u, U
<1>7. so.looped \in BOOLEAN
  BY <1>1 DEF Walked
<1>8. CASE so.looped
  <2>1. PICK i \in 1..L : i # L /\ UrlOf(fs, c[i]) = UrlOf(fs, c[L])
    BY <1>1, <1>8 DEF Walked
  <2>2. u[i] \in ToSet(Front(u))
    BY <1>6, <2>1, FrontIs
  <2>3. Last(u) = u[L]
    BY <1>6, LastIs
  <2>4. Last(u) \in ToSet(Front(u))
    BY <1>2, <1>4, <2>1, <2>2, <2>3
  <2> QED BY <1>2, <1>3, <1>8, <2>4 DEF u
<1>9. CASE ~ so.looped
  <2>1. \A i, j \in 1..L : UrlOf(fs, c[i]) = UrlOf(fs, c[j]) => i = j
    BY <1>1, <1>9 DEF Walked
  <2>2. Once(u)
    BY <1>4, <1>6, <2>1 DEF Once
  <2>3. Cardinality(ToSet(u)) = Len(u)
    BY <1>6, <2>2, OnceCounts
  <2>4. x.rule # "redirect-loop"
    BY <1>2, <1>9
  <2> QED BY <1>2, <1>3, <1>6, <2>3, <2>4 DEF u
<1> QED BY <1>7, <1>8, <1>9

(* What a walk left untold is too short to be told. *)
LEMMA UntoldIsShort ==
  ASSUME NEW F, NEW fs, Row(fs, F), NEW used, NEW H, H = Limit.hops, NEW way, Certain(fs, used, way, H)
  PROVE  ~ Short(fs, way[1], used)
<1>1. H \in Nat \ {0} /\ fs \in Seq(F) /\ 1 \in 1..H
  BY AnalysisAssumption DEF Row
<1> SUFFICES ASSUME NEW u \in SUBSET used, ~ FollowFrom(fs, u, way[1]).looped,
                    HopsOf(fs, FollowFrom(fs, u, way[1]).chain) < H
             PROVE  FALSE
  BY DEF Short
<1> DEFINE walk == FollowFrom(fs, u, way[1])
           hops == {i \in ToSet(walk.chain) : IsRedirect(fs[i])}
<1>2. Certain(fs, u, way, H)
  BY DEF Certain
<1>3. H <= Cardinality(hops)
  BY <1>1, <1>2, FewRedirectsLeft
<1>4. walk.chain \in Seq(1..Len(fs))
  <2>1. way[1] \in 1..Len(fs) /\ way[1] \notin u
    BY <1>1, <1>2 DEF Certain
  <2>2. Walked(walk, fs, u, way[1], Len(fs))
    BY <1>1, <2>1, FollowFromWalked
  <2> QED BY <2>2 DEF Walked
<1>5. Cardinality(hops) < H
  BY DEF HopsOf
<1> HIDE DEF walk
<1>6. Cardinality(hops) \in Nat
  <2>1. IsFiniteSet(ToSet(walk.chain))
    BY <1>4, FlowsFinite
  <2>2. hops \in SUBSET ToSet(walk.chain)
    OBVIOUS
  <2> HIDE DEF hops
  <2>3. IsFiniteSet(hops)
    BY <2>1, <2>2, FS_Subset
  <2> QED BY <2>3, FS_CardinalityType
<1> HIDE DEF hops
<1> QED BY <1>1, <1>3, <1>5, <1>6

(* redirect_chain (insights.rs) tells no request twice, every hop it tells   *)
(* led to the next, a loop closes and a chain does not, and nothing that     *)
(* reads one way only is left out, whatever was captured: see RedirectsTold. *)
THEOREM RedirectsAreTold == AnalysisSpec => []RedirectsTold
<1>1. CaptureFine => RedirectsTold
  <2> SUFFICES ASSUME CaptureFine PROVE RedirectsTold
    OBVIOUS
  <2> DEFINE fs == Judged(capture)
             found == RedirectChain(fs)
             told == UNION {ToSet(x.flows) : x \in found}
             untold == {i \in DOMAIN fs : IsRedirect(fs[i]) /\ fs[i].to # <<>> /\ fs[i] \notin told}
             only(i, k) == {l \in DOMAIN fs \ {i} : Follows(fs, i, l)} = {k}
             H == Limit.hops
  <2>1. Row(fs, traffic)
    BY TrafficTimed, JudgedFacts DEF CaptureFine
  <2>2. H \in Nat \ {0} /\ fs \in Seq(traffic) /\ DOMAIN fs = 1..Len(fs)
    <3>1. fs \in Seq(traffic)
      BY <2>1 DEF Row
    <3> HIDE DEF fs
    <3> QED BY <3>1, AnalysisAssumption
  <2> HIDE DEF fs
  <2>3. PICK acc : found = acc.found /\ ToldTo(acc, fs, Len(fs))
    BY <2>1, RedirectChainTold
  <2>4. \A x, y \in found : x = y \/ ToSet(x.flows) \cap ToSet(y.flows) = {}
    BY <2>3 DEF ToldTo
  <2>5. \A x \in found : TellsWalk(x, fs, acc.used)
    BY <2>3 DEF ToldTo
  <2>6. \A x \in found : \A i \in 1..(Len(x.flows) - 1) : Follows(x.flows, i, i + 1)
    BY <2>2, <2>5, WalkIsTold
  <2>7. \A x \in found : IF x.rule = "redirect-loop" THEN Last(UrlsOf(x)) \in ToSet(Front(UrlsOf(x)))
                         ELSE Cardinality(ToSet(UrlsOf(x))) = Len(x.flows)
    BY <2>2, <2>5, WalkIsTold
  <2>8. ASSUME NEW way \in [1..H -> untold],
               \A m, n \in 1..H : way[m] = way[n] => m = n,
               \A n \in 1..(H - 1) : only(way[n], way[n + 1])
        PROVE  FALSE
    <3>1. told = FlowsAt(fs, acc.used)
      BY <2>3 DEF ToldTo
    <3>2. \A i \in untold : i \in DOMAIN fs /\ IsRedirect(fs[i]) /\ fs[i].to # <<>> /\ i \notin acc.used
      BY <3>1 DEF FlowsAt
    <3> HIDE DEF untold
    <3>3. Certain(fs, acc.used, way, H)
      BY <2>8, <3>2 DEF Certain
    <3>4. ~ Short(fs, way[1], acc.used)
      BY <2>1, <3>3, UntoldIsShort
    <3>5. 1 \in 1..H
      BY <2>2
    <3>6. way[1] \in 1..Len(fs) /\ IsRedirect(fs[way[1]]) /\ way[1] \notin acc.used
      BY <2>2, <3>2, <3>5
    <3> QED BY <2>3, <3>4, <3>6 DEF ToldTo
  <2> QED BY <2>4, <2>6, <2>7, <2>8 DEF RedirectsTold, UrlsOf, fs
<1> QED BY <1>1, CaptureInv, PTL


------------------------------------------------------------------------------
(* Analysis: the groups a check goes through, by host or by endpoint. *)

KeyOf(kind, f) == IF kind = "host" THEN HostKey(f) ELSE EndpointKey(f)
Grouped(groups, kind, r, F) ==
  /\ \A g \in groups : /\ Row(g, F) /\ g # <<>> /\ ToSet(g) \subseteq ToSet(r)
                       /\ \A f \in ToSet(g) : KeyOf(kind, f) = KeyOf(kind, Head(g))
  /\ \A g, h \in groups : KeyOf(kind, Head(g)) = KeyOf(kind, Head(h)) => g = h

LEMMA HostsGrouped ==
  ASSUME NEW F, Timed(F), NEW r, Row(r, F)
  PROVE  Grouped(ByHost(r), "host", r, F)
<1> DEFINE at(k) == {f \in ToSet(r) : HostKey(f) = k}
           group(k) == Within(r, at(k))
           keys == {HostKey(f) : f \in ToSet(r)}
<1>1. ByHost(r) = {group(k) : k \in keys}
  BY DEF ByHost, Only
<1>2. \A k : Row(group(k), F) /\ ToSet(group(k)) = ToSet(r) \cap at(k)
  BY WithinFacts
<1>3. \A k : \A f \in at(k) : HostKey(f) = k
  OBVIOUS
<1>4. \A k \in keys : at(k) # {} /\ at(k) \subseteq ToSet(r)
  OBVIOUS
<1> HIDE DEF group, at, keys
<1>5. ASSUME NEW k \in keys, NEW g, g = group(k)
      PROVE  /\ Row(g, F) /\ g # <<>> /\ ToSet(g) \subseteq ToSet(r) /\ HostKey(Head(g)) = k
             /\ \A f \in ToSet(g) : HostKey(f) = k
  <2>1. Row(g, F) /\ ToSet(g) = ToSet(r) \cap at(k) /\ ToSet(g) # {}
    BY <1>2, <1>4, <1>5
  <2>2. g \in Seq(F) /\ g # <<>>
    BY <2>1, SomeIsRow DEF Row
  <2>3. Head(g) \in ToSet(g)
    BY <2>2, HeadIn
  <2> QED BY <1>3, <2>1, <2>2, <2>3
<1>6. \A g \in ByHost(r) : \E k \in keys : g = group(k)
  BY <1>1
<1>7. \A f : KeyOf("host", f) = HostKey(f)
  BY DEF KeyOf
<1>8. \A g, h \in ByHost(r) : HostKey(Head(g)) = HostKey(Head(h)) => g = h
  BY <1>5, <1>6
<1>9. \A g \in ByHost(r) : /\ Row(g, F) /\ g # <<>> /\ ToSet(g) \subseteq ToSet(r)
                           /\ \A f \in ToSet(g) : HostKey(f) = HostKey(Head(g))
  BY <1>5, <1>6
<1> QED BY <1>7, <1>8, <1>9 DEF Grouped

LEMMA EndpointsGrouped ==
  ASSUME NEW F, Timed(F), NEW r, Row(r, F)
  PROVE  Grouped(ByEndpoint(r), "endpoint", r, F)
<1> DEFINE groups == ByEndpoint(r)
           group(k) == Within(Within(r, NamedOf(r)), OfKey(NamedOf(r), k))
<1>1. \A g \in groups : /\ Row(g, F) /\ g # <<>>
                        /\ g = group(EndpointKey(Head(g)))
                        /\ ToSet(g) = OfKey(NamedOf(r), EndpointKey(Head(g)))
  BY EndpointGroups
<1>2. \A f : KeyOf("endpoint", f) = EndpointKey(f)
  BY DEF KeyOf
<1> HIDE DEF group, groups
<1>3. \A g \in groups : /\ ToSet(g) \subseteq ToSet(r)
                        /\ \A f \in ToSet(g) : EndpointKey(f) = EndpointKey(Head(g))
  BY <1>1 DEF OfKey, NamedOf
<1>4. \A g, h \in groups : EndpointKey(Head(g)) = EndpointKey(Head(h)) => g = h
  BY <1>1
<1> QED BY <1>1, <1>2, <1>3, <1>4 DEF Grouped, groups

LEMMA FewerGrouped ==
  ASSUME NEW groups, NEW kind, NEW r, NEW F, Grouped(groups, kind, r, F), NEW some \in SUBSET groups
  PROVE  Grouped(some, kind, r, F)
BY DEF Grouped

(* What a check owes: findings of its own rule, each about one app and one *)
(* host, in order of time, and no two by one key.                          *)
Stands(found, rule, fs, F) ==
  /\ \A x \in found :
       /\ x.rule = rule /\ Row(x.flows, F) /\ ToSet(x.flows) \subseteq ToSet(fs)
       /\ \A f \in ToSet(x.flows) : f.app = Head(x.flows).app /\ HostOf(f) = HostOf(Head(x.flows))
  /\ \A x, y \in found : x.key = y.key => x = y

(* A finding about some of a group, by the key of the group. *)
TellsOf(x, g, kind, rule, F) ==
  x.rule = rule /\ x.key = KeyOf(kind, Head(g)) /\ Row(x.flows, F) /\ ToSet(x.flows) \subseteq ToSet(g)

LEMMA KeyTells ==
  ASSUME NEW kind, NEW f, NEW g, KeyOf(kind, f) = KeyOf(kind, g)
  PROVE  f.app = g.app /\ HostOf(f) = HostOf(g)
<1>1. CASE kind = "host"
  <2>1. <<f.app, HostOf(f)>> = <<g.app, HostOf(g)>>
    BY <1>1 DEF KeyOf, HostKey
  <2> QED BY <2>1
<1>2. CASE kind # "host"
  <2>1. <<f.app, HostOf(f), Endpoint(f)>> = <<g.app, HostOf(g), Endpoint(g)>>
    BY <1>2 DEF KeyOf, EndpointKey
  <2> QED BY <2>1
<1> QED BY <1>1, <1>2

LEMMA GroupsStand ==
  ASSUME NEW F, NEW fs, NEW r, ToSet(r) \subseteq ToSet(fs),
         NEW groups, NEW kind, Grouped(groups, kind, r, F), NEW rule, NEW tale, NEW found,
         \A x \in found : \E g \in groups : x = tale[g] /\ TellsOf(x, g, kind, rule, F)
  PROVE  Stands(found, rule, fs, F)
<1>1. \A x, y \in found : x.key = y.key => x = y
  BY DEF TellsOf, Grouped
<1>2. ASSUME NEW x \in found
      PROVE  /\ x.rule = rule /\ Row(x.flows, F) /\ ToSet(x.flows) \subseteq ToSet(fs)
             /\ \A f \in ToSet(x.flows) : f.app = Head(x.flows).app /\ HostOf(f) = HostOf(Head(x.flows))
  <2>1. PICK g \in groups : TellsOf(x, g, kind, rule, F)
    OBVIOUS
  <2>2. ToSet(x.flows) \subseteq ToSet(g) /\ ToSet(g) \subseteq ToSet(r) /\ x.flows \in Seq(F)
    BY <2>1 DEF TellsOf, Grouped, Row
  <2>3. ASSUME NEW f \in ToSet(x.flows)
        PROVE  f.app = Head(x.flows).app /\ HostOf(f) = HostOf(Head(x.flows))
    <3>1. x.flows # <<>>
      BY DEF ToSet
    <3>2. Head(x.flows) \in ToSet(x.flows)
      BY <2>2, <3>1, HeadIn
    <3>3. KeyOf(kind, f) = KeyOf(kind, Head(g)) /\ KeyOf(kind, Head(x.flows)) = KeyOf(kind, Head(g))
      BY <2>2, <2>3, <3>2 DEF Grouped
    <3> QED BY <3>3, KeyTells
  <2> QED BY <2>1, <2>2, <2>3 DEF TellsOf
<1> QED BY <1>1, <1>2 DEF Stands

LEMMA SomeHostsStand ==
  ASSUME NEW F, Timed(F), NEW fs, Row(fs, F), NEW S,
         NEW some \in SUBSET ByHost(Within(fs, S)), NEW rule, NEW sev
  PROVE  Stands(EachHost(rule, sev, some), rule, fs, F)
<1> DEFINE r == Within(fs, S)
           tale == [g \in some |-> Finding(rule, HostKey(Head(g)), sev, g)]
           found == EachHost(rule, sev, some)
<1>1. Row(r, F) /\ ToSet(r) \subseteq ToSet(fs)
  BY WithinFacts
<1>2. Grouped(some, "host", r, F)
  BY <1>1, HostsGrouped, FewerGrouped
<1>3. ASSUME NEW x \in found PROVE \E g \in some : x = tale[g] /\ TellsOf(x, g, "host", rule, F)
  <2>1. PICK g \in some : x = Finding(rule, HostKey(Head(g)), sev, g)
    BY DEF EachHost
  <2>2. x.rule = rule /\ x.key = HostKey(Head(g)) /\ x.flows = g
    BY <2>1 DEF Finding
  <2>3. Row(g, F) /\ KeyOf("host", Head(g)) = HostKey(Head(g))
    BY <1>2 DEF Grouped, KeyOf
  <2> QED BY <2>1, <2>2, <2>3 DEF TellsOf
<1> HIDE DEF tale, found, r
<1>4. Stands(found, rule, fs, F)
  BY <1>1, <1>2, <1>3, GroupsStand
<1> QED BY <1>4 DEF found

LEMMA HostsStand ==
  ASSUME NEW F, Timed(F), NEW fs, Row(fs, F), NEW S, NEW rule, NEW sev
  PROVE  Stands(EachHost(rule, sev, ByHost(Within(fs, S))), rule, fs, F)
BY SomeHostsStand

LEMMA HostsBySizeStand ==
  ASSUME NEW F, Timed(F), NEW fs, Row(fs, F), NEW S, NEW rule, NEW large
  PROVE  Stands(EachHostBySize(rule, large, ByHost(Within(fs, S))), rule, fs, F)
<1> DEFINE r == Within(fs, S)
           some == ByHost(r)
           tale == [g \in some |-> Finding(rule, HostKey(Head(g)), Graded(Weight(g), large), g)]
           found == EachHostBySize(rule, large, some)
<1>1. Row(r, F) /\ ToSet(r) \subseteq ToSet(fs)
  BY WithinFacts
<1>2. Grouped(some, "host", r, F)
  BY <1>1, HostsGrouped
<1>3. ASSUME NEW x \in found PROVE \E g \in some : x = tale[g] /\ TellsOf(x, g, "host", rule, F)
  <2>1. PICK g \in some : x = Finding(rule, HostKey(Head(g)), Graded(Weight(g), large), g)
    BY DEF EachHostBySize
  <2>2. x.rule = rule /\ x.key = HostKey(Head(g)) /\ x.flows = g
    BY <2>1 DEF Finding
  <2>3. Row(g, F) /\ KeyOf("host", Head(g)) = HostKey(Head(g))
    BY <1>2 DEF Grouped, KeyOf
  <2> QED BY <2>1, <2>2, <2>3 DEF TellsOf
<1> HIDE DEF tale, found, some, r
<1>4. Stands(found, rule, fs, F)
  BY <1>1, <1>2, <1>3, GroupsStand
<1> QED BY <1>4 DEF found, some, r

LEMMA SomeEndpointsStand ==
  ASSUME NEW F, Timed(F), NEW fs, Row(fs, F), NEW S,
         NEW some \in SUBSET ByEndpoint(Within(fs, S)), NEW rule, NEW sev
  PROVE  Stands(EachEndpoint(rule, sev, some), rule, fs, F)
<1> DEFINE r == Within(fs, S)
           tale == [g \in some |-> Finding(rule, EndpointKey(Head(g)), sev, g)]
           found == EachEndpoint(rule, sev, some)
<1>1. Row(r, F) /\ ToSet(r) \subseteq ToSet(fs)
  BY WithinFacts
<1>2. Grouped(some, "endpoint", r, F)
  BY <1>1, EndpointsGrouped, FewerGrouped
<1>3. ASSUME NEW x \in found PROVE \E g \in some : x = tale[g] /\ TellsOf(x, g, "endpoint", rule, F)
  <2>1. PICK g \in some : x = Finding(rule, EndpointKey(Head(g)), sev, g)
    BY DEF EachEndpoint
  <2>2. x.rule = rule /\ x.key = EndpointKey(Head(g)) /\ x.flows = g
    BY <2>1 DEF Finding
  <2>3. Row(g, F) /\ KeyOf("endpoint", Head(g)) = EndpointKey(Head(g))
    BY <1>2 DEF Grouped, KeyOf
  <2> QED BY <2>1, <2>2, <2>3 DEF TellsOf
<1> HIDE DEF tale, found, r
<1>4. Stands(found, rule, fs, F)
  BY <1>1, <1>2, <1>3, GroupsStand
<1> QED BY <1>4 DEF found

LEMMA DenseStands ==
  ASSUME NEW F, Timed(F), NEW fs, Row(fs, F), NEW S, NEW rule,
         NEW w \in Nat, NEW least \in Nat, NEW high \in Nat
  PROVE  Stands(DenseFindings(rule, ByEndpoint(Within(fs, S)), w, least, high), rule, fs, F)
<1> DEFINE r == Within(fs, S)
           some == ByEndpoint(r)
           tale == [g \in some |-> RunFinding(rule, g, w, least, high)]
           found == DenseFindings(rule, some, w, least, high)
<1>1. Row(r, F) /\ ToSet(r) \subseteq ToSet(fs)
  BY WithinFacts
<1>2. Grouped(some, "endpoint", r, F)
  BY <1>1, EndpointsGrouped
<1>3. ASSUME NEW x \in found PROVE \E g \in some : x = tale[g] /\ TellsOf(x, g, "endpoint", rule, F)
  <2>1. PICK g \in some : x = RunFinding(rule, g, w, least, high)
    BY DenseFindingsAre
  <2>2. x.rule = rule /\ x.key = EndpointKey(Head(g)) /\ x.flows = MembersOf(g, w, least)
    BY <2>1 DEF RunFinding, Finding
  <2>3. Row(g, F) /\ KeyOf("endpoint", Head(g)) = EndpointKey(Head(g))
    BY <1>2 DEF Grouped, KeyOf
  <2>4. Row(x.flows, F) /\ ToSet(x.flows) = InRunsOf(g, w, least)
    BY <2>2, <2>3, MembersFacts, MembersAreInRuns
  <2>5. ToSet(x.flows) \subseteq ToSet(g)
    BY <2>4 DEF InRunsOf
  <2> QED BY <2>1, <2>2, <2>3, <2>4, <2>5 DEF TellsOf
<1> HIDE DEF tale, found, some, r
<1>4. Stands(found, rule, fs, F)
  BY <1>1, <1>2, <1>3, GroupsStand
<1> QED BY <1>4 DEF found, some, r


LEMMA ErrorRateStands ==
  ASSUME NEW F, Timed(F), NEW fs, Row(fs, F)
  PROVE  Stands(ErrorRate(fs), "error-rate", fs, F)
<1> DEFINE groups == ByHost(fs)
           bad(g) == Within(g, {f \in ToSet(g) : Failed(f)})
           fine(g) == Len(g) < Limit.errorFlows \/ 4 * Len(bad(g)) < Len(g)
           tell(g) == Finding("error-rate", HostKey(Head(g)), IF 2 * Len(bad(g)) >= Len(g) THEN 3 ELSE 2, bad(g))
           of(g) == IF fine(g) THEN {} ELSE {tell(g)}
           tale == [g \in groups |-> tell(g)]
           found == ErrorRate(fs)
<1>1. found = UNION {of(g) : g \in groups}
  BY DEF ErrorRate, Only
<1>2. Grouped(groups, "host", fs, F)
  BY HostsGrouped
<1>3. \A g : tell(g).rule = "error-rate" /\ tell(g).key = HostKey(Head(g)) /\ tell(g).flows = bad(g)
  BY DEF Finding
<1>4. \A g \in groups : Row(g, F) => Row(bad(g), F) /\ ToSet(bad(g)) \subseteq ToSet(g)
  BY WithinFacts
<1> HIDE DEF bad, fine, tell, groups, found
<1>5. \A x \in found : \E g \in groups : x = tell(g)
  BY <1>1
<1>6. ASSUME NEW x \in found PROVE \E g \in groups : x = tale[g] /\ TellsOf(x, g, "host", "error-rate", F)
  <2>1. PICK g \in groups : x = tell(g)
    BY <1>5
  <2>2. Row(g, F) /\ KeyOf("host", Head(g)) = HostKey(Head(g))
    BY <1>2 DEF Grouped, KeyOf
  <2> QED BY <1>3, <1>4, <2>1, <2>2 DEF TellsOf
<1> HIDE DEF tale
<1>7. Stands(found, "error-rate", fs, F)
  BY <1>2, <1>6, GroupsStand
<1> QED BY <1>7 DEF found

LEMMA CdnMissStands ==
  ASSUME NEW F, Timed(F), NEW fs, Row(fs, F)
  PROVE  Stands(CdnMiss(fs), "cdn-miss", fs, F)
<1> DEFINE r == Within(fs, {f \in ToSet(fs) : /\ OriginResponse(f) /\ f.method = "GET" /\ f.status = 200
                                             /\ IsStatic(f) /\ f.cdn # "none"})
           groups == ByHost(r)
           misses(g) == Within(g, {f \in ToSet(g) : f.cdn = "miss"})
           fine(g) == Len(g) < Limit.cdn \/ 2 * Len(misses(g)) < Len(g)
           tell(g) == Finding("cdn-miss", HostKey(Head(g)), 1, misses(g))
           of(g) == IF fine(g) THEN {} ELSE {tell(g)}
           tale == [g \in groups |-> tell(g)]
           found == CdnMiss(fs)
<1>1. found = UNION {of(g) : g \in groups}
  BY DEF CdnMiss, Only
<1>2. Row(r, F) /\ ToSet(r) \subseteq ToSet(fs)
  BY WithinFacts
<1>3. \A g : tell(g).rule = "cdn-miss" /\ tell(g).key = HostKey(Head(g)) /\ tell(g).flows = misses(g)
  BY DEF Finding
<1>4. \A g \in groups : Row(g, F) => Row(misses(g), F) /\ ToSet(misses(g)) \subseteq ToSet(g)
  BY WithinFacts
<1> HIDE DEF misses, fine, tell, found, r
<1>5. Grouped(groups, "host", r, F)
  BY <1>2, HostsGrouped
<1> HIDE DEF groups
<1>6. \A x \in found : \E g \in groups : x = tell(g)
  BY <1>1
<1>7. ASSUME NEW x \in found PROVE \E g \in groups : x = tale[g] /\ TellsOf(x, g, "host", "cdn-miss", F)
  <2>1. PICK g \in groups : x = tell(g)
    BY <1>6
  <2>2. Row(g, F) /\ KeyOf("host", Head(g)) = HostKey(Head(g))
    BY <1>5 DEF Grouped, KeyOf
  <2> QED BY <1>3, <1>4, <2>1, <2>2 DEF TellsOf
<1> HIDE DEF tale
<1>8. Stands(found, "cdn-miss", fs, F)
  BY <1>2, <1>5, <1>7, GroupsStand
<1> QED BY <1>8 DEF found

LEMMA SlowEndpointStands ==
  ASSUME NEW F, Timed(F), NEW fs, Row(fs, F)
  PROVE  Stands(SlowEndpoint(fs), "slow-endpoint", fs, F)
<1> DEFINE r == Within(fs, {f \in ToSet(fs) : OriginResponse(f) /\ ~ Has(f, {"script"}) /\ f.ttfb # None})
           groups == ByEndpoint(r)
           few(g) == Len(g) < Limit.slowSamples
           hung(g) == Within(g, {f \in ToSet(g) : Wait(f) >= Limit.loneSlow})
           lone == {g \in groups : few(g) /\ hung(g) # <<>>}
           many == {g \in groups : ~ few(g) /\ Median(Waits(g)) >= Limit.slow}
           one(h) == Finding("slow-endpoint", EndpointKey(Head(h)), Warning, h)
           all(g) == Finding("slow-endpoint", EndpointKey(Head(g)), Graded(Median(Waits(g)), Limit.verySlow), g)
           tale == [g \in groups |-> IF few(g) THEN one(hung(g)) ELSE all(g)]
           found == SlowEndpoint(fs)
<1>1. found = {one(h) : h \in {hung(g) : g \in lone}} \cup {all(g) : g \in many}
  BY DEF SlowEndpoint, Only, EachEndpoint
<1>2. Row(r, F) /\ ToSet(r) \subseteq ToSet(fs)
  BY WithinFacts
<1>3. /\ \A h : one(h).rule = "slow-endpoint" /\ one(h).key = EndpointKey(Head(h)) /\ one(h).flows = h
      /\ \A g : all(g).rule = "slow-endpoint" /\ all(g).key = EndpointKey(Head(g)) /\ all(g).flows = g
  BY DEF Finding
<1>4. \A g \in groups : Row(g, F) => Row(hung(g), F) /\ ToSet(hung(g)) \subseteq ToSet(g)
  BY WithinFacts
<1> HIDE DEF hung, few, one, all, found, r
<1>5. Grouped(groups, "endpoint", r, F)
  BY <1>2, EndpointsGrouped
<1> HIDE DEF groups
<1>6. \A x \in found : \/ \E g \in groups : few(g) /\ hung(g) # <<>> /\ x = one(hung(g))
                       \/ \E g \in groups : ~ few(g) /\ x = all(g)
  BY <1>1
<1>7. \A f : KeyOf("endpoint", f) = EndpointKey(f)
  BY DEF KeyOf
<1>8. ASSUME NEW x \in found PROVE \E g \in groups : x = tale[g] /\ TellsOf(x, g, "endpoint", "slow-endpoint", F)
  <2>1. ASSUME NEW g \in groups, few(g), hung(g) # <<>>, x = one(hung(g))
        PROVE  x = tale[g] /\ TellsOf(x, g, "endpoint", "slow-endpoint", F)
    <3>1. Row(g, F)
      BY <1>5 DEF Grouped
    <3>2. Row(hung(g), F) /\ ToSet(hung(g)) \subseteq ToSet(g)
      BY <1>4, <3>1
    <3>3. Head(hung(g)) \in ToSet(g)
      BY <2>1, <3>2, HeadIn DEF Row
    <3>4. EndpointKey(Head(hung(g))) = EndpointKey(Head(g))
      BY <1>5, <1>7, <3>3 DEF Grouped
    <3> QED BY <1>3, <1>7, <2>1, <3>2, <3>4 DEF TellsOf
  <2>2. ASSUME NEW g \in groups, ~ few(g), x = all(g)
        PROVE  x = tale[g] /\ TellsOf(x, g, "endpoint", "slow-endpoint", F)
    <3>1. Row(g, F)
      BY <1>5 DEF Grouped
    <3> QED BY <1>3, <1>7, <2>2, <3>1 DEF TellsOf
  <2> HIDE DEF tale
  <2> QED BY <1>6, <2>1, <2>2
<1> HIDE DEF tale
<1>9. Stands(found, "slow-endpoint", fs, F)
  BY <1>2, <1>5, <1>8, GroupsStand
<1> QED BY <1>9 DEF found

(* A row of hops is in order of time and of one app. *)
LEMMA HopsInOrder ==
  ASSUME NEW F, Timed(F), NEW s \in Seq(F),
         \A i \in 1..(Len(s) - 1) : s[i].at <= s[i + 1].at /\ s[i + 1].app = s[i].app
  PROVE  InOrder(s) /\ \A i \in 1..Len(s) : s[i].app = s[1].app
<1> DEFINE N == Len(s)
           Fine(n) == /\ \A i \in 1..n : s[i].at <= s[n].at
                      /\ n # 0 => s[n].app = s[1].app
           S == {n \in 0..N : ~ Fine(n)}
<1>1. N \in Nat /\ \A i \in 1..N : s[i].at \in Int
  BY DEF Timed
<1>2. 0 \notin S
  <2>1. 1..0 = {}
    OBVIOUS
  <2> QED BY <2>1
<1>3. ASSUME S # {} PROVE FALSE
  <2>1. PICK n \in 1..N : n \in S /\ n - 1 \in 0..N /\ n - 1 \notin S
    <3>1. S \in SUBSET (0..N)
      OBVIOUS
    <3> HIDE DEF S, N
    <3> QED BY <1>1, <1>2, <1>3, <3>1, FirstWrong
  <2>2. Fine(n - 1)
    BY <2>1
  <2>3. CASE n = 1
    <3>1. \A i \in 1..1 : i = 1
      OBVIOUS
    <3>2. s[1].at <= s[1].at
      BY <1>1, <2>1, <2>3
    <3> QED BY <2>1, <2>3, <3>1, <3>2
  <2>4. CASE n # 1
    <3>1. n - 1 \in 1..(N - 1) /\ (n - 1) + 1 = n /\ n - 1 # 0 /\ n - 1 \in 1..N
      BY <1>1, <2>1, <2>4
    <3>2. s[n - 1].at <= s[n].at /\ s[n].app = s[n - 1].app
      BY <3>1
    <3>3. \A i \in 1..n : s[i].at <= s[n].at
      <4> SUFFICES ASSUME NEW i \in 1..n PROVE s[i].at <= s[n].at
        OBVIOUS
      <4>1. CASE i = n
        <5>1. s[n].at <= s[n].at
          BY <1>1, <2>1
        <5> QED BY <4>1, <5>1
      <4>2. CASE i # n
        <5>1. i \in 1..(n - 1) /\ i \in 1..N
          BY <1>1, <2>1, <4>2
        <5>2. s[i].at <= s[n - 1].at
          BY <2>2, <5>1
        <5>3. s[i].at \in Int /\ s[n - 1].at \in Int /\ s[n].at \in Int
          BY <1>1, <2>1, <3>1, <5>1
        <5> QED BY <3>2, <5>2, <5>3
      <4> QED BY <4>1, <4>2
    <3>4. s[n].app = s[1].app
      BY <2>2, <3>1, <3>2
    <3> QED BY <2>1, <3>3, <3>4
  <2> QED BY <2>3, <2>4
<1>4. \A n \in 1..N : n \in 0..N /\ n # 0
  BY <1>1
<1>5. \A n \in 1..N : Fine(n)
  BY <1>3, <1>4
<1>6. \A i, j \in 1..N : i <= j => i \in 1..j
  BY <1>1
<1> QED BY <1>4, <1>5, <1>6 DEF InOrder

LEMMA RedirectsStand ==
  ASSUME NEW F, Timed(F), NEW fs, Row(fs, F), NEW x \in RedirectChain(fs)
  PROVE  /\ x.rule \in {"redirect-chain", "redirect-loop"}
         /\ Row(x.flows, F) /\ ToSet(x.flows) \subseteq ToSet(fs)
         /\ \A f \in ToSet(x.flows) : f.app = Head(x.flows).app
<1>1. fs \in Seq(F) /\ ToSet(fs) = {fs[i] : i \in 1..Len(fs)}
  BY Told DEF Row
<1>2. PICK acc : RedirectChain(fs) = acc.found /\ ToldTo(acc, fs, Len(fs))
  BY RedirectChainTold
<1>3. TellsWalk(x, fs, acc.used)
  BY <1>2 DEF ToldTo
<1>4. PICK so : x = RedirectFinding(fs, so) /\ Walked(so, fs, {}, so.chain[1], Len(fs))
  BY <1>3 DEF TellsWalk
<1> DEFINE c == so.chain
           L == Len(c)
           s == x.flows
<1>5. /\ s \in Seq(F) /\ s # <<>> /\ Len(s) = L /\ L \in Nat
      /\ \A i \in 1..L : c[i] \in 1..Len(fs) /\ s[i] = fs[c[i]]
      /\ x.rule = IF so.looped THEN "redirect-loop" ELSE "redirect-chain"
  BY <1>1, <1>4, WalkFinding
<1>6. ToSet(s) = {s[i] : i \in 1..L}
  BY <1>5, Told
<1>7. Once(c)
  BY <1>4 DEF Walked
<1>8. \A i \in 1..(Len(s) - 1) : s[i].at <= s[i + 1].at /\ s[i + 1].app = s[i].app
  <2> SUFFICES ASSUME NEW i \in 1..(Len(s) - 1) PROVE s[i].at <= s[i + 1].at /\ s[i + 1].app = s[i].app
    OBVIOUS
  <2>1. Follows(s, i, i + 1)
    BY <1>1, <1>3, WalkIsTold
  <2>2. i \in 1..Len(s) /\ i + 1 \in 1..Len(s)
    BY <1>5
  <2>3. s[i].at \in Int /\ s[i + 1].at \in Int
    BY <1>5, <2>2 DEF Timed
  <2>4. s[i + 1].at >= s[i].at /\ s[i + 1].app = s[i].app
    BY <2>1 DEF Follows
  <2> HIDE DEF s
  <2> QED BY <2>3, <2>4
<1> HIDE DEF c, L, s
<1>9. InOrder(s) /\ \A i \in 1..L : s[i].app = s[1].app
  BY <1>5, <1>8, HopsInOrder
<1>10. Once(s)
  <2>1. \A i, j \in 1..Len(fs) : fs[i] = fs[j] => i = j
    BY DEF Row, Once
  <2>2. \A i, j \in 1..L : c[i] = c[j] => i = j
    BY <1>7 DEF Once, L
  <2> QED BY <1>5, <2>1, <2>2 DEF Once
<1>11. ToSet(s) \subseteq ToSet(fs)
  BY <1>1, <1>5, <1>6
<1>12. \A f \in ToSet(s) : f.app = Head(s).app
  BY <1>5, <1>6, <1>9, HeadIn
<1>13. x.rule \in {"redirect-chain", "redirect-loop"}
  BY <1>5
<1> QED BY <1>5, <1>9, <1>10, <1>11, <1>12, <1>13 DEF Row, s


(* Each check but that of redirects. *)
LEMMA ChecksStand ==
  ASSUME NEW F, Timed(F), NEW fs, Row(fs, F)
  PROVE  /\ Stands(Burst(fs), "burst", fs, F)
         /\ Stands(Polling(fs), "polling", fs, F)
         /\ Stands(RetryStorm(fs), "retry-storm", fs, F)
         /\ Stands(RateLimited(fs), "rate-limited", fs, F)
         /\ Stands(ErrorRate(fs), "error-rate", fs, F)
         /\ Stands(Uncompressed(fs), "uncompressed", fs, F)
         /\ Stands(LargePayload(fs), "large-payload", fs, F)
         /\ Stands(StaticUncacheable(fs), "static-uncacheable", fs, F)
         /\ Stands(SlowEndpoint(fs), "slow-endpoint", fs, F)
         /\ Stands(CorsPreflight(fs), "cors-preflight", fs, F)
         /\ Stands(TokenInUrl(fs), "token-in-url", fs, F)
         /\ Stands(InsecureCookies(fs), "insecure-cookie", fs, F)
         /\ Stands(PlaintextCredentials(fs), "plaintext-credentials", fs, F)
         /\ Stands(ImageUnoptimized(fs), "image-unoptimized", fs, F)
         /\ Stands(ShortCache(fs), "short-cache", fs, F)
         /\ Stands(MixedContent(fs), "mixed-content", fs, F)
         /\ Stands(MissingSecurityHeaders(fs), "missing-security-headers", fs, F)
         /\ Stands(BrokenAsset(fs), "broken-asset", fs, F)
         /\ Stands(EmptyResponse(fs), "empty-response", fs, F)
         /\ Stands(SlowConnect(fs), "slow-connect", fs, F)
         /\ Stands(CdnMiss(fs), "cdn-miss", fs, F)
<1>1. Stands(Burst(fs), "burst", fs, F)
  <2>1. Limit.burst \in Nat /\ Limit.burstWindow \in Nat /\ Limit.burstHigh \in Nat
    BY AnalysisAssumption
  <2> QED BY <2>1, DenseStands DEF Burst, Only
<1>2. Stands(RetryStorm(fs), "retry-storm", fs, F)
  <2>1. Limit.retry \in Nat /\ Limit.retryWindow \in Nat /\ Limit.retryHigh \in Nat
    BY AnalysisAssumption
  <2> QED BY <2>1, DenseStands DEF RetryStorm, Only
<1>3. Stands(Polling(fs), "polling", fs, F)
  <2> DEFINE S == {f \in ToSet(fs) : f.method = "GET" /\ ~ Has(f, {"mcp"})}
             some == {g \in ByEndpoint(Within(fs, S)) : Len(g) >= Limit.poll /\ Steady(g)}
  <2>1. Polling(fs) = EachEndpoint("polling", Info, some)
    BY DEF Polling, Only
  <2>2. some \in SUBSET ByEndpoint(Within(fs, S))
    OBVIOUS
  <2> HIDE DEF some, S
  <2> QED BY <2>1, <2>2, SomeEndpointsStand
<1>4. Stands(EmptyResponse(fs), "empty-response", fs, F)
  <2> DEFINE S == {f \in ToSet(fs) :
                     /\ OriginResponse(f) /\ f.status = 200 /\ ~ Has(f, {"mcp"}) /\ f.method \notin {"HEAD", "OPTIONS"}
                     /\ DecodedSize(f) = 0 \/ (DecodedSize(f) <= 4 /\ IsData(f))}
             some == {g \in ByEndpoint(Within(fs, S)) : Len(g) >= Limit.empty}
  <2>1. EmptyResponse(fs) = EachEndpoint("empty-response", Info, some)
    BY DEF EmptyResponse, Only
  <2>2. some \in SUBSET ByEndpoint(Within(fs, S))
    OBVIOUS
  <2> HIDE DEF some, S
  <2> QED BY <2>1, <2>2, SomeEndpointsStand
<1>5. Stands(LargePayload(fs), "large-payload", fs, F)
  <2> DEFINE S == {f \in ToSet(fs) :
                     /\ OriginResponse(f)
                     /\ \/ IsData(f) /\ DecodedSize(f) >= Limit.large
                        \/ f.media = "html" /\ DecodedSize(f) >= Limit.html}
             some == ByEndpoint(Within(fs, S))
  <2>1. LargePayload(fs) = EachEndpoint("large-payload", Info, some)
    BY DEF LargePayload, Only
  <2>2. some \in SUBSET ByEndpoint(Within(fs, S))
    OBVIOUS
  <2> HIDE DEF some, S
  <2> QED BY <2>1, <2>2, SomeEndpointsStand
<1>6. Stands(SlowConnect(fs), "slow-connect", fs, F)
  <2> DEFINE S == {f \in ToSet(fs) : ~ Has(f, {"reused"}) /\ {f.dns, f.connect, f.tls} # {None}}
             some == {g \in ByHost(Within(fs, S)) : SlowToConnect(g)}
  <2>1. SlowConnect(fs) = EachHost("slow-connect", Info, some)
    BY DEF SlowConnect, Only
  <2>2. some \in SUBSET ByHost(Within(fs, S))
    OBVIOUS
  <2> HIDE DEF some, S
  <2> QED BY <2>1, <2>2, SomeHostsStand
<1>7. Stands(CorsPreflight(fs), "cors-preflight", fs, F)
  <2> DEFINE S == {f \in ToSet(fs) : f.method = "OPTIONS" /\ Has(f, {"preflight"})}
             some == {g \in ByHost(Within(fs, S)) : Len(g) >= Limit.preflights}
  <2>1. CorsPreflight(fs) = EachHost("cors-preflight", Info, some)
    BY DEF CorsPreflight, Only
  <2>2. some \in SUBSET ByHost(Within(fs, S))
    OBVIOUS
  <2> HIDE DEF some, S
  <2> QED BY <2>1, <2>2, SomeHostsStand
<1>8. Stands(RateLimited(fs), "rate-limited", fs, F)
  BY HostsStand DEF RateLimited, Only
<1>9. Stands(BrokenAsset(fs), "broken-asset", fs, F)
  BY HostsStand DEF BrokenAsset, Only
<1>10. Stands(Uncompressed(fs), "uncompressed", fs, F)
  BY HostsBySizeStand DEF Uncompressed, Only
<1>11. Stands(ImageUnoptimized(fs), "image-unoptimized", fs, F)
  BY HostsBySizeStand DEF ImageUnoptimized, Only
<1>12. Stands(StaticUncacheable(fs), "static-uncacheable", fs, F)
  BY HostsStand DEF StaticUncacheable, Only
<1>13. Stands(ShortCache(fs), "short-cache", fs, F)
  BY HostsStand DEF ShortCache, Only
<1>14. Stands(TokenInUrl(fs), "token-in-url", fs, F)
  BY HostsStand DEF TokenInUrl, Only
<1>15. Stands(InsecureCookies(fs), "insecure-cookie", fs, F)
  BY HostsStand DEF InsecureCookies, Only
<1>16. Stands(PlaintextCredentials(fs), "plaintext-credentials", fs, F)
  BY HostsStand DEF PlaintextCredentials, Only
<1>17. Stands(MixedContent(fs), "mixed-content", fs, F)
  BY HostsStand DEF MixedContent, Only
<1>18. Stands(MissingSecurityHeaders(fs), "missing-security-headers", fs, F)
  BY HostsStand DEF MissingSecurityHeaders, Only
<1>19. Stands(ErrorRate(fs), "error-rate", fs, F) /\ Stands(CdnMiss(fs), "cdn-miss", fs, F)
       /\ Stands(SlowEndpoint(fs), "slow-endpoint", fs, F)
  BY ErrorRateStands, CdnMissStands, SlowEndpointStands
<1> QED BY <1>1, <1>2, <1>3, <1>4, <1>5, <1>6, <1>7, <1>8, <1>9, <1>10, <1>11, <1>12, <1>13, <1>14,
           <1>15, <1>16, <1>17, <1>18, <1>19

(* The ids a finding carries are those of its newest flows. *)
LEMMA NewestCarried ==
  ASSUME NEW F, Timed(F), \A f, g \in F : f.id = g.id => f = g, NEW x, Row(x.flows, F),
         NEW f \in ToSet(x.flows), NEW g \in ToSet(x.flows),
         f.id \in ToSet(FlowIds(x)), g.id \notin ToSet(FlowIds(x))
  PROVE  g.at <= f.at
<1> DEFINE s == x.flows
           L == Len(s)
           over == L - Limit.ids
           skip == Max({0, over})
<1>1. s \in Seq(F) /\ L \in Nat /\ ToSet(s) = {s[i] : i \in 1..L} /\ \A i \in 1..L : s[i] \in F
  <2>1. s \in Seq(F)
    BY DEF Row
  <2> HIDE DEF s
  <2>2. L \in Nat /\ \A i \in 1..L : s[i] \in F
    BY <2>1
  <2> QED BY <2>1, <2>2, Told
<1>2. over \in Int /\ over <= L
  <2>1. Limit.ids \in Nat
    BY AnalysisAssumption
  <2> HIDE DEF L
  <2> QED BY <1>1, <2>1
<1>3. FlowIds(x) = [i \in 1..(L - skip) |-> s[skip + i].id]
  BY DEF FlowIds
<1> HIDE DEF s, L
<1>4. skip \in 0..L
  <2> HIDE DEF over
  <2>1. \E m \in {0, over} : \A y \in {0, over} : m >= y
    <3>1. 0 >= over \/ over >= 0
      BY <1>2
    <3>2. 0 >= 0 /\ over >= over
      BY <1>2
    <3> QED BY <3>1, <3>2
  <2>2. skip \in {0, over} /\ \A y \in {0, over} : skip >= y
    BY <2>1 DEF Max
  <2> HIDE DEF skip
  <2> QED BY <1>1, <1>2, <2>2
<1> HIDE DEF skip
<1>5. ToSet(FlowIds(x)) = {s[skip + i].id : i \in 1..(L - skip)}
  BY <1>3 DEF ToSet
<1>6. PICK p \in 1..L, q \in 1..L : f = s[p] /\ g = s[q]
  BY <1>1 DEF s
<1>7. PICK i \in 1..(L - skip) : f.id = s[skip + i].id
  BY <1>5
<1>8. skip + i \in 1..L /\ skip < skip + i
  BY <1>1, <1>4
<1>9. f = s[skip + i]
  BY <1>1, <1>6, <1>7, <1>8
<1>10. q <= skip
  <2>1. ASSUME ~ (q <= skip) PROVE FALSE
    <3>1. q - skip \in 1..(L - skip) /\ skip + (q - skip) = q
      BY <1>1, <1>4, <1>6, <2>1
    <3>2. g.id = s[skip + (q - skip)].id
      BY <1>6, <3>1
    <3> QED BY <1>5, <3>1, <3>2
  <2> QED BY <2>1
<1>11. q <= skip + i
  BY <1>4, <1>6, <1>8, <1>10
<1>12. \A k, l \in 1..L : k <= l => s[k].at <= s[l].at
  BY DEF Row, InOrder, s, L
<1> QED BY <1>6, <1>8, <1>9, <1>11, <1>12

(* Flows that start at different times have one order. *)
LEMMA OneOrder ==
  ASSUME NEW F, Timed(F), NEW s, Row(s, F), NEW t, Row(t, F), ToSet(s) = ToSet(t),
         \A f, g \in ToSet(s) : f = g \/ f.at # g.at
  PROVE  s = t
<1> DEFINE L == Len(s)
<1>1. s \in Seq(F) /\ t \in Seq(F) /\ L \in Nat /\ Len(t) = L
  <2>1. s \in Seq(F) /\ t \in Seq(F) /\ Once(s) /\ Once(t)
    BY DEF Row
  <2>2. Cardinality(ToSet(s)) = Len(s) /\ Cardinality(ToSet(t)) = Len(t)
    BY <2>1, OnceCounts
  <2> QED BY <2>1, <2>2
<1> HIDE DEF L
<1>2. /\ ToSet(s) = {s[i] : i \in 1..L} /\ ToSet(t) = {t[i] : i \in 1..L}
      /\ \A i \in 1..L : s[i].at \in Int /\ t[i].at \in Int
  <2>1. ToSet(s) = {s[i] : i \in 1..L} /\ ToSet(t) = {t[i] : i \in 1..L}
    BY <1>1, Told DEF L
  <2>2. \A i \in 1..L : s[i] \in F /\ t[i] \in F
    BY <1>1 DEF L
  <2> QED BY <2>1, <2>2 DEF Timed
<1>3. /\ \A i, j \in 1..L : s[i] = s[j] => i = j
      /\ \A i, j \in 1..L : t[i] = t[j] => i = j
      /\ \A i, j \in 1..L : i <= j => s[i].at <= s[j].at
      /\ \A i, j \in 1..L : i <= j => t[i].at <= t[j].at
  BY <1>1 DEF Row, Once, InOrder, L
<1> DEFINE S == {i \in 1..L : s[i] # t[i]}
<1>4. ASSUME S # {} PROVE FALSE
  <2>1. PICK p \in S : \A i \in S : p <= i
    <3>1. S \in SUBSET Nat
      OBVIOUS
    <3> HIDE DEF S
    <3> QED BY <1>4, <3>1, Smallest
  <2>2. p \in 1..L /\ s[p] # t[p] /\ \A i \in 1..L : ~ (p <= i) => s[i] = t[i]
    BY <2>1
  <2>3. t[p] \in ToSet(s) /\ s[p] \in ToSet(s)
    <3>1. t[p] \in ToSet(t) /\ s[p] \in ToSet(s)
      BY <1>2, <2>2
    <3> QED BY <3>1
  <2>4. PICK q \in 1..L, r \in 1..L : s[p] = t[q] /\ t[p] = s[r]
    <3>1. s[p] \in ToSet(t)
      BY <2>3
    <3>2. \E q \in 1..L : s[p] = t[q]
      BY <1>2, <3>1
    <3>3. \E r \in 1..L : t[p] = s[r]
      BY <1>2, <2>3
    <3> QED BY <3>2, <3>3
  <2>5. p <= q
    BY <1>3, <2>2, <2>4
  <2>6. p <= r
    BY <1>3, <2>2, <2>4
  <2>7. t[p].at <= s[p].at /\ s[p].at <= t[p].at
    BY <1>3, <2>2, <2>4, <2>5, <2>6
  <2>8. t[p].at = s[p].at
    <3>1. t[p].at \in Int /\ s[p].at \in Int
      BY <1>2, <2>2
    <3> QED BY <2>7, <3>1
  <2> QED BY <2>2, <2>8, <2>3
<1>5. \A i \in 1..L : s[i] = t[i]
  BY <1>4
<1> QED BY <1>1, <1>5 DEF L

LEMMA ReversedFacts ==
  ASSUME NEW F, NEW s \in Seq(F), Once(s)
  PROVE  Reverse(s) \in Seq(F) /\ Once(Reverse(s)) /\ ToSet(Reverse(s)) = ToSet(s)
<1> DEFINE L == Len(s)
           t == Reverse(s)
<1>1. L \in Nat /\ ToSet(s) = {s[i] : i \in 1..L} /\ \A i \in 1..L : s[i] \in F
  BY Told
<1>2. t = [i \in 1..L |-> s[(L - i) + 1]]
  BY DEF Reverse
<1> HIDE DEF L, t
<1>3. /\ \A i \in 1..L : (L - i) + 1 \in 1..L /\ (L - ((L - i) + 1)) + 1 = i
      /\ \A i, j \in 1..L : (L - i) + 1 = (L - j) + 1 => i = j
  BY <1>1
<1>4. t \in Seq(F) /\ Len(t) = L /\ \A i \in 1..L : t[i] = s[(L - i) + 1]
  BY <1>1, <1>2, <1>3
<1>5. ToSet(t) = {t[i] : i \in 1..L}
  BY <1>4, Told
<1>6. Once(t)
  BY <1>3, <1>4 DEF Once, L
<1>7. ToSet(t) = ToSet(s)
  <2>1. \A f \in ToSet(t) : f \in ToSet(s)
    BY <1>1, <1>3, <1>4, <1>5
  <2>2. \A i \in 1..L : s[i] = t[(L - i) + 1]
    BY <1>3, <1>4
  <2>3. \A f \in ToSet(s) : f \in ToSet(t)
    BY <1>1, <1>3, <1>5, <2>2
  <2> QED BY <2>1, <2>3
<1> QED BY <1>4, <1>6, <1>7 DEF t

(* The check that tells a rule. *)
Check(rule, fs) ==
  CASE rule = "burst" -> Burst(fs)
    [] rule = "polling" -> Polling(fs)
    [] rule = "retry-storm" -> RetryStorm(fs)
    [] rule = "rate-limited" -> RateLimited(fs)
    [] rule = "error-rate" -> ErrorRate(fs)
    [] rule = "uncompressed" -> Uncompressed(fs)
    [] rule = "large-payload" -> LargePayload(fs)
    [] rule = "static-uncacheable" -> StaticUncacheable(fs)
    [] rule = "slow-endpoint" -> SlowEndpoint(fs)
    [] rule = "cors-preflight" -> CorsPreflight(fs)
    [] rule = "token-in-url" -> TokenInUrl(fs)
    [] rule = "insecure-cookie" -> InsecureCookies(fs)
    [] rule = "plaintext-credentials" -> PlaintextCredentials(fs)
    [] rule = "image-unoptimized" -> ImageUnoptimized(fs)
    [] rule = "short-cache" -> ShortCache(fs)
    [] rule = "mixed-content" -> MixedContent(fs)
    [] rule = "missing-security-headers" -> MissingSecurityHeaders(fs)
    [] rule = "broken-asset" -> BrokenAsset(fs)
    [] rule = "empty-response" -> EmptyResponse(fs)
    [] rule = "slow-connect" -> SlowConnect(fs)
    [] rule = "cdn-miss" -> CdnMiss(fs)

LEMMA OfItsCheck ==
  ASSUME NEW F, Timed(F), NEW fs, Row(fs, F), NEW found, NEW rule, Stands(found, rule, fs, F),
         found = Check(rule, fs), NEW x \in found
  PROVE  x \in Check(x.rule, fs) /\ Stands(Check(x.rule, fs), x.rule, fs, F)
<1>1. x.rule = rule
  BY DEF Stands
<1> QED BY <1>1

LEMMA CheckFound ==
  ASSUME NEW F, Timed(F), NEW captured, NEW fs, fs = Judged(captured), Row(fs, F), NEW x \in analyze(captured)
  PROVE  \/ x \in RedirectChain(fs)
         \/ x \in Check(x.rule, fs) /\ Stands(Check(x.rule, fs), x.rule, fs, F)
<1> DEFINE fine == x \in Check(x.rule, fs) /\ Stands(Check(x.rule, fs), x.rule, fs, F)
<1>0. \/ x \in Burst(fs)
      \/ x \in Polling(fs)
      \/ x \in RetryStorm(fs)
      \/ x \in RateLimited(fs)
      \/ x \in ErrorRate(fs)
      \/ x \in Uncompressed(fs)
      \/ x \in LargePayload(fs)
      \/ x \in StaticUncacheable(fs)
      \/ x \in SlowEndpoint(fs)
      \/ x \in CorsPreflight(fs)
      \/ x \in TokenInUrl(fs)
      \/ x \in InsecureCookies(fs)
      \/ x \in PlaintextCredentials(fs)
      \/ x \in ImageUnoptimized(fs)
      \/ x \in ShortCache(fs)
      \/ x \in MixedContent(fs)
      \/ x \in MissingSecurityHeaders(fs)
      \/ x \in BrokenAsset(fs)
      \/ x \in EmptyResponse(fs)
      \/ x \in SlowConnect(fs)
      \/ x \in CdnMiss(fs)
      \/ x \in RedirectChain(fs)
  BY DEF analyze
<1> HIDE DEF fine
<1>1. ASSUME x \in Burst(fs) PROVE fine
  <2>1. Burst(fs) = Check("burst", fs)
    BY DEF Check
  <2>2. Stands(Burst(fs), "burst", fs, F)
    BY ChecksStand
  <2> QED BY <1>1, <2>1, <2>2, OfItsCheck DEF fine
<1>2. ASSUME x \in Polling(fs) PROVE fine
  <2>1. Polling(fs) = Check("polling", fs)
    BY DEF Check
  <2>2. Stands(Polling(fs), "polling", fs, F)
    BY ChecksStand
  <2> QED BY <1>2, <2>1, <2>2, OfItsCheck DEF fine
<1>3. ASSUME x \in RetryStorm(fs) PROVE fine
  <2>1. RetryStorm(fs) = Check("retry-storm", fs)
    BY DEF Check
  <2>2. Stands(RetryStorm(fs), "retry-storm", fs, F)
    BY ChecksStand
  <2> QED BY <1>3, <2>1, <2>2, OfItsCheck DEF fine
<1>4. ASSUME x \in RateLimited(fs) PROVE fine
  <2>1. RateLimited(fs) = Check("rate-limited", fs)
    BY DEF Check
  <2>2. Stands(RateLimited(fs), "rate-limited", fs, F)
    BY ChecksStand
  <2> QED BY <1>4, <2>1, <2>2, OfItsCheck DEF fine
<1>5. ASSUME x \in ErrorRate(fs) PROVE fine
  <2>1. ErrorRate(fs) = Check("error-rate", fs)
    BY DEF Check
  <2>2. Stands(ErrorRate(fs), "error-rate", fs, F)
    BY ChecksStand
  <2> QED BY <1>5, <2>1, <2>2, OfItsCheck DEF fine
<1>6. ASSUME x \in Uncompressed(fs) PROVE fine
  <2>1. Uncompressed(fs) = Check("uncompressed", fs)
    BY DEF Check
  <2>2. Stands(Uncompressed(fs), "uncompressed", fs, F)
    BY ChecksStand
  <2> QED BY <1>6, <2>1, <2>2, OfItsCheck DEF fine
<1>7. ASSUME x \in LargePayload(fs) PROVE fine
  <2>1. LargePayload(fs) = Check("large-payload", fs)
    BY DEF Check
  <2>2. Stands(LargePayload(fs), "large-payload", fs, F)
    BY ChecksStand
  <2> QED BY <1>7, <2>1, <2>2, OfItsCheck DEF fine
<1>8. ASSUME x \in StaticUncacheable(fs) PROVE fine
  <2>1. StaticUncacheable(fs) = Check("static-uncacheable", fs)
    BY DEF Check
  <2>2. Stands(StaticUncacheable(fs), "static-uncacheable", fs, F)
    BY ChecksStand
  <2> QED BY <1>8, <2>1, <2>2, OfItsCheck DEF fine
<1>9. ASSUME x \in SlowEndpoint(fs) PROVE fine
  <2>1. SlowEndpoint(fs) = Check("slow-endpoint", fs)
    BY DEF Check
  <2>2. Stands(SlowEndpoint(fs), "slow-endpoint", fs, F)
    BY ChecksStand
  <2> QED BY <1>9, <2>1, <2>2, OfItsCheck DEF fine
<1>10. ASSUME x \in CorsPreflight(fs) PROVE fine
  <2>1. CorsPreflight(fs) = Check("cors-preflight", fs)
    BY DEF Check
  <2>2. Stands(CorsPreflight(fs), "cors-preflight", fs, F)
    BY ChecksStand
  <2> QED BY <1>10, <2>1, <2>2, OfItsCheck DEF fine
<1>11. ASSUME x \in TokenInUrl(fs) PROVE fine
  <2>1. TokenInUrl(fs) = Check("token-in-url", fs)
    BY DEF Check
  <2>2. Stands(TokenInUrl(fs), "token-in-url", fs, F)
    BY ChecksStand
  <2> QED BY <1>11, <2>1, <2>2, OfItsCheck DEF fine
<1>12. ASSUME x \in InsecureCookies(fs) PROVE fine
  <2>1. InsecureCookies(fs) = Check("insecure-cookie", fs)
    BY DEF Check
  <2>2. Stands(InsecureCookies(fs), "insecure-cookie", fs, F)
    BY ChecksStand
  <2> QED BY <1>12, <2>1, <2>2, OfItsCheck DEF fine
<1>13. ASSUME x \in PlaintextCredentials(fs) PROVE fine
  <2>1. PlaintextCredentials(fs) = Check("plaintext-credentials", fs)
    BY DEF Check
  <2>2. Stands(PlaintextCredentials(fs), "plaintext-credentials", fs, F)
    BY ChecksStand
  <2> QED BY <1>13, <2>1, <2>2, OfItsCheck DEF fine
<1>14. ASSUME x \in ImageUnoptimized(fs) PROVE fine
  <2>1. ImageUnoptimized(fs) = Check("image-unoptimized", fs)
    BY DEF Check
  <2>2. Stands(ImageUnoptimized(fs), "image-unoptimized", fs, F)
    BY ChecksStand
  <2> QED BY <1>14, <2>1, <2>2, OfItsCheck DEF fine
<1>15. ASSUME x \in ShortCache(fs) PROVE fine
  <2>1. ShortCache(fs) = Check("short-cache", fs)
    BY DEF Check
  <2>2. Stands(ShortCache(fs), "short-cache", fs, F)
    BY ChecksStand
  <2> QED BY <1>15, <2>1, <2>2, OfItsCheck DEF fine
<1>16. ASSUME x \in MixedContent(fs) PROVE fine
  <2>1. MixedContent(fs) = Check("mixed-content", fs)
    BY DEF Check
  <2>2. Stands(MixedContent(fs), "mixed-content", fs, F)
    BY ChecksStand
  <2> QED BY <1>16, <2>1, <2>2, OfItsCheck DEF fine
<1>17. ASSUME x \in MissingSecurityHeaders(fs) PROVE fine
  <2>1. MissingSecurityHeaders(fs) = Check("missing-security-headers", fs)
    BY DEF Check
  <2>2. Stands(MissingSecurityHeaders(fs), "missing-security-headers", fs, F)
    BY ChecksStand
  <2> QED BY <1>17, <2>1, <2>2, OfItsCheck DEF fine
<1>18. ASSUME x \in BrokenAsset(fs) PROVE fine
  <2>1. BrokenAsset(fs) = Check("broken-asset", fs)
    BY DEF Check
  <2>2. Stands(BrokenAsset(fs), "broken-asset", fs, F)
    BY ChecksStand
  <2> QED BY <1>18, <2>1, <2>2, OfItsCheck DEF fine
<1>19. ASSUME x \in EmptyResponse(fs) PROVE fine
  <2>1. EmptyResponse(fs) = Check("empty-response", fs)
    BY DEF Check
  <2>2. Stands(EmptyResponse(fs), "empty-response", fs, F)
    BY ChecksStand
  <2> QED BY <1>19, <2>1, <2>2, OfItsCheck DEF fine
<1>20. ASSUME x \in SlowConnect(fs) PROVE fine
  <2>1. SlowConnect(fs) = Check("slow-connect", fs)
    BY DEF Check
  <2>2. Stands(SlowConnect(fs), "slow-connect", fs, F)
    BY ChecksStand
  <2> QED BY <1>20, <2>1, <2>2, OfItsCheck DEF fine
<1>21. ASSUME x \in CdnMiss(fs) PROVE fine
  <2>1. CdnMiss(fs) = Check("cdn-miss", fs)
    BY DEF Check
  <2>2. Stands(CdnMiss(fs), "cdn-miss", fs, F)
    BY ChecksStand
  <2> QED BY <1>21, <2>1, <2>2, OfItsCheck DEF fine
<1> QED BY <1>0, <1>1, <1>2, <1>3, <1>4, <1>5, <1>6, <1>7, <1>8, <1>9, <1>10, <1>11, <1>12, <1>13, <1>14, <1>15, <1>16, <1>17, <1>18, <1>19, <1>20, <1>21 DEF fine

(* What analyze (insights.rs) tells is about one app and, but for redirects,  *)
(* one host and has an id of its own; its flows can be judged and are in      *)
(* order of time, the list of ids keeps the newest, and flows that start at   *)
(* different times may be stored in any order: see FindingsStandAlone.        *)
THEOREM FindingsStand == AnalysisSpec => []FindingsStandAlone
<1>1. CaptureFine => FindingsStandAlone
  <2> SUFFICES ASSUME CaptureFine PROVE FindingsStandAlone
    OBVIOUS
  <2> DEFINE fs == Judged(capture)
             found == analyze(capture)
             redirect(x) == x.rule \in {"redirect-chain", "redirect-loop"}
  <2>1. /\ Timed(traffic) /\ capture \in Seq(traffic) /\ Once(capture)
        /\ \A f, g \in traffic : f.id = g.id => f = g
    BY TrafficTimed, AnalysisAssumption DEF CaptureFine
  <2>2. Row(fs, traffic) /\ ToSet(fs) = {f \in ToSet(capture) : Judgeable(f)}
    BY <2>1, JudgedFacts
  <2>3. \A x \in found : \/ x \in RedirectChain(fs)
                         \/ x \in Check(x.rule, fs) /\ Stands(Check(x.rule, fs), x.rule, fs, traffic)
    BY <2>1, <2>2, CheckFound
  <2> HIDE DEF fs, found
  <2>4. ASSUME NEW x \in found
        PROVE  /\ Row(x.flows, traffic) /\ ToSet(x.flows) \subseteq ToSet(fs)
               /\ \A f \in ToSet(x.flows) : /\ f.app = Head(x.flows).app
                                            /\ redirect(x) \/ HostOf(f) = HostOf(Head(x.flows))
    <3>1. CASE x \in RedirectChain(fs)
      BY <2>1, <2>2, <3>1, RedirectsStand
    <3>2. CASE x \in Check(x.rule, fs) /\ Stands(Check(x.rule, fs), x.rule, fs, traffic)
      BY <3>2 DEF Stands
    <3> QED BY <2>3, <3>1, <3>2
  <2>5. ASSUME NEW x \in found
        PROVE  /\ \A f \in ToSet(x.flows) :
                    /\ Judgeable(f) /\ f.app = Head(x.flows).app
                    /\ redirect(x) \/ HostOf(f) = HostOf(Head(x.flows))
               /\ \A i \in 1..(Len(x.flows) - 1) : x.flows[i].at <= x.flows[i + 1].at
               /\ \A f \in ToSet(x.flows), g \in ToSet(x.flows) :
                    f.id \in ToSet(FlowIds(x)) /\ g.id \notin ToSet(FlowIds(x)) => g.at <= f.at
    <3>1. \A f \in ToSet(x.flows) : Judgeable(f)
      BY <2>2, <2>4
    <3>2. \A i \in 1..(Len(x.flows) - 1) : x.flows[i].at <= x.flows[i + 1].at
      <4>1. x.flows \in Seq(traffic) /\ InOrder(x.flows)
        BY <2>4 DEF Row
      <4>2. Len(x.flows) \in Nat
        BY <4>1
      <4>3. \A i \in 1..(Len(x.flows) - 1) : i \in 1..Len(x.flows) /\ i + 1 \in 1..Len(x.flows) /\ i <= i + 1
        BY <4>2
      <4> QED BY <4>1, <4>3 DEF InOrder
    <3>3. \A f \in ToSet(x.flows), g \in ToSet(x.flows) :
            f.id \in ToSet(FlowIds(x)) /\ g.id \notin ToSet(FlowIds(x)) => g.at <= f.at
      BY <2>1, <2>4, NewestCarried
    <3> QED BY <2>4, <3>1, <3>2, <3>3
  <2>6. ASSUME NEW x \in found, NEW y \in found, ~ redirect(x), x.rule = y.rule, x.key = y.key
        PROVE  x = y
    <3>1. x \notin RedirectChain(fs) /\ y \notin RedirectChain(fs)
      BY <2>1, <2>2, <2>6, RedirectsStand
    <3> QED BY <2>3, <2>6, <3>1 DEF Stands
  <2>7. ASSUME \A f, g \in ToSet(capture) : f = g \/ f.at # g.at
        PROVE  analyze(Reverse(capture)) = found
    <3> DEFINE back == Reverse(capture)
    <3>1. back \in Seq(traffic) /\ Once(back) /\ ToSet(back) = ToSet(capture)
      BY <2>1, ReversedFacts
    <3> HIDE DEF back
    <3>2. Row(Judged(back), traffic) /\ ToSet(Judged(back)) = {f \in ToSet(capture) : Judgeable(f)}
      BY <2>1, <3>1, JudgedFacts
    <3>3. Judged(back) = fs
      <4>1. \A f, g \in ToSet(fs) : f = g \/ f.at # g.at
        BY <2>2, <2>7
      <4> QED BY <2>1, <2>2, <3>2, <4>1, OneOrder
    <3>4. analyze(back) = analyze(capture)
      BY <3>3 DEF analyze, fs
    <3> QED BY <3>4 DEF found, back
  <2> QED BY <2>5, <2>6, <2>7 DEF FindingsStandAlone, found
<1> QED BY <1>1, CaptureInv, PTL

=============================================================================
