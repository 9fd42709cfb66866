---------------------------- MODULE BodiesProofs ----------------------------
(***************************************************************************)
(* What the body store keeps true for bodies of any size, any caps and any *)
(* disk budget: its accounts, the files they count, and what a body that   *)
(* is read back says of itself.                                            *)
(***************************************************************************)
EXTENDS Bodies, SequenceTheorems, NaturalsInduction, WellFoundedInduction, TLAPS

Previews == [total : Nat, len : Nat, truncated : BOOLEAN, spilled : BOOLEAN, there : BOOLEAN]
Entries  == [id : Ids, data : [Sides -> Previews]]
Files    == [path : Paths, len : Nat]
Stages   == {"none", "streaming", "finished", "folded", "panicked"}
Captures == [at : Stages, total : Nat, written : Nat, open : BOOLEAN, path : BOOLEAN,
             spilled : BOOLEAN]

Distinct(s) == \A m, n \in 1..Len(s) : s[m].id = s[n].id => m = n

LogTypes == log \in Seq(Entries) /\ Distinct(log)

BodyTypes ==
  /\ LogTypes
  /\ leaving \subseteq Ids
  /\ captures \in [Paths -> Captures]
  /\ DOMAIN disk \subseteq Paths /\ \A p \in DOMAIN disk : disk[p] \in Nat
  /\ files \in Seq(Files) /\ used \in Int /\ faults \in Nat

(* A flow that is in the store, or out of it with its bodies still there.  *)
Kept(id) == id \in Store!Logged \/ id \in leaving

(* What a capture has written and what has become of it.                   *)
Capturing(p) ==
  LET c == captures[p] IN
  /\ c.at = "none" => ~c.open /\ p \notin DOMAIN disk /\ ~Kept(p[1])
  /\ c.open => /\ c.at = "streaming" /\ c.written = Least(c.total, PerBodyCap)
               /\ Kept(p[1]) => p \in DOMAIN disk
  /\ c.spilled => /\ c.at \in {"finished", "folded"} /\ c.written = Least(c.total, PerBodyCap)
                  /\ p \in DOMAIN disk => disk[p] = c.written

(* A file is counted once, when its capture has ended well, and is there   *)
(* for as long as its flow's bodies are not deleted.                       *)
Counted(i) ==
  LET f == files[i] IN
  /\ captures[f.path].spilled /\ f.len = captures[f.path].written
  /\ Kept(f.path[1]) => f.path \in DOMAIN disk

CountedOnce == \A i, j \in 1..Len(files) : files[i].path = files[j].path => i = j

(* While the disk works a file is being written or counted.                *)
Flawless ==
  faults = 0 => \A p \in Paths :
    /\ captures[p].at = "streaming" /\ ~captures[p].open =>
         captures[p].path /\ captures[p].total <= InlineCap
    /\ p \in DOMAIN disk => captures[p].open \/ (captures[p].spilled /\ Registered(p))

(* A flow shows what was captured of it.                                   *)
Shown ==
  /\ \A id \in leaving : id \notin Store!Logged
  /\ \A p \in Listed : captures[p].at = "folded" /\ Preview(p) = Folded(captures[p])

BodiesInv ==
  /\ BodyTypes
  /\ BudgetKept
  /\ \A p \in Paths : Capturing(p)
  /\ \A i \in DOMAIN files : Counted(i)
  /\ CountedOnce
  /\ Flawless
  /\ Shown

------------------------------------------------------------------------------
(* Sums of files.                                                          *)

(* The least of a set of numbers, for arguments by a first counterexample. *)
LEMMA Smallest ==
  ASSUME NEW S \in SUBSET Nat, S # {}
  PROVE  \E n \in S : \A m \in S : n <= m
<1>1. PICK n \in S : \A m \in S : <<m, n>> \notin OpToRel(<, Nat)
  BY NatLessThanWellFounded, WFMin
<1>2. \A m \in S : ~ (m < n)
  BY <1>1 DEF OpToRel
<1> QED BY <1>2

Summing(sum, fs) ==
  sum = [n \in 0..Len(fs) |-> IF n = 0 THEN 0 ELSE sum[n - 1] + fs[n].len]

LEMMA TotalIsSum == ASSUME NEW fs PROVE Total(fs) = (CHOOSE sum : Summing(sum, fs))[Len(fs)]
BY DEF Total, Summing

LEMMA SumExtends ==
  ASSUME NEW fs \in Seq(Files), NEW f \in Files, NEW sum, Summing(sum, fs)
  PROVE  \E longer : Summing(longer, Append(fs, f)) /\ \A n \in 0..Len(fs) : longer[n] = sum[n]
<1> DEFINE k == Len(fs) + 1
           gs == Append(fs, f)
           longer == [n \in 0..k |-> IF n = k THEN sum[k - 1] + gs[k].len ELSE sum[n]]
<1>1. /\ Len(fs) \in Nat /\ k \in Nat /\ k # 0 /\ k - 1 = Len(fs) /\ Len(gs) = k
      /\ \A n \in 1..Len(fs) : gs[n] = fs[n]
  OBVIOUS
<1>2. \A n \in 0..Len(fs) : n \in 0..k /\ n # k
  BY <1>1
<1>3. \A n \in 0..Len(fs) : longer[n] = sum[n]
  BY <1>2
<1>4. longer[k] = sum[k - 1] + gs[k].len
  BY <1>1
<1>5. \A n \in 0..k : longer[n] = IF n = 0 THEN 0 ELSE longer[n - 1] + gs[n].len
  <2> SUFFICES ASSUME NEW n \in 0..k
               PROVE  longer[n] = IF n = 0 THEN 0 ELSE longer[n - 1] + gs[n].len
    OBVIOUS
  <2>1. CASE n = k
    <3>1. longer[k - 1] = sum[k - 1]
      <4>1. k - 1 \in 0..Len(fs)
        BY <1>1
      <4> HIDE DEF longer, k
      <4> QED BY <1>3, <4>1
    <3> HIDE DEF longer, gs
    <3> QED BY <1>1, <1>4, <2>1, <3>1
  <2>2. CASE n # k
    <3>1. n \in 0..Len(fs)
      BY <1>1, <2>2
    <3>2. longer[n] = sum[n] /\ sum[n] = IF n = 0 THEN 0 ELSE sum[n - 1] + fs[n].len
      BY <1>3, <3>1 DEF Summing
    <3>3. n # 0 => n - 1 \in 0..Len(fs) /\ n \in 1..Len(fs)
      BY <1>1, <3>1
    <3>4. n # 0 => longer[n - 1] = sum[n - 1] /\ gs[n] = fs[n]
      BY <1>1, <1>3, <3>3
    <3> HIDE DEF longer, gs
    <3> QED BY <3>2, <3>4
  <2> QED BY <2>1, <2>2
<1>6. Summing(longer, gs)
  <2>1. longer = [n \in 0..k |-> longer[n]]
    OBVIOUS
  <2> HIDE DEF longer
  <2>2. [n \in 0..k |-> longer[n]] = [n \in 0..k |-> IF n = 0 THEN 0 ELSE longer[n - 1] + gs[n].len]
    BY <1>5
  <2> HIDE DEF gs, k
  <2>3. Len(gs) = k
    BY <1>1
  <2> QED BY <2>1, <2>2, <2>3 DEF Summing
<1> HIDE DEF longer
<1> QED BY <1>3, <1>6

LEMMA SumAgrees ==
  ASSUME NEW fs \in Seq(Files), NEW sum, NEW same, Summing(sum, fs), Summing(same, fs)
  PROVE  sum[Len(fs)] = same[Len(fs)]
<1> DEFINE S == {n \in 0..Len(fs) : sum[n] # same[n]}
<1>1. ASSUME S # {} PROVE FALSE
  <2>1. PICK n \in S : \A m \in S : n <= m
    <3>1. S \in SUBSET Nat
      OBVIOUS
    <3> HIDE DEF S
    <3> QED BY <1>1, <3>1, Smallest
  <2>2. n \in 0..Len(fs) /\ sum[n] # same[n] /\ Len(fs) \in Nat
    OBVIOUS
  <2>3. n # 0
    BY <2>2 DEF Summing
  <2>4. n - 1 \in 0..Len(fs) /\ ~ (n <= n - 1)
    BY <2>2, <2>3
  <2>5. n - 1 \notin S
    <3> HIDE DEF S
    <3> QED BY <2>1, <2>4
  <2>6. sum[n - 1] = same[n - 1]
    BY <2>4, <2>5
  <2> QED BY <2>2, <2>3, <2>6 DEF Summing
<1>2. Len(fs) \in 0..Len(fs)
  OBVIOUS
<1> QED BY <1>1, <1>2

Totalled(fs) == \E sum : Summing(sum, fs) /\ Total(fs) = sum[Len(fs)]

LEMMA TotalOfNone == Totalled(<<>>) /\ Total(<<>>) = 0
<1> DEFINE none == [n \in 0..0 |-> 0]
<1>1. Summing(none, <<>>)
  BY DEF Summing
<1> HIDE DEF none
<1>2. Summing(CHOOSE sum : Summing(sum, <<>>), <<>>)
  BY <1>1
<1>3. (CHOOSE sum : Summing(sum, <<>>))[0] = 0
  BY <1>2 DEF Summing
<1> QED BY <1>2, <1>3, TotalIsSum DEF Totalled

LEMMA TotalOfMore ==
  ASSUME NEW fs \in Seq(Files), NEW f \in Files, Totalled(fs)
  PROVE  Totalled(Append(fs, f)) /\ Total(Append(fs, f)) = Total(fs) + f.len
<1> DEFINE gs == Append(fs, f)
           chosen == CHOOSE sum : Summing(sum, gs)
<1>0. /\ gs \in Seq(Files) /\ Len(gs) = Len(fs) + 1 /\ gs[Len(gs)] = f /\ Len(fs) \in Nat
  OBVIOUS
<1>1. PICK sum : Summing(sum, fs) /\ Total(fs) = sum[Len(fs)]
  BY DEF Totalled
<1>2. PICK longer : Summing(longer, gs) /\ longer[Len(fs)] = sum[Len(fs)]
  <2>1. Len(fs) \in 0..Len(fs)
    BY <1>0
  <2> QED BY <1>1, <2>1, SumExtends
<1> HIDE DEF gs
<1>3. Summing(chosen, gs)
  BY <1>2
<1>4. Total(gs) = chosen[Len(gs)]
  BY TotalIsSum
<1> HIDE DEF chosen
<1>5. chosen[Len(gs)] = longer[Len(gs)]
  BY <1>0, <1>2, <1>3, SumAgrees
<1>6. longer[Len(gs)] = longer[Len(gs) - 1] + gs[Len(gs)].len
  <2>1. Len(gs) \in 0..Len(gs) /\ Len(gs) # 0
    BY <1>0
  <2> QED BY <1>2, <2>1 DEF Summing
<1>7. Len(gs) - 1 = Len(fs)
  BY <1>0
<1> QED BY <1>0, <1>1, <1>2, <1>3, <1>4, <1>5, <1>6, <1>7 DEF Totalled, gs

LEMMA OneMore ==
  ASSUME NEW fs \in Seq(Files), NEW m \in 1..Len(fs), NEW n \in m..Len(fs)
  PROVE  /\ SubSeq(fs, m, n) = Append(SubSeq(fs, m, n - 1), fs[n])
         /\ SubSeq(fs, m, n - 1) \in Seq(Files) /\ fs[n] \in Files
<1>1. /\ Len(fs) \in Nat /\ m \in Nat /\ n \in Nat /\ n \in 1..Len(fs) /\ m <= n /\ 1 <= m
      /\ n <= Len(fs) /\ \A i \in 1..Len(fs) : fs[i] \in Files
  BY ElementOfSeq
<1> HIDE DEF Files
<1>2. /\ SubSeq(fs, m, n - 1) \in Seq(Files) /\ Len(SubSeq(fs, m, n - 1)) = n - m
      /\ \A i \in 1..(n - m) : SubSeq(fs, m, n - 1)[i] = fs[m + i - 1]
  <2>1. \A i \in m..(n - 1) : fs[i] \in Files
    BY <1>1
  <2>2. n - 1 \in Nat /\ m <= n - 1 + 1 /\ n - 1 - m + 1 = n - m
    BY <1>1
  <2> QED BY <1>1, <2>1, <2>2
<1>3. /\ SubSeq(fs, m, n) \in Seq(Files) /\ Len(SubSeq(fs, m, n)) = n - m + 1
      /\ \A i \in 1..(n - m + 1) : SubSeq(fs, m, n)[i] = fs[m + i - 1]
  <2>1. \A i \in m..n : fs[i] \in Files
    BY <1>1
  <2> QED BY <1>1, <2>1
<1> DEFINE s == SubSeq(fs, m, n)
           t == SubSeq(fs, m, n - 1)
           a == Append(t, fs[n])
<1>4. /\ a \in Seq(Files) /\ Len(a) = n - m + 1 /\ a[n - m + 1] = fs[n]
      /\ \A i \in 1..(n - m) : a[i] = t[i]
  BY <1>1, <1>2
<1> HIDE DEF s, t, a
<1>5. \A i \in 1..(n - m + 1) : a[i] = s[i]
  <2> SUFFICES ASSUME NEW i \in 1..(n - m + 1) PROVE a[i] = s[i]
    OBVIOUS
  <2>1. CASE i = n - m + 1
    <3>1. m + i - 1 = n
      BY <1>1, <2>1
    <3> QED BY <1>3, <1>4, <2>1, <3>1 DEF s
  <2>2. CASE i # n - m + 1
    <3>1. i \in 1..(n - m)
      BY <1>1, <2>2
    <3> QED BY <1>2, <1>3, <1>4, <3>1 DEF s, t
  <2> QED BY <2>1, <2>2
<1>6. a = s
  BY <1>3, <1>4, <1>5 DEF s
<1> QED BY <1>1, <1>2, <1>6 DEF a, s, t

Tallied(fs) == Totalled(fs) /\ Total(fs) \in Nat

LEMMA PrefixTallied ==
  ASSUME NEW fs \in Seq(Files), NEW k \in 0..Len(fs)
  PROVE  Tallied(SubSeq(fs, 1, k))
<1> DEFINE S == {n \in 0..Len(fs) : ~Tallied(SubSeq(fs, 1, n))}
<1>0. Len(fs) \in Nat
  OBVIOUS
<1>1. ASSUME S # {} PROVE FALSE
  <2>1. PICK n \in S : \A m \in S : n <= m
    <3>1. S \in SUBSET Nat
      BY <1>0
    <3> HIDE DEF S
    <3> QED BY <1>1, <3>1, Smallest
  <2>2. n \in 0..Len(fs) /\ ~Tallied(SubSeq(fs, 1, n))
    OBVIOUS
  <2>3. n # 0
    <3>1. SubSeq(fs, 1, 0) = <<>>
      OBVIOUS
    <3>2. Tallied(<<>>)
      BY TotalOfNone DEF Tallied
    <3> QED BY ONLY <2>2, <3>1, <3>2
  <2>4. /\ n - 1 \in 0..Len(fs) /\ ~ (n <= n - 1)
        /\ 1 \in 1..Len(fs) /\ n \in 1..Len(fs)
    BY <1>0, <2>2, <2>3
  <2>5. n - 1 \notin S
    <3> HIDE DEF S
    <3> QED BY <2>1, <2>4
  <2>6. Tallied(SubSeq(fs, 1, n - 1))
    BY <2>4, <2>5
  <2> DEFINE t == SubSeq(fs, 1, n - 1)
  <2>7. SubSeq(fs, 1, n) = Append(t, fs[n]) /\ t \in Seq(Files) /\ fs[n] \in Files
    BY <2>4, OneMore
  <2> HIDE DEF t
  <2>8. Totalled(SubSeq(fs, 1, n)) /\ Total(SubSeq(fs, 1, n)) = Total(t) + fs[n].len
    BY <2>6, <2>7, TotalOfMore DEF Tallied, t
  <2>9. Total(t) \in Nat /\ fs[n].len \in Nat
    BY <2>6, <2>7 DEF Tallied, t, Files
  <2> QED BY <2>2, <2>8, <2>9 DEF Tallied
<1> QED BY <1>1

LEMMA AllTallied ==
  ASSUME NEW fs \in Seq(Files)
  PROVE  Tallied(fs)
<1>1. SubSeq(fs, 1, Len(fs)) = fs /\ Len(fs) \in 0..Len(fs)
  OBVIOUS
<1> QED BY <1>1, PrefixTallied

LEMMA AddedTotal ==
  ASSUME NEW fs \in Seq(Files), NEW f \in Files
  PROVE  Total(Append(fs, f)) = Total(fs) + f.len
BY AllTallied, TotalOfMore DEF Tallied

(* The files that are left when the oldest go.                             *)
LEMMA TailTotal ==
  ASSUME NEW fs \in Seq(Files), NEW k \in 0..Len(fs)
  PROVE  Total(fs) = Total(SubSeq(fs, 1, k)) + Total(SubSeq(fs, k + 1, Len(fs)))
<1> DEFINE Splits(n) == Total(SubSeq(fs, 1, n)) = Total(SubSeq(fs, 1, k)) + Total(SubSeq(fs, k + 1, n))
           S == {n \in k..Len(fs) : ~Splits(n)}
<1>0. Len(fs) \in Nat /\ k \in Nat /\ k <= Len(fs)
  OBVIOUS
<1>1. ASSUME S # {} PROVE FALSE
  <2>1. PICK n \in S : \A m \in S : n <= m
    <3>1. S \in SUBSET Nat
      BY <1>0
    <3> HIDE DEF S
    <3> QED BY <1>1, <3>1, Smallest
  <2>2. n \in k..Len(fs) /\ ~Splits(n)
    OBVIOUS
  <2>3. n # k
    <3>1. SubSeq(fs, k + 1, k) = <<>>
      BY <1>0
    <3>2. Total(SubSeq(fs, 1, k)) \in Nat
      BY PrefixTallied DEF Tallied
    <3>3. Total(SubSeq(fs, k + 1, k)) = 0
      BY ONLY <3>1, TotalOfNone
    <3>4. Splits(k)
      BY ONLY <3>2, <3>3
    <3> HIDE DEF Splits
    <3> QED BY ONLY <2>2, <3>4
  <2>4. /\ n - 1 \in k..Len(fs) /\ ~ (n <= n - 1) /\ n \in 1..Len(fs) /\ n - 1 \in 0..Len(fs)
        /\ 1 \in 1..Len(fs) /\ k + 1 \in 1..Len(fs) /\ n \in (k + 1)..Len(fs)
    BY <1>0, <2>2, <2>3
  <2>5. n - 1 \notin S
    <3> HIDE DEF S
    <3> QED BY <2>1, <2>4
  <2>6. Splits(n - 1)
    BY <2>4, <2>5
  <2> DEFINE t == SubSeq(fs, 1, n - 1)
             u == SubSeq(fs, k + 1, n - 1)
  <2>7. /\ SubSeq(fs, 1, n) = Append(t, fs[n]) /\ t \in Seq(Files) /\ fs[n] \in Files
        /\ SubSeq(fs, k + 1, n) = Append(u, fs[n]) /\ u \in Seq(Files)
    BY <2>4, OneMore
  <2>8. Total(t) = Total(SubSeq(fs, 1, k)) + Total(u)
    BY <2>6
  <2> HIDE DEF t, u
  <2>9. /\ Total(SubSeq(fs, 1, n)) = Total(t) + fs[n].len
        /\ Total(SubSeq(fs, k + 1, n)) = Total(u) + fs[n].len
    BY <2>7, AddedTotal
  <2>10. Total(t) \in Nat /\ Total(u) \in Nat /\ Total(SubSeq(fs, 1, k)) \in Nat /\ fs[n].len \in Nat
    BY <2>7, AllTallied, PrefixTallied DEF Tallied, Files
  <2>11. Splits(n)
    <3>1. Total(t) + fs[n].len = Total(SubSeq(fs, 1, k)) + (Total(u) + fs[n].len)
      BY ONLY <2>8, <2>10
    <3> QED BY ONLY <2>9, <3>1
  <2> HIDE DEF Splits
  <2> QED BY <2>2, <2>11
<1>2. Len(fs) \in k..Len(fs)
  BY <1>0
<1>3. Splits(Len(fs))
  <2>1. Len(fs) \notin S
    BY <1>1
  <2> HIDE DEF Splits
  <2> QED BY <1>2, <2>1
<1>4. SubSeq(fs, 1, Len(fs)) = fs
  OBVIOUS
<1> QED BY <1>3, <1>4

------------------------------------------------------------------------------
(* The files that are left when a flow's go.                               *)

Sifted(kept, fs, id, k) ==
  kept = [n \in 0..k |->
            IF n = 0 THEN <<>>
            ELSE IF fs[n].path[1] = id THEN kept[n - 1] ELSE Append(kept[n - 1], fs[n])]

LEMMA SiftingExists ==
  ASSUME NEW fs, NEW id, NEW last \in Nat
  PROVE  \E kept : Sifted(kept, fs, id, last)
<1> DEFINE Taking(s, n) == IF fs[n].path[1] = id THEN s ELSE Append(s, fs[n])
           Is(kept, k) == kept = [n \in 0..k |-> IF n = 0 THEN <<>> ELSE Taking(kept[n - 1], n)]
           S == {k \in Nat : ~ \E kept : Is(kept, k)}
<1> HIDE DEF Taking
<1>1. ASSUME S # {} PROVE FALSE
  <2>1. PICK k \in S : \A m \in S : k <= m
    <3>1. S \in SUBSET Nat
      OBVIOUS
    <3> HIDE DEF S
    <3> QED BY <1>1, <3>1, Smallest
  <2>2. k \in Nat /\ ~ \E kept : Is(kept, k)
    OBVIOUS
  <2>3. k # 0
    <3> SUFFICES ASSUME k = 0 PROVE FALSE
      OBVIOUS
    <3> DEFINE kept == [n \in 0..0 |-> <<>>]
    <3>1. kept = [n \in 0..0 |-> IF n = 0 THEN <<>> ELSE Taking(kept[n - 1], n)]
      OBVIOUS
    <3> HIDE DEF kept
    <3> QED BY <2>2, <3>1
  <2>4. k - 1 \in Nat /\ ~ (k <= k - 1)
    BY <2>2, <2>3
  <2>5. k - 1 \notin S
    BY <2>1, <2>4
  <2>6. PICK kept : Is(kept, k - 1)
    BY <2>4, <2>5
  <2> DEFINE longer == [n \in 0..k |-> IF n = k THEN Taking(kept[k - 1], k) ELSE kept[n]]
  <2>7. \A n \in 0..(k - 1) : longer[n] = kept[n]
    BY <2>2
  <2>8. \A n \in 0..k : longer[n] = IF n = 0 THEN <<>> ELSE Taking(longer[n - 1], n)
    <3> SUFFICES ASSUME NEW n \in 0..k
                 PROVE  longer[n] = IF n = 0 THEN <<>> ELSE Taking(longer[n - 1], n)
      OBVIOUS
    <3>1. CASE n = k
      <4>1. longer[n] = Taking(kept[k - 1], k)
        BY <3>1
      <4>2. longer[n - 1] = kept[k - 1]
        BY <2>4, <2>7, <3>1
      <4> HIDE DEF longer
      <4> QED BY <2>3, <3>1, <4>1, <4>2
    <3>2. CASE n # k
      <4>1. n \in 0..(k - 1)
        BY <2>2, <3>2
      <4>2. kept[n] = IF n = 0 THEN <<>> ELSE Taking(kept[n - 1], n)
        BY <2>6, <4>1
      <4>3. longer[n] = kept[n]
        BY <2>7, <4>1
      <4>4. n # 0 => longer[n - 1] = kept[n - 1]
        <5>1. n # 0 => n - 1 \in 0..(k - 1)
          BY <2>4, <4>1
        <5> QED BY <2>7, <5>1
      <4> HIDE DEF longer
      <4> QED BY <4>2, <4>3, <4>4
    <3> QED BY <3>1, <3>2
  <2>9. Is(longer, k)
    <3>1. longer = [n \in 0..k |-> longer[n]]
      OBVIOUS
    <3> HIDE DEF longer
    <3>2. [n \in 0..k |-> longer[n]] = [n \in 0..k |-> IF n = 0 THEN <<>> ELSE Taking(longer[n - 1], n)]
      BY <2>8
    <3> QED BY <3>1, <3>2
  <2> HIDE DEF longer
  <2> QED BY <2>2, <2>9
<1> HIDE DEF Is
<1>2. last \notin S => \E kept : Is(kept, last)
  OBVIOUS
<1>3. \E kept : Is(kept, last)
  <2> HIDE DEF S
  <2> QED BY <1>1, <1>2
<1> QED BY <1>3 DEF Is, Sifted, Taking

PathsOf(s) == {s[n].path : n \in 1..Len(s)}
Once(s)    == \A i, j \in 1..Len(s) : s[i].path = s[j].path => i = j

(* s holds what a flow's files leave of fs. *)
LeftOf(s, fs, id) ==
  /\ s \in Seq(Files) /\ Once(s) /\ Total(s) <= Total(fs)
  /\ \A i \in 1..Len(s) : s[i].path[1] # id /\ \E m \in 1..Len(fs) : fs[m] = s[i]
  /\ \A m \in 1..Len(fs) : fs[m].path[1] # id => \E i \in 1..Len(s) : fs[m] = s[i]

LEMMA LeftOfMore ==
  ASSUME NEW id, NEW fs \in Seq(Files), NEW f \in Files, Once(Append(fs, f)),
         NEW s, LeftOf(s, fs, id)
  PROVE  LeftOf(IF f.path[1] = id THEN s ELSE Append(s, f), Append(fs, f), id)
<1> DEFINE gs == Append(fs, f)
<1>1. /\ gs \in Seq(Files) /\ Len(gs) = Len(fs) + 1 /\ Len(fs) \in Nat /\ gs[Len(fs) + 1] = f
      /\ \A m \in 1..Len(fs) : gs[m] = fs[m]
  OBVIOUS
<1>2. Total(gs) = Total(fs) + f.len
  BY AddedTotal
<1>3. Total(fs) \in Nat /\ Total(s) \in Nat /\ f.len \in Nat
  BY AllTallied DEF Tallied, LeftOf, Files
<1>4. 1..Len(gs) = 1..Len(fs) \union {Len(fs) + 1}
  BY <1>1
<1>5. Once(gs)
  OBVIOUS
<1> HIDE DEF gs
<1>6. CASE f.path[1] = id
  <2>1. Total(s) <= Total(gs)
    BY <1>2, <1>3 DEF LeftOf
  <2>2. LeftOf(s, gs, id)
    <3>1. \A i \in 1..Len(s) : s[i].path[1] # id /\ \E m \in 1..Len(gs) : gs[m] = s[i]
      BY <1>1, <1>4 DEF LeftOf
    <3>2. ASSUME NEW m \in 1..Len(gs), gs[m].path[1] # id
          PROVE  \E i \in 1..Len(s) : gs[m] = s[i]
      <4>1. m \in 1..Len(fs) /\ gs[m] = fs[m]
        BY <1>1, <1>4, <1>6, <3>2
      <4> QED BY <3>2, <4>1 DEF LeftOf
    <3> QED BY <2>1, <3>1, <3>2 DEF LeftOf
  <2> QED BY <1>6, <2>2 DEF gs
<1>7. CASE f.path[1] # id
  <2> DEFINE t == Append(s, f)
  <2>1. s \in Seq(Files)
    BY DEF LeftOf
  <2>2. /\ t \in Seq(Files) /\ Len(t) = Len(s) + 1 /\ Len(s) \in Nat /\ t[Len(s) + 1] = f
        /\ \A i \in 1..Len(s) : t[i] = s[i]
    BY <2>1
  <2>3. 1..Len(t) = 1..Len(s) \union {Len(s) + 1}
    BY <2>2
  <2>4. Total(t) = Total(s) + f.len
    BY <2>1, AddedTotal
  <2> HIDE DEF t
  <2>5. Total(t) <= Total(gs)
    BY <1>2, <1>3, <2>4 DEF LeftOf
  <2>6. \A i \in 1..Len(s) : s[i].path # f.path
    <3> SUFFICES ASSUME NEW i \in 1..Len(s), s[i].path = f.path PROVE FALSE
      OBVIOUS
    <3>1. PICK m \in 1..Len(fs) : fs[m] = s[i]
      BY DEF LeftOf
    <3>2. m \in 1..Len(gs) /\ Len(fs) + 1 \in 1..Len(gs) /\ gs[m].path = gs[Len(fs) + 1].path
      BY <1>1, <1>4, <3>1
    <3>3. m = Len(fs) + 1
      BY <1>5, <3>2 DEF Once
    <3> QED BY <1>1, <3>3
  <2>7. Once(t)
    BY <2>2, <2>3, <2>6 DEF Once, LeftOf
  <2>8. \A i \in 1..Len(t) : t[i].path[1] # id /\ \E m \in 1..Len(gs) : gs[m] = t[i]
    <3>1. \A i \in 1..Len(s) : s[i].path[1] # id /\ \E m \in 1..Len(gs) : gs[m] = s[i]
      BY <1>1, <1>4 DEF LeftOf
    <3>2. Len(fs) + 1 \in 1..Len(gs)
      BY <1>4
    <3> QED BY <1>1, <1>7, <2>2, <2>3, <3>1, <3>2
  <2>9. \A m \in 1..Len(gs) : gs[m].path[1] # id => \E i \in 1..Len(t) : gs[m] = t[i]
    <3> SUFFICES ASSUME NEW m \in 1..Len(gs), gs[m].path[1] # id
                 PROVE  \E i \in 1..Len(t) : gs[m] = t[i]
      OBVIOUS
    <3>1. CASE m = Len(fs) + 1
      BY <1>1, <2>2, <2>3, <3>1
    <3>2. CASE m # Len(fs) + 1
      <4>1. m \in 1..Len(fs) /\ gs[m] = fs[m]
        BY <1>1, <1>4, <3>2
      <4>2. PICK i \in 1..Len(s) : fs[m] = s[i]
        BY <4>1 DEF LeftOf
      <4> QED BY <2>2, <2>3, <4>1, <4>2
    <3> QED BY <3>1, <3>2
  <2>10. LeftOf(t, gs, id)
    BY <2>2, <2>5, <2>7, <2>8, <2>9 DEF LeftOf
  <2> QED BY <1>7, <2>10 DEF t, gs
<1> QED BY <1>6, <1>7

LEMMA PrefixOnce ==
  ASSUME NEW fs \in Seq(Files), Once(fs), NEW n \in 0..Len(fs)
  PROVE  Once(SubSeq(fs, 1, n))
<1>1. Len(fs) \in Nat /\ \A i \in 1..n : i \in 1..Len(fs)
  OBVIOUS
<1>2. Len(SubSeq(fs, 1, n)) = n /\ \A i \in 1..n : SubSeq(fs, 1, n)[i] = fs[i]
  <2>1. \A i \in 1..n : fs[i] \in Files
    BY <1>1, ElementOfSeq
  <2> QED BY <1>1, <2>1
<1> DEFINE s == SubSeq(fs, 1, n)
<1> HIDE DEF s
<1>3. Len(s) = n /\ \A i \in 1..n : s[i] = fs[i]
  BY <1>2 DEF s
<1>4. Once(s)
  BY <1>1, <1>3 DEF Once
<1> QED BY <1>4 DEF s

LEMMA OthersFacts ==
  ASSUME NEW fs \in Seq(Files), NEW id, Once(fs)
  PROVE  LeftOf(OfOthers(fs, id), fs, id)
<1> DEFINE kept == CHOOSE kept : Sifted(kept, fs, id, Len(fs))
           S == {n \in 0..Len(fs) : ~LeftOf(kept[n], SubSeq(fs, 1, n), id)}
<1>0. Len(fs) \in Nat /\ SubSeq(fs, 1, Len(fs)) = fs
  OBVIOUS
<1>1. Sifted(kept, fs, id, Len(fs))
  BY <1>0, SiftingExists
<1>2. OfOthers(fs, id) = kept[Len(fs)]
  BY DEF OfOthers, Sifted
<1> HIDE DEF kept
<1>3. ASSUME S # {} PROVE FALSE
  <2>1. PICK n \in S : \A m \in S : n <= m
    <3>1. S \in SUBSET Nat
      BY <1>0
    <3> HIDE DEF S
    <3> QED BY <1>3, <3>1, Smallest
  <2>2. n \in 0..Len(fs) /\ ~LeftOf(kept[n], SubSeq(fs, 1, n), id)
    OBVIOUS
  <2>3. n # 0
    <3>1. SubSeq(fs, 1, 0) = <<>>
      OBVIOUS
    <3>2. kept[0] = <<>>
      BY <1>0, <1>1 DEF Sifted
    <3>3. LeftOf(<<>>, <<>>, id)
      BY TotalOfNone DEF LeftOf, Once
    <3> QED BY ONLY <2>2, <3>1, <3>2, <3>3
  <2>4. /\ n - 1 \in 0..Len(fs) /\ ~ (n <= n - 1) /\ n \in 1..Len(fs) /\ 1 \in 1..Len(fs)
    BY <1>0, <2>2, <2>3
  <2>5. n - 1 \notin S
    <3> HIDE DEF S
    <3> QED BY <2>1, <2>4
  <2>6. LeftOf(kept[n - 1], SubSeq(fs, 1, n - 1), id)
    BY <2>4, <2>5
  <2>7. kept[n] = IF fs[n].path[1] = id THEN kept[n - 1] ELSE Append(kept[n - 1], fs[n])
    BY <1>0, <1>1, <2>2, <2>3 DEF Sifted
  <2>8. /\ SubSeq(fs, 1, n) = Append(SubSeq(fs, 1, n - 1), fs[n])
        /\ SubSeq(fs, 1, n - 1) \in Seq(Files) /\ fs[n] \in Files
    BY <2>4, OneMore
  <2>9. Once(Append(SubSeq(fs, 1, n - 1), fs[n]))
    BY <2>2, <2>8, PrefixOnce
  <2> DEFINE t == SubSeq(fs, 1, n - 1)
             u == SubSeq(fs, 1, n)
             f == fs[n]
  <2>10. /\ u = Append(t, f) /\ t \in Seq(Files) /\ f \in Files /\ Once(Append(t, f))
         /\ LeftOf(kept[n - 1], t, id) /\ ~LeftOf(kept[n], u, id)
         /\ kept[n] = IF f.path[1] = id THEN kept[n - 1] ELSE Append(kept[n - 1], f)
    BY <2>2, <2>6, <2>7, <2>8, <2>9
  <2> HIDE DEF t, u, f, S
  <2> QED BY <2>10, LeftOfMore
<1>4. Len(fs) \in 0..Len(fs)
  BY <1>0
<1>5. LeftOf(kept[Len(fs)], SubSeq(fs, 1, Len(fs)), id)
  <2>1. Len(fs) \notin S
    BY <1>3
  <2> QED BY <1>4, <2>1
<1> QED BY <1>0, <1>2, <1>5

------------------------------------------------------------------------------
(* The store.                                                              *)

LogIds == {log[n].id : n \in 1..Len(log)}

LogTells ==
  /\ Len(log) \in Nat /\ DOMAIN log = 1..Len(log)
  /\ Store!Logged = LogIds
  /\ \A n \in 1..Len(log) : log[n] \in Entries /\ log[n].id \in Store!Logged
                            /\ Store!At(log[n].id) = log[n].data
  /\ \A i \in Store!Logged : \E n \in 1..Len(log) : log[n].id = i /\ Store!At(i) = log[n].data

LEMMA LogFacts == LogTypes => LogTells
<1> SUFFICES ASSUME LogTypes PROVE LogTells
  OBVIOUS
<1>1. Len(log) \in Nat /\ DOMAIN log = 1..Len(log) /\ \A n \in 1..Len(log) : log[n] \in Entries
  BY ElementOfSeq DEF LogTypes
<1>2. Store!Logged = LogIds
  BY <1>1 DEF Store!Logged, LogIds
<1>3. ASSUME NEW n \in 1..Len(log)
      PROVE  log[n].id \in Store!Logged /\ Store!At(log[n].id) = log[n].data
  <2>1. \A m \in DOMAIN log : log[m].id = log[n].id => m = n
    BY <1>1 DEF LogTypes, Distinct
  <2>2. Store!Place(log[n].id) = n
    BY <1>1, <2>1 DEF Store!Place
  <2> QED BY <1>2, <2>2 DEF Store!At, LogIds
<1>4. \A i \in Store!Logged : \E n \in 1..Len(log) : log[n].id = i
  BY <1>2 DEF LogIds
<1> QED BY <1>1, <1>2, <1>3, <1>4 DEF LogTells

(* Both changes of the store leave what it holds of the other flows.       *)
StoreChange(e) ==
  /\ LogTypes'
  /\ (Store!Logged)' \subseteq Store!Logged \union {e.id}
  /\ \A i \in (Store!Logged)' :
       Store!At(i)' = IF i = e.id THEN e.data ELSE Store!At(i)

LEMMA FromPlaces ==
  ASSUME LogTypes, LogTypes', NEW e,
         \A n \in 1..Len(log') : \/ log'[n] = e
                                 \/ log'[n].id # e.id /\ \E m \in 1..Len(log) : log'[n] = log[m]
  PROVE  StoreChange(e)
<1>1. \A i \in (Store!Logged)' : \E n \in 1..Len(log') : log'[n].id = i /\ Store!At(i)' = log'[n].data
  <2>1. LogTells'
    BY LogFacts, PTL
  <2> QED BY <2>1 DEF LogTells
<1>2. ASSUME NEW i \in (Store!Logged)'
      PROVE  /\ i \in Store!Logged \union {e.id}
             /\ Store!At(i)' = IF i = e.id THEN e.data ELSE Store!At(i)
  <2>1. PICK n \in 1..Len(log') : log'[n].id = i /\ Store!At(i)' = log'[n].data
    BY <1>1
  <2>2. CASE log'[n] = e
    BY <2>1, <2>2
  <2>3. CASE log'[n].id # e.id /\ \E m \in 1..Len(log) : log'[n] = log[m]
    <3>1. PICK m \in 1..Len(log) : log'[n] = log[m]
      BY <2>3
    <3>2. log[m].id \in Store!Logged /\ Store!At(log[m].id) = log[m].data
      BY LogFacts DEF LogTells
    <3> QED BY <2>1, <2>3, <3>1, <3>2
  <2> QED BY <2>2, <2>3
<1> QED BY <1>2 DEF StoreChange

LEMMA UpdateFacts ==
  ASSUME LogTypes, NEW e \in Entries, Store!Update(e)
  PROVE  StoreChange(e) /\ (Store!Logged)' = Store!Logged
<1>1. /\ Len(log) \in Nat /\ DOMAIN log = 1..Len(log) /\ \A n \in 1..Len(log) : log[n] \in Entries
      /\ Store!Logged = LogIds
  BY LogFacts DEF LogTells
<1>2. log' = [n \in 1..Len(log) |-> IF log[n].id = e.id THEN e ELSE log[n]]
  BY <1>1 DEF Store!Update, Store!Changed
<1>3. log' \in Seq(Entries) /\ Len(log') = Len(log)
  BY <1>1, <1>2
<1>4. \A n \in 1..Len(log) : log'[n].id = log[n].id /\ log'[n] = IF log[n].id = e.id THEN e ELSE log[n]
  BY <1>2
<1>5. LogTypes'
  BY <1>3, <1>4 DEF LogTypes, Distinct
<1>6. (Store!Logged)' = LogIds'
  <2>1. LogTells'
    BY <1>5, LogFacts, PTL
  <2> QED BY <2>1 DEF LogTells
<1>7. LogIds' = LogIds
  BY <1>3, <1>4 DEF LogIds
<1>8. StoreChange(e)
  BY <1>3, <1>4, <1>5, FromPlaces
<1> QED BY <1>1, <1>6, <1>7, <1>8

LEMMA InsertFacts ==
  ASSUME LogTypes, NEW e \in Entries, Store!Insert(e)
  PROVE  StoreChange(e)
<1> USE BodiesAssumption
<1>1. /\ Len(log) \in Nat /\ DOMAIN log = 1..Len(log) /\ \A n \in 1..Len(log) : log[n] \in Entries
      /\ Store!Logged = LogIds
  BY LogFacts DEF LogTells
<1>2. CASE e.id \in Store!Logged
  <2>1. Store!Update(e)
    BY <1>2 DEF Store!Insert, Store!Update
  <2> QED BY <2>1, UpdateFacts
<1>3. CASE e.id \notin Store!Logged
  <2> DEFINE s == Append(log, e)
             n == Len(log) + 1
             k == IF n > MaxFlows THEN n - MaxFlows ELSE 0
  <2>1. /\ s \in Seq(Entries) /\ Len(s) = n /\ s[n] = e
        /\ \A m \in 1..Len(log) : s[m] = log[m]
    BY <1>1 DEF LogTypes
  <2>2. k \in Nat /\ k < n /\ n \in Nat
    BY <1>1
  <2>3. log' = SubSeq(s, k + 1, n)
    <3>1. (IF n > MaxFlows THEN n - MaxFlows + 1 ELSE 1) = k + 1
      BY <2>2
    <3> HIDE DEF s
    <3>2. log' = Store!Window(s)
      BY <1>3 DEF Store!Insert, s
    <3> HIDE DEF n
    <3>3. log' = SubSeq(s, IF n > MaxFlows THEN n - MaxFlows + 1 ELSE 1, n)
      BY <2>1, <3>2 DEF Store!Window
    <3> HIDE DEF k
    <3> QED BY <3>1, <3>3
  <2> HIDE DEF k, s
  <2>4. \A m \in 1..n : s[m] \in Entries
    BY <2>1, ElementOfSeq
  <2>5. /\ log' \in Seq(Entries) /\ Len(log') = n - k
        /\ \A m \in 1..(n - k) : log'[m] = s[m + k] /\ m + k \in 1..n
    <3> HIDE DEF n, Entries
    <3> QED BY ONLY <2>1, <2>2, <2>3, <2>4
  <2>6. \A m \in 1..n : m = n \/ m \in 1..Len(log)
    BY <1>1
  <2>7. \A m \in 1..Len(log) : log[m].id # e.id
    BY <1>1, <1>3 DEF LogIds
  <2>8. Distinct(s)
    BY <2>1, <2>6, <2>7 DEF Distinct, LogTypes
  <2>9. Distinct(log')
    <3>1. \A l, m \in 1..(n - k) : log'[l].id = log'[m].id => l + k = m + k
      BY ONLY <2>1, <2>5, <2>8 DEF Distinct
    <3> HIDE DEF n
    <3>2. \A l, m \in 1..(n - k) : l + k = m + k => l = m
      BY <2>2
    <3> QED BY <2>5, <3>1, <3>2 DEF Distinct
  <2>10. \A m \in 1..Len(log') : \/ log'[m] = e
                                 \/ log'[m].id # e.id /\ \E l \in 1..Len(log) : log'[m] = log[l]
    <3> SUFFICES ASSUME NEW m \in 1..(n - k)
                 PROVE  \/ log'[m] = e
                        \/ log'[m].id # e.id /\ \E l \in 1..Len(log) : log'[m] = log[l]
      BY <2>5
    <3>1. log'[m] = s[m + k] /\ (m + k = n \/ m + k \in 1..Len(log))
      BY <2>5, <2>6
    <3> QED BY <2>1, <2>7, <3>1
  <2>11. LogTypes'
    BY <2>5, <2>9 DEF LogTypes
  <2> QED BY <2>10, <2>11, FromPlaces
<1> QED BY <1>2, <1>3

------------------------------------------------------------------------------
(* How many files are evicted.                                             *)

LEMMA DroppedFacts ==
  ASSUME NEW fs \in Seq(Files), NEW k, k = Dropped(fs, Total(fs))
  PROVE  /\ k \in 0..Len(fs)
         /\ Total(SubSeq(fs, k + 1, Len(fs))) = Total(fs) - Total(SubSeq(fs, 1, k))
         /\ Total(SubSeq(fs, k + 1, Len(fs))) <= DiskBudget
<1> DEFINE Room(n) == Total(fs) - Total(SubSeq(fs, 1, n)) <= DiskBudget
           S == {n \in 0..Len(fs) : Room(n) \/ n = Len(fs)}
<1> USE BodiesAssumption
<1>1. /\ Len(fs) \in Nat /\ Len(fs) \in S /\ S \in SUBSET Nat
      /\ \A n \in 0..Len(fs) : Total(SubSeq(fs, 1, n)) \in Nat
      /\ Total(fs) \in Nat
  BY AllTallied, PrefixTallied DEF Tallied
<1>2. PICK n \in S : \A m \in S : n <= m
  <2> HIDE DEF S
  <2> QED BY <1>1, Smallest
<1>3. \A j \in 0..(n - 1) : Total(fs) - Total(SubSeq(fs, 1, j)) > DiskBudget
  <2> SUFFICES ASSUME NEW j \in 0..(n - 1) PROVE Total(fs) - Total(SubSeq(fs, 1, j)) > DiskBudget
    OBVIOUS
  <2>1. j \in 0..Len(fs) /\ j # Len(fs) /\ ~ (n <= j)
    BY <1>1, <1>2
  <2>2. j \notin S
    <3> HIDE DEF S
    <3> QED BY <1>2, <2>1
  <2>3. ~Room(j)
    BY ONLY <2>1, <2>2
  <2>4. Total(SubSeq(fs, 1, j)) \in Nat /\ Total(fs) \in Nat /\ DiskBudget \in Nat
    BY ONLY <1>1, <2>1, BodiesAssumption
  <2> QED BY ONLY <2>3, <2>4
<1>4. /\ k \in 0..Len(fs)
      /\ Room(k) \/ k = Len(fs)
  <2>1. n \in 0..Len(fs) /\ (Room(n) \/ n = Len(fs))
    OBVIOUS
  <2> HIDE DEF S
  <2> QED BY <1>3, <2>1 DEF Dropped
<1>5. Total(fs) = Total(SubSeq(fs, 1, k)) + Total(SubSeq(fs, k + 1, Len(fs)))
  BY <1>4, TailTotal
<1>6. Total(SubSeq(fs, k + 1, Len(fs))) \in Nat
  <2>1. SubSeq(fs, k + 1, Len(fs)) \in Seq(Files)
    <3>1. /\ \A i \in (k + 1)..Len(fs) : fs[i] \in Files
          /\ k + 1 \in Nat /\ Len(fs) \in Nat /\ k + 1 <= Len(fs) + 1
      <4>1. k \in Nat /\ k <= Len(fs) /\ Len(fs) \in Nat
        BY ONLY <1>1, <1>4
      <4>2. \A i \in (k + 1)..Len(fs) : i \in 1..Len(fs)
        BY ONLY <4>1
      <4> QED BY ONLY <4>1, <4>2, fs \in Seq(Files), ElementOfSeq
    <3> QED BY ONLY fs \in Seq(Files), <3>1
  <2> QED BY <2>1, AllTallied DEF Tallied
<1>7. CASE Room(k)
  <2>1. Total(SubSeq(fs, 1, k)) \in Nat /\ Total(fs) \in Nat
    BY <1>1, <1>4
  <2>2. Total(fs) - Total(SubSeq(fs, 1, k)) <= DiskBudget
    BY <1>7
  <2> QED BY ONLY <1>4, <1>5, <1>6, <2>1, <2>2
<1>8. CASE k = Len(fs)
  <2>1. SubSeq(fs, Len(fs) + 1, Len(fs)) = <<>>
    BY <1>1
  <2>2. Total(SubSeq(fs, k + 1, Len(fs))) = 0
    BY ONLY <1>8, <2>1, TotalOfNone
  <2>3. Total(SubSeq(fs, 1, k)) \in Nat /\ Total(fs) \in Nat /\ DiskBudget \in Nat
    BY ONLY <1>1, <1>4, BodiesAssumption
  <2> QED BY ONLY <1>4, <1>5, <2>2, <2>3
<1> QED BY ONLY <1>4, <1>7, <1>8

------------------------------------------------------------------------------
LEMMA InitInv == Init => BodiesInv
<1> SUFFICES ASSUME Init PROVE BodiesInv
  OBVIOUS
<1>1. /\ log = <<>> /\ leaving = {} /\ captures = [p \in Paths |-> NoCapture]
      /\ DOMAIN disk = {} /\ files = <<>> /\ used = 0 /\ faults = 0
  BY DEF Init, Store!Init
<1>2. NoCapture \in Captures /\ NoCapture.at = "none" /\ ~NoCapture.open /\ ~NoCapture.spilled
  BY DEF NoCapture, Captures, Stages
<1>3. LogTypes /\ BodyTypes
  BY <1>1, <1>2 DEF BodyTypes, LogTypes, Distinct
<1>4. Store!Logged = {}
  BY <1>1 DEF Store!Logged
<1>5. BudgetKept
  <2>1. Total(files) = 0
    BY ONLY <1>1, TotalOfNone
  <2> QED BY <1>1, <2>1, BodiesAssumption DEF BudgetKept
<1>6. \A p \in Paths : captures[p] = NoCapture
  BY <1>1
<1> HIDE DEF NoCapture
<1> QED BY <1>1, <1>2, <1>3, <1>4, <1>5, <1>6
        DEF BodiesInv, Capturing, Kept, Counted, CountedOnce, Flawless, Shown, Listed

(* A step of one capture, which writes to no file but its own.             *)
StepOf(p, c) ==
  /\ captures[p].at = "streaming" /\ c \in Captures
  /\ captures' = [captures EXCEPT ![p] = c]
  /\ c.at \in {"streaming", "finished", "panicked"} /\ ~c.spilled
  /\ c.open => c.at = "streaming" /\ c.written = Least(c.total, PerBodyCap)
  /\ DOMAIN disk' \in {DOMAIN disk, DOMAIN disk \union {p}}
  /\ \A q \in DOMAIN disk' : disk'[q] \in Nat /\ (q # p => disk'[q] = disk[q])
  /\ c.open => p \in DOMAIN disk' \/ captures[p].open
  /\ faults' \in Nat /\ (faults' = 0 => faults = 0)
  /\ faults' = 0 => /\ c.at = "streaming" /\ ~c.open => c.path /\ c.total <= InlineCap
                    /\ p \in DOMAIN disk' => c.open
  /\ UNCHANGED <<log, leaving, files, used>>

LEMMA StepInv ==
  ASSUME BodiesInv, NEW p \in Paths, NEW c, StepOf(p, c)
  PROVE  BodiesInv'
<1>1. /\ UNCHANGED <<log, leaving, files, used>> /\ c \in Captures
      /\ captures' \in [Paths -> Captures] /\ captures'[p] = c
      /\ \A q \in Paths : q # p => captures'[q] = captures[q]
  BY DEF StepOf, BodiesInv, BodyTypes
<1>2. BodyTypes'
  <2>1. LogTypes' /\ leaving' \subseteq Ids /\ files' \in Seq(Files) /\ used' \in Int
    BY <1>1 DEF BodiesInv, BodyTypes, LogTypes
  <2>2. DOMAIN disk' \subseteq Paths /\ \A q \in DOMAIN disk' : disk'[q] \in Nat
    BY DEF StepOf, BodiesInv, BodyTypes
  <2>3. faults' \in Nat
    BY DEF StepOf
  <2> QED BY <1>1, <2>1, <2>2, <2>3 DEF BodyTypes
<1>3. (Store!Logged)' = Store!Logged /\ \A i : Store!At(i)' = Store!At(i)
  BY <1>1 DEF Store!Logged, Store!At, Store!Place
<1>4. \A i : Kept(i)' <=> Kept(i)
  BY <1>1, <1>3 DEF Kept
<1>5. BudgetKept' /\ CountedOnce'
  BY <1>1 DEF BodiesInv, BudgetKept, CountedOnce
<1>6. /\ \A q \in DOMAIN disk : q \in DOMAIN disk'
      /\ \A q \in DOMAIN disk' : q # p => q \in DOMAIN disk /\ disk'[q] = disk[q]
  BY DEF StepOf
<1>7. ASSUME NEW q \in Paths PROVE Capturing(q)'
  <2>1. Capturing(q)
    BY DEF BodiesInv
  <2>2. CASE q = p
    BY <1>1, <1>4, <1>6, <2>1, <2>2 DEF Capturing, StepOf
  <2>3. CASE q # p
    BY <1>1, <1>4, <1>6, <2>1, <2>3 DEF Capturing
  <2> QED BY <2>2, <2>3
<1>8. ~captures[p].spilled
  BY DEF BodiesInv, Capturing, StepOf
<1>9. ASSUME NEW i \in DOMAIN files PROVE Counted(i)' /\ files[i].path # p
  <2>1. Counted(i) /\ files[i].path \in Paths
    <3>1. files[i] \in Files
      BY ElementOfSeq DEF BodiesInv, BodyTypes
    <3> QED BY <3>1 DEF BodiesInv, Files
  <2>2. files[i].path # p
    BY <1>8, <2>1 DEF Counted
  <2> QED BY <1>1, <1>4, <1>6, <2>1, <2>2 DEF Counted
<1>10. \A q \in Paths : Registered(q)' <=> Registered(q)
  BY <1>1 DEF Registered
<1>11. Flawless'
  <2> SUFFICES ASSUME faults' = 0, NEW q \in Paths
               PROVE  /\ captures'[q].at = "streaming" /\ ~captures'[q].open =>
                           captures'[q].path /\ captures'[q].total <= InlineCap
                      /\ q \in DOMAIN disk' =>
                           captures'[q].open \/ (captures'[q].spilled /\ Registered(q)')
    BY DEF Flawless
  <2>1. CASE q = p
    BY <1>1, <2>1 DEF StepOf
  <2>2. CASE q # p
    <3>1. faults = 0
      BY DEF StepOf
    <3> QED BY <1>1, <1>6, <1>10, <2>2, <3>1 DEF BodiesInv, Flawless
  <2> QED BY <2>1, <2>2
<1>12. Shown'
  <2>1. \A id \in leaving' : id \notin (Store!Logged)'
    BY <1>1, <1>3 DEF BodiesInv, Shown
  <2>2. ASSUME NEW q \in Listed' PROVE captures'[q].at = "folded" /\ Preview(q)' = Folded(captures'[q])
    <3>1. q \in Listed /\ q \in Paths /\ Preview(q)' = Preview(q)
      BY <1>3 DEF Listed, Preview
    <3>2. captures[q].at = "folded" /\ Preview(q) = Folded(captures[q])
      BY <3>1 DEF BodiesInv, Shown
    <3>3. q # p
      BY <3>2 DEF StepOf
    <3> QED BY <1>1, <3>1, <3>2, <3>3
  <2> QED BY <2>1, <2>2 DEF Shown
<1>13. DOMAIN files' = DOMAIN files
  BY <1>1
<1> QED BY <1>2, <1>5, <1>7, <1>9, <1>11, <1>12, <1>13 DEF BodiesInv

LEMMA StreamFacts ==
  ASSUME BodiesInv, NEW p \in Paths, captures[p].at = "streaming"
  PROVE  /\ captures[p] \in Captures /\ ~captures[p].spilled
         /\ captures[p].open => captures[p].written = Least(captures[p].total, PerBodyCap)
         /\ faults = 0 /\ ~captures[p].open =>
              captures[p].path /\ captures[p].total <= InlineCap /\ p \notin DOMAIN disk
         /\ faults \in Nat /\ \A q \in DOMAIN disk : disk[q] \in Nat
<1>1. captures[p] \in Captures /\ faults \in Nat /\ \A q \in DOMAIN disk : disk[q] \in Nat
  BY DEF BodiesInv, BodyTypes
<1>2. ~captures[p].spilled
      /\ (captures[p].open => captures[p].written = Least(captures[p].total, PerBodyCap))
  BY DEF BodiesInv, Capturing
<1> QED BY <1>1, <1>2 DEF BodiesInv, Flawless

(* A chunk of n bytes leaves the capture c but for its size.               *)
Grown(c, n) == [c EXCEPT !.total = @ + n]

LEMMA GrownFacts ==
  ASSUME NEW c \in Captures, NEW n \in Nat
  PROVE  /\ Grown(c, n) \in Captures /\ Grown(c, n).total = c.total + n
         /\ Grown(c, n).at = c.at /\ Grown(c, n).open = c.open /\ Grown(c, n).path = c.path
         /\ Grown(c, n).written = c.written /\ Grown(c, n).spilled = c.spilled
BY DEF Grown, Captures

LEMMA CreatedFacts ==
  ASSUME NEW p, NEW n \in Nat, \A q \in DOMAIN disk : disk[q] \in Nat, disk' = Created(p, n)
  PROVE  /\ DOMAIN disk' = DOMAIN disk \union {p}
         /\ \A q \in DOMAIN disk' : disk'[q] \in Nat /\ (q # p => disk'[q] = disk[q])
BY DEF Created

LEMMA BufferedFacts ==
  ASSUME NEW p, NEW n \in Nat, \A q \in DOMAIN disk : disk[q] \in Nat, disk' \in Buffered(p, n)
  PROVE  /\ DOMAIN disk' = DOMAIN disk
         /\ \A q \in DOMAIN disk' : disk'[q] \in Nat /\ (q # p => disk'[q] = disk[q])
<1>1. disk' = disk \/ (p \in DOMAIN disk /\ disk' = [disk EXCEPT ![p] = n])
  BY DEF Buffered
<1> QED BY <1>1

LEMMA PushInlineStep ==
  ASSUME BodiesInv, NEW p \in Paths, NEW n \in Chunks, PushInline(p, n)
  PROVE  \E c : StepOf(p, c)
<1> DEFINE c == Grown(captures[p], n)
<1>1. n \in Nat /\ InlineCap \in Nat
  BY BodiesAssumption
<1>2. captures[p].at = "streaming" /\ ~captures[p].open /\ ~Outgrown(p, n)
  BY DEF PushInline, Streaming
<1>3. /\ captures[p] \in Captures /\ ~captures[p].spilled /\ faults \in Nat
      /\ faults = 0 => captures[p].path /\ p \notin DOMAIN disk
      /\ \A q \in DOMAIN disk : disk[q] \in Nat
  BY <1>2, StreamFacts
<1>4. captures' = [captures EXCEPT ![p] = c] /\ UNCHANGED <<log, leaving, files, used, disk, faults>>
  BY DEF PushInline, Grow, Grown
<1>5. /\ c \in Captures /\ c.total = captures[p].total + n /\ c.at = "streaming" /\ ~c.open
      /\ c.path = captures[p].path /\ ~c.spilled
  BY <1>1, <1>2, <1>3, GrownFacts
<1>6. captures[p].path => c.total <= InlineCap
  BY <1>1, <1>2, <1>3, <1>5 DEF Outgrown, Captures
<1> HIDE DEF c
<1> QED BY <1>2, <1>3, <1>4, <1>5, <1>6 DEF StepOf

LEMMA CreateFailsStep ==
  ASSUME BodiesInv, NEW p \in Paths, NEW n \in Chunks, CreateFails(p, n)
  PROVE  \E c : StepOf(p, c)
<1> DEFINE b == [captures[p] EXCEPT !.path = FALSE]
           c == Grown(b, n)
<1>1. n \in Nat
  BY BodiesAssumption
<1>2. captures[p].at = "streaming" /\ ~captures[p].open
  BY DEF CreateFails, Streaming, Outgrown
<1>3. /\ captures[p] \in Captures /\ ~captures[p].spilled /\ faults \in Nat
      /\ \A q \in DOMAIN disk : disk[q] \in Nat
  BY <1>2, StreamFacts
<1>4. /\ captures' = [captures EXCEPT ![p] = c] /\ faults' = faults + 1
      /\ UNCHANGED <<log, leaving, files, used, disk>>
  BY DEF CreateFails, Fault, Grow, Grown
<1>5. b \in Captures /\ b.at = "streaming" /\ ~b.open /\ ~b.spilled
  BY <1>2, <1>3 DEF Captures
<1> HIDE DEF b
<1>6. c \in Captures /\ c.at = "streaming" /\ ~c.open /\ ~c.spilled
  BY <1>1, <1>5, GrownFacts
<1>9. faults' \in Nat /\ faults' # 0
  BY <1>3, <1>4
<1> HIDE DEF c
<1> QED BY <1>2, <1>3, <1>4, <1>6, <1>9 DEF StepOf

LEMMA PreviewFailsStep ==
  ASSUME BodiesInv, NEW p \in Paths, NEW n \in Chunks, PreviewFails(p, n)
  PROVE  \E c : StepOf(p, c)
<1> DEFINE c == Grown(captures[p], n)
<1>1. n \in Nat
  BY BodiesAssumption
<1>2. captures[p].at = "streaming" /\ ~captures[p].open
  BY DEF PreviewFails, Streaming, Outgrown
<1>3. /\ captures[p] \in Captures /\ ~captures[p].spilled /\ faults \in Nat
      /\ \A q \in DOMAIN disk : disk[q] \in Nat
  BY <1>2, StreamFacts
<1>4. /\ captures' = [captures EXCEPT ![p] = c] /\ faults' = faults + 1 /\ disk' = Created(p, 0)
      /\ UNCHANGED <<log, leaving, files, used>>
  BY DEF PreviewFails, Fault, Grow, Grown
<1>5. c \in Captures /\ c.at = "streaming" /\ ~c.open /\ ~c.spilled
  BY <1>1, <1>2, <1>3, GrownFacts
<1>6. /\ DOMAIN disk' = DOMAIN disk \union {p}
      /\ \A q \in DOMAIN disk' : disk'[q] \in Nat /\ (q # p => disk'[q] = disk[q])
  BY <1>3, <1>4, CreatedFacts
<1>9. faults' \in Nat /\ faults' # 0
  BY <1>3, <1>4
<1> HIDE DEF c
<1> QED BY <1>2, <1>3, <1>4, <1>5, <1>6, <1>9 DEF StepOf

LEMMA OpenStep ==
  ASSUME BodiesInv, NEW p \in Paths, NEW n \in Chunks, Open(p, n)
  PROVE  \E c : StepOf(p, c)
<1> DEFINE w == Least(captures[p].total + n, PerBodyCap)
           b == [captures[p] EXCEPT !.open = TRUE, !.written = w]
           c == Grown(b, n)
<1>1. n \in Nat /\ PerBodyCap \in Nat
  BY BodiesAssumption
<1>2. captures[p].at = "streaming" /\ ~captures[p].open
  BY DEF Open, Streaming, Outgrown
<1>3. /\ captures[p] \in Captures /\ ~captures[p].spilled /\ faults \in Nat
      /\ \A q \in DOMAIN disk : disk[q] \in Nat
  BY <1>2, StreamFacts
<1>4. /\ captures' = [captures EXCEPT ![p] = c] /\ disk' \in {Created(p, 0), Created(p, w)}
      /\ UNCHANGED <<log, leaving, files, used, faults>>
  BY DEF Open, Grow, Grown
<1>5. w \in Nat /\ captures[p].total + n \in Nat
  BY <1>1, <1>3 DEF Captures, Least
<1> HIDE DEF w
<1>6. b \in Captures /\ b.at = "streaming" /\ b.open /\ ~b.spilled /\ b.written = w
      /\ b.total = captures[p].total
  BY <1>2, <1>3, <1>5 DEF Captures
<1> HIDE DEF b
<1>7. /\ c \in Captures /\ c.at = "streaming" /\ c.open /\ ~c.spilled /\ c.written = w
      /\ c.total = captures[p].total + n
  BY <1>1, <1>6, GrownFacts
<1>8. c.written = Least(c.total, PerBodyCap)
  BY <1>7 DEF w
<1>9. /\ DOMAIN disk' = DOMAIN disk \union {p}
      /\ \A q \in DOMAIN disk' : disk'[q] \in Nat /\ (q # p => disk'[q] = disk[q])
  <2>1. CASE disk' = Created(p, 0)
    BY <1>3, <2>1, CreatedFacts
  <2>2. CASE disk' = Created(p, w)
    BY <1>3, <1>5, <2>2, CreatedFacts
  <2> QED BY <1>4, <2>1, <2>2
<1> HIDE DEF c
<1> QED BY <1>2, <1>3, <1>4, <1>7, <1>8, <1>9 DEF StepOf

LEMMA OpenCutShortStep ==
  ASSUME BodiesInv, NEW p \in Paths, NEW n \in Chunks, OpenCutShort(p, n)
  PROVE  \E c : StepOf(p, c)
<1> DEFINE b == [captures[p] EXCEPT !.path = FALSE]
           c == Grown(b, n)
<1>1. n \in Nat /\ InlineCap \in Nat
  BY BodiesAssumption
<1>2. captures[p].at = "streaming" /\ ~captures[p].open
  BY DEF OpenCutShort, Streaming, Outgrown
<1>3. /\ captures[p] \in Captures /\ ~captures[p].spilled /\ faults \in Nat
      /\ \A q \in DOMAIN disk : disk[q] \in Nat
  BY <1>2, StreamFacts
<1>4. /\ captures' = [captures EXCEPT ![p] = c] /\ faults' = faults + 1
      /\ disk' \in {Created(p, 0), Created(p, InlineCap)}
      /\ UNCHANGED <<log, leaving, files, used>>
  BY DEF OpenCutShort, Fault, Grow, Grown
<1>5. b \in Captures /\ b.at = "streaming" /\ ~b.open /\ ~b.spilled
  BY <1>2, <1>3 DEF Captures
<1> HIDE DEF b
<1>6. c \in Captures /\ c.at = "streaming" /\ ~c.open /\ ~c.spilled
  BY <1>1, <1>5, GrownFacts
<1>7. /\ DOMAIN disk' = DOMAIN disk \union {p}
      /\ \A q \in DOMAIN disk' : disk'[q] \in Nat /\ (q # p => disk'[q] = disk[q])
  <2>1. CASE disk' = Created(p, 0)
    BY <1>3, <2>1, CreatedFacts
  <2>2. CASE disk' = Created(p, InlineCap)
    BY <1>1, <1>3, <2>2, CreatedFacts
  <2> QED BY <1>4, <2>1, <2>2
<1>9. faults' \in Nat /\ faults' # 0
  BY <1>3, <1>4
<1> HIDE DEF c
<1> QED BY <1>2, <1>3, <1>4, <1>6, <1>7, <1>9 DEF StepOf

(* The subtraction fails only where a spill is tried again, after a fault. *)
LEMMA OpenPanicsStep ==
  ASSUME BodiesInv, NEW p \in Paths, NEW n \in Chunks, OpenPanics(p, n)
  PROVE  \E c : StepOf(p, c)
<1> DEFINE c == [captures[p] EXCEPT !.at = "panicked"]
<1>1. n \in Nat /\ InlineCap \in Nat
  BY BodiesAssumption
<1>2. captures[p].at = "streaming" /\ ~captures[p].open /\ OfChunkInline(p, n) < 0
      /\ captures[p].total + n > InlineCap
  BY DEF OpenPanics, Streaming, Outgrown
<1>3. /\ captures[p] \in Captures /\ ~captures[p].spilled /\ faults \in Nat
      /\ faults = 0 => captures[p].total <= InlineCap
      /\ \A q \in DOMAIN disk : disk[q] \in Nat
  BY <1>2, StreamFacts
<1>4. /\ captures' = [captures EXCEPT ![p] = c] /\ disk' = Created(p, InlineCap)
      /\ UNCHANGED <<log, leaving, files, used, faults>>
  BY DEF OpenPanics
<1>5. faults # 0
  <2>1. captures[p].total \in Nat
    BY <1>3 DEF Captures
  <2>2. captures[p].total > InlineCap
    BY <1>1, <1>2, <2>1 DEF OfChunkInline, Inline, Least
  <2> QED BY <1>1, <1>3, <2>1, <2>2
<1>6. c \in Captures /\ c.at = "panicked" /\ ~c.open /\ ~c.spilled
  BY <1>2, <1>3 DEF Captures, Stages
<1>7. /\ DOMAIN disk' = DOMAIN disk \union {p}
      /\ \A q \in DOMAIN disk' : disk'[q] \in Nat /\ (q # p => disk'[q] = disk[q])
  BY <1>1, <1>3, <1>4, CreatedFacts
<1> HIDE DEF c
<1> QED BY <1>2, <1>3, <1>4, <1>5, <1>6, <1>7 DEF StepOf

LEMMA WriteStep ==
  ASSUME BodiesInv, NEW p \in Paths, NEW n \in Chunks, Write(p, n)
  PROVE  \E c : StepOf(p, c)
<1> DEFINE w == Least(captures[p].written + n, PerBodyCap)
           b == [captures[p] EXCEPT !.written = w]
           c == Grown(b, n)
<1>1. n \in Nat /\ PerBodyCap \in Nat
  BY BodiesAssumption
<1>2. captures[p].at = "streaming" /\ captures[p].open
  BY DEF Write, Streaming
<1>3. /\ captures[p] \in Captures /\ ~captures[p].spilled /\ faults \in Nat
      /\ captures[p].written = Least(captures[p].total, PerBodyCap)
      /\ \A q \in DOMAIN disk : disk[q] \in Nat
  BY <1>2, StreamFacts
<1>4. /\ captures' = [captures EXCEPT ![p] = c] /\ disk' \in Buffered(p, w)
      /\ UNCHANGED <<log, leaving, files, used, faults>>
  BY DEF Write, Grow, Grown
<1>5. w \in Nat /\ captures[p].total \in Nat
      /\ w = Least(captures[p].total + n, PerBodyCap)
  BY <1>1, <1>3 DEF Captures, Least
<1> HIDE DEF w
<1>6. b \in Captures /\ b.at = "streaming" /\ b.open /\ ~b.spilled /\ b.written = w
      /\ b.total = captures[p].total
  BY <1>2, <1>3, <1>5 DEF Captures
<1> HIDE DEF b
<1>7. /\ c \in Captures /\ c.at = "streaming" /\ c.open /\ ~c.spilled /\ c.written = w
      /\ c.total = captures[p].total + n
  BY <1>1, <1>6, GrownFacts
<1>8. c.written = Least(c.total, PerBodyCap)
  BY <1>5, <1>7
<1>9. /\ DOMAIN disk' = DOMAIN disk
      /\ \A q \in DOMAIN disk' : disk'[q] \in Nat /\ (q # p => disk'[q] = disk[q])
  BY <1>3, <1>4, <1>5, BufferedFacts
<1> HIDE DEF c
<1> QED BY <1>2, <1>3, <1>4, <1>7, <1>8, <1>9 DEF StepOf

LEMMA WriteFailsStep ==
  ASSUME BodiesInv, NEW p \in Paths, NEW n \in Chunks, WriteFails(p, n)
  PROVE  \E c : StepOf(p, c)
<1> DEFINE b == [captures[p] EXCEPT !.open = FALSE, !.path = FALSE]
           c == Grown(b, n)
<1>1. n \in Nat
  BY BodiesAssumption
<1>2. captures[p].at = "streaming"
  BY DEF WriteFails, Streaming
<1>3. /\ captures[p] \in Captures /\ ~captures[p].spilled /\ faults \in Nat
      /\ \A q \in DOMAIN disk : disk[q] \in Nat
  BY <1>2, StreamFacts
<1>4. /\ captures' = [captures EXCEPT ![p] = c] /\ faults' = faults + 1
      /\ disk' \in Buffered(p, captures[p].written)
      /\ UNCHANGED <<log, leaving, files, used>>
  BY DEF WriteFails, Fault, Grow, Grown
<1>5. b \in Captures /\ b.at = "streaming" /\ ~b.open /\ ~b.spilled /\ captures[p].written \in Nat
  BY <1>2, <1>3 DEF Captures
<1> HIDE DEF b
<1>6. c \in Captures /\ c.at = "streaming" /\ ~c.open /\ ~c.spilled
  BY <1>1, <1>5, GrownFacts
<1>7. /\ DOMAIN disk' = DOMAIN disk
      /\ \A q \in DOMAIN disk' : disk'[q] \in Nat /\ (q # p => disk'[q] = disk[q])
  BY <1>3, <1>4, <1>5, BufferedFacts
<1>9. faults' \in Nat /\ faults' # 0
  BY <1>3, <1>4
<1> HIDE DEF c
<1> QED BY <1>2, <1>3, <1>4, <1>6, <1>7, <1>9 DEF StepOf

LEMMA EndInlineStep ==
  ASSUME BodiesInv, NEW p \in Paths, FinishInline(p) \/ FlushFails(p)
  PROVE  \E c : StepOf(p, c)
<1> DEFINE c == [captures[p] EXCEPT !.at = "finished", !.open = FALSE, !.spilled = FALSE]
<1>1. captures[p].at = "streaming"
  BY DEF FinishInline, FlushFails
<1>2. /\ captures[p] \in Captures /\ faults \in Nat
      /\ faults = 0 /\ ~captures[p].open => p \notin DOMAIN disk
      /\ \A q \in DOMAIN disk : disk[q] \in Nat
  BY <1>1, StreamFacts
<1>3. /\ captures' = [captures EXCEPT ![p] = c] /\ UNCHANGED <<log, leaving, files, used, disk>>
      /\ (~captures[p].open /\ faults' = faults) \/ faults' = faults + 1
  BY DEF FinishInline, FlushFails, Finished, Fault
<1>4. c \in Captures /\ c.at = "finished" /\ ~c.open /\ ~c.spilled
  BY <1>2 DEF Captures, Stages
<1>5. faults' \in Nat /\ (faults' = 0 => faults = 0 /\ ~captures[p].open)
  BY <1>2, <1>3
<1> HIDE DEF c
<1> QED BY <1>1, <1>2, <1>3, <1>4, <1>5 DEF StepOf

LEMMA CaptureInv ==
  ASSUME BodiesInv, NEW p \in Paths,
         (\E n \in Chunks : Push(p, n)) \/ FinishInline(p) \/ FlushFails(p)
  PROVE  BodiesInv'
<1>1. CASE \E n \in Chunks : Push(p, n)
  <2>1. \E c : StepOf(p, c)
    BY <1>1, PushInlineStep, CreateFailsStep, PreviewFailsStep, OpenStep, OpenCutShortStep,
       OpenPanicsStep, WriteStep, WriteFailsStep DEF Push
  <2> QED BY <2>1, StepInv
<1>2. CASE FinishInline(p) \/ FlushFails(p)
  BY <1>2, EndInlineStep, StepInv
<1> QED BY <1>1, <1>2

(* Fewer flows are kept, or none more, and nothing else has changed for a  *)
(* capture.                                                                *)
LEMMA CapturingSame ==
  ASSUME NEW p \in Paths, Capturing(p), captures'[p] = captures[p], Kept(p[1])' => Kept(p[1]),
         p \in DOMAIN disk' => p \in DOMAIN disk /\ disk'[p] = disk[p],
         Kept(p[1])' /\ p \in DOMAIN disk => p \in DOMAIN disk'
  PROVE  Capturing(p)'
BY DEF Capturing

LEMMA PathFacts ==
  ASSUME NEW p \in Paths
  PROVE  p[1] \in Ids /\ p[2] \in Sides /\ p = <<p[1], p[2]>>
BY DEF Paths

LEMMA FilePaths == BodyTypes => \A i \in DOMAIN files : files[i].path \in Paths
<1> SUFFICES ASSUME BodyTypes, NEW i \in DOMAIN files PROVE files[i].path \in Paths
  OBVIOUS
<1>1. files[i] \in Files
  BY ElementOfSeq DEF BodyTypes
<1> QED BY <1>1 DEF Files

LEMMA InsertInv ==
  ASSUME BodiesInv, NEW id \in Ids, Insert(id)
  PROVE  BodiesInv'
<1> DEFINE data == [s \in Sides |-> NoBody]
           e == [id |-> id, data |-> data]
           begun == [NoCapture EXCEPT !.at = "streaming"]
<1>1. NoBody \in Previews /\ ~NoBody.there
  BY DEF NoBody, Previews
<1> HIDE DEF NoBody
<1>2. /\ id \notin Store!Logged /\ id \notin leaving /\ \A s \in Sides : captures[<<id, s>>].at = "none"
      /\ Store!Insert(e)
      /\ captures' = [p \in Paths |-> IF p[1] = id THEN begun ELSE captures[p]]
      /\ leaving' = leaving \union (Store!Logged \ (Store!Logged)')
      /\ UNCHANGED <<disk, files, used, faults>>
  BY DEF Insert, Store!Logged
<1>3. begun \in Captures /\ begun.at = "streaming" /\ ~begun.open /\ ~begun.spilled /\ begun.path
      /\ begun.total = 0
  BY DEF NoCapture, Captures, Stages
<1> HIDE DEF begun
<1>4. data \in [Sides -> Previews] /\ \A s \in Sides : ~data[s].there
  BY <1>1
<1> HIDE DEF data
<1>5. e \in Entries /\ e.id = id /\ e.data = data
  BY <1>4 DEF Entries
<1> HIDE DEF e
<1>6. /\ LogTypes' /\ (Store!Logged)' \subseteq Store!Logged \union {id}
      /\ \A i \in (Store!Logged)' : Store!At(i)' = IF i = id THEN data ELSE Store!At(i)
  BY <1>2, <1>5, InsertFacts DEF BodiesInv, BodyTypes, StoreChange
<1>7. Store!Logged \subseteq Ids
  <2>1. LogTells
    BY LogFacts DEF BodiesInv, BodyTypes
  <2> QED BY <2>1 DEF LogTells, Entries
<1>8. captures' \in [Paths -> Captures]
  BY <1>2, <1>3 DEF BodiesInv, BodyTypes
<1>9. BodyTypes'
  <2>1. leaving' \subseteq Ids
    BY <1>2, <1>7 DEF BodiesInv, BodyTypes
  <2>2. /\ DOMAIN disk' \subseteq Paths /\ (\A p \in DOMAIN disk' : disk'[p] \in Nat)
        /\ files' \in Seq(Files) /\ used' \in Int /\ faults' \in Nat
    BY <1>2 DEF BodiesInv, BodyTypes
  <2> QED BY <1>6, <1>8, <2>1, <2>2 DEF BodyTypes
<1>10. \A i : Kept(i)' => Kept(i) \/ i = id
  BY <1>2, <1>6 DEF Kept
<1>11. ASSUME NEW p \in Paths, p[1] = id
       PROVE  /\ captures[p].at = "none" /\ captures'[p] = begun
              /\ p \notin DOMAIN disk /\ ~captures[p].spilled
  <2>1. captures[p].at = "none"
    BY <1>2, <1>11, PathFacts
  <2>2. captures'[p] = begun
    BY <1>2, <1>11
  <2> QED BY <2>1, <2>2 DEF BodiesInv, Capturing
<1>12. \A p \in Paths : p[1] # id => captures'[p] = captures[p]
  BY <1>2
<1>13. ASSUME NEW p \in Paths PROVE Capturing(p)'
  <2>1. Capturing(p)
    BY DEF BodiesInv
  <2>2. CASE p[1] = id
    BY <1>3, <1>11, <2>2 DEF Capturing
  <2>3. CASE p[1] # id
    BY <1>2, <1>10, <1>12, <2>1, <2>3, CapturingSame
  <2> QED BY <2>2, <2>3
<1>14. ASSUME NEW i \in DOMAIN files PROVE Counted(i)'
  <2>1. Counted(i) /\ files[i].path \in Paths
    BY FilePaths DEF BodiesInv
  <2>2. files[i].path[1] # id
    BY <1>11, <2>1 DEF Counted
  <2> QED BY <1>2, <1>10, <1>12, <2>1, <2>2 DEF Counted
<1>15. BudgetKept' /\ CountedOnce'
  BY <1>2 DEF BodiesInv, BudgetKept, CountedOnce
<1>16. Flawless'
  <2> SUFFICES ASSUME faults' = 0, NEW p \in Paths
               PROVE  /\ captures'[p].at = "streaming" /\ ~captures'[p].open =>
                           captures'[p].path /\ captures'[p].total <= InlineCap
                      /\ p \in DOMAIN disk' =>
                           captures'[p].open \/ (captures'[p].spilled /\ Registered(p)')
    BY DEF Flawless
  <2>1. CASE p[1] = id
    BY <1>2, <1>3, <1>11, <2>1, BodiesAssumption
  <2>2. CASE p[1] # id
    BY <1>2, <1>12, <2>2 DEF BodiesInv, Flawless, Registered
  <2> QED BY <2>1, <2>2
<1>17. Shown'
  <2>1. \A i \in leaving' : i \notin (Store!Logged)'
    BY <1>2, <1>6 DEF BodiesInv, Shown
  <2>2. ASSUME NEW p \in Listed' PROVE captures'[p].at = "folded" /\ Preview(p)' = Folded(captures'[p])
    <3>1. p \in Paths /\ p[1] \in (Store!Logged)' /\ Store!At(p[1])'[p[2]].there
      BY DEF Listed
    <3>2. p[1] # id
      BY <1>4, <1>6, <3>1, PathFacts
    <3>3. p[1] \in Store!Logged /\ Store!At(p[1])' = Store!At(p[1])
      BY <1>6, <3>1, <3>2
    <3>4. p \in Listed /\ Preview(p)' = Preview(p)
      BY <3>1, <3>3 DEF Listed, Preview
    <3> QED BY <1>12, <3>1, <3>2, <3>4 DEF BodiesInv, Shown
  <2> QED BY <2>1, <2>2 DEF Shown
<1>18. DOMAIN files' = DOMAIN files
  BY <1>2
<1> QED BY <1>9, <1>13, <1>14, <1>15, <1>16, <1>17, <1>18 DEF BodiesInv

LEMMA ClearInv == BodiesInv /\ Clear => BodiesInv'
<1> SUFFICES ASSUME BodiesInv, Clear PROVE BodiesInv'
  OBVIOUS
<1>1. /\ leaving' = leaving \union Store!Logged /\ log' = <<>>
      /\ UNCHANGED <<captures, disk, files, used, faults>>
  BY DEF Clear, Store!Clear
<1>2. (Store!Logged)' = {}
  BY <1>1 DEF Store!Logged
<1>3. Store!Logged \subseteq Ids
  <2>1. LogTells
    BY LogFacts DEF BodiesInv, BodyTypes
  <2> QED BY <2>1 DEF LogTells, Entries
<1>4. BodyTypes'
  <2>1. LogTypes'
    BY <1>1 DEF LogTypes, Distinct
  <2> QED BY <1>1, <1>3, <2>1 DEF BodiesInv, BodyTypes
<1>5. \A i : Kept(i)' <=> Kept(i)
  BY <1>1, <1>2 DEF Kept
<1>6. \A p \in Paths : Capturing(p)'
  BY <1>1, <1>5, CapturingSame DEF BodiesInv
<1>7. \A i \in DOMAIN files' : Counted(i)'
  BY <1>1, <1>5 DEF BodiesInv, Counted
<1>8. BudgetKept' /\ CountedOnce'
  BY <1>1 DEF BodiesInv, BudgetKept, CountedOnce
<1>9. Flawless'
  BY <1>1 DEF BodiesInv, Flawless, Registered
<1>10. Shown'
  BY <1>2 DEF Shown, Listed
<1> QED BY <1>4, <1>6, <1>7, <1>8, <1>9, <1>10 DEF BodiesInv

LEMMA RemoveInv ==
  ASSUME BodiesInv, NEW id \in Ids, RemoveFlow(id)
  PROVE  BodiesInv'
<1> DEFINE kept == OfOthers(files, id)
<1>1. /\ id \in leaving /\ leaving' = leaving \ {id} /\ files' = kept
      /\ used' = used - (Total(files) - Total(kept))
      /\ disk' = Without(disk, {id} \X Sides)
      /\ UNCHANGED <<log, captures, faults>>
  BY DEF RemoveFlow
<1>2. files \in Seq(Files) /\ Once(files)
  BY DEF BodiesInv, BodyTypes, CountedOnce, Once
<1>3. LeftOf(kept, files, id)
  BY <1>2, OthersFacts
<1> HIDE DEF kept
<1>4. kept \in Seq(Files) /\ Total(kept) \in Nat /\ Total(files) \in Nat
  BY <1>2, <1>3, AllTallied DEF LeftOf, Tallied
<1>5. BudgetKept'
  <2>1. used = Total(files) /\ used <= DiskBudget /\ DiskBudget \in Nat
    BY BodiesAssumption DEF BodiesInv, BudgetKept
  <2>2. Total(files)' = Total(kept)
    BY <1>1
  <2>3. Total(kept) <= Total(files)
    BY <1>3 DEF LeftOf
  <2> QED BY <1>1, <1>4, <2>1, <2>2, <2>3 DEF BudgetKept
<1>6. CountedOnce'
  BY <1>1, <1>3 DEF LeftOf, Once, CountedOnce
<1>7. /\ DOMAIN disk' = {p \in DOMAIN disk : p[1] # id}
      /\ \A p \in DOMAIN disk' : disk'[p] = disk[p]
  <2>1. \A p \in DOMAIN disk : p \in {id} \X Sides <=> p[1] = id
    BY PathFacts DEF BodiesInv, BodyTypes
  <2> QED BY <1>1, <2>1 DEF Without
<1>8. BodyTypes'
  <2>1. LogTypes' /\ leaving' \subseteq Ids /\ captures' \in [Paths -> Captures] /\ faults' \in Nat
    BY <1>1 DEF BodiesInv, BodyTypes, LogTypes
  <2>2. used' \in Int
    BY <1>1, <1>4 DEF BodiesInv, BodyTypes
  <2>3. DOMAIN disk' \subseteq Paths /\ \A p \in DOMAIN disk' : disk'[p] \in Nat
    BY <1>7 DEF BodiesInv, BodyTypes
  <2> QED BY <1>1, <1>4, <2>1, <2>2, <2>3 DEF BodyTypes
<1>9. (Store!Logged)' = Store!Logged /\ \A i : Store!At(i)' = Store!At(i)
  BY <1>1 DEF Store!Logged, Store!At, Store!Place
<1>10. ~Kept(id)' /\ \A i : Kept(i)' => Kept(i)
  BY <1>1, <1>9 DEF BodiesInv, Shown, Kept
<1>11. ASSUME NEW p \in Paths PROVE Capturing(p)'
  <2>1. Capturing(p)
    BY DEF BodiesInv
  <2>2. Kept(p[1])' /\ p \in DOMAIN disk => p \in DOMAIN disk'
    BY <1>7, <1>10
  <2> QED BY <1>1, <1>7, <1>10, <2>1, <2>2, CapturingSame
<1>12. ASSUME NEW i \in DOMAIN files' PROVE Counted(i)'
  <2>1. i \in 1..Len(kept)
    BY <1>1, <1>4
  <2>2. PICK m \in 1..Len(files) : files[m] = files'[i] /\ files'[i].path[1] # id
    BY <1>1, <1>3, <2>1 DEF LeftOf
  <2>3. Counted(m)
    BY <1>2, <2>2 DEF BodiesInv
  <2> QED BY <1>1, <1>7, <1>10, <2>2, <2>3 DEF Counted
<1>13. ASSUME NEW p \in Paths, p[1] # id, Registered(p) PROVE Registered(p)'
  <2>1. PICK m \in 1..Len(files) : files[m].path = p
    BY <1>2, <1>13 DEF Registered
  <2>2. PICK i \in 1..Len(kept) : files[m] = kept[i]
    BY <1>3, <1>13, <2>1 DEF LeftOf
  <2> QED BY <1>1, <1>4, <2>1, <2>2 DEF Registered
<1>14. Flawless'
  <2> SUFFICES ASSUME faults' = 0, NEW p \in Paths
               PROVE  /\ captures'[p].at = "streaming" /\ ~captures'[p].open =>
                           captures'[p].path /\ captures'[p].total <= InlineCap
                      /\ p \in DOMAIN disk' =>
                           captures'[p].open \/ (captures'[p].spilled /\ Registered(p)')
    BY DEF Flawless
  <2>1. /\ captures[p].at = "streaming" /\ ~captures[p].open =>
             captures[p].path /\ captures[p].total <= InlineCap
        /\ p \in DOMAIN disk => captures[p].open \/ (captures[p].spilled /\ Registered(p))
    BY <1>1 DEF BodiesInv, Flawless
  <2> QED BY <1>1, <1>7, <1>13, <2>1
<1>15. Shown'
  BY <1>1, <1>9 DEF BodiesInv, Shown, Listed, Preview
<1> QED BY <1>5, <1>6, <1>8, <1>11, <1>12, <1>14, <1>15 DEF BodiesInv

LEMMA FoldInv ==
  ASSUME BodiesInv, NEW p \in Paths, Fold(p)
  PROVE  BodiesInv'
<1> DEFINE c == [captures[p] EXCEPT !.at = "folded"]
           body == Folded(captures[p])
           data == [Store!At(p[1]) EXCEPT ![p[2]] = body]
           e == [id |-> p[1], data |-> data]
<1>1. /\ captures[p].at = "finished" /\ captures[p] \in Captures /\ captures \in [Paths -> Captures]
      /\ captures' = [captures EXCEPT ![p] = c]
      /\ UNCHANGED <<leaving, disk, files, used, faults>>
  BY DEF Fold, BodiesInv, BodyTypes
<1>2. /\ c \in Captures /\ c.at = "folded" /\ c.total = captures[p].total
      /\ c.written = captures[p].written /\ c.open = captures[p].open
      /\ c.path = captures[p].path /\ c.spilled = captures[p].spilled
  BY <1>1 DEF Captures, Stages
<1> HIDE DEF c
<1>3. /\ captures' \in [Paths -> Captures] /\ captures'[p] = c
      /\ \A q \in Paths : q # p => captures'[q] = captures[q]
  BY <1>1, <1>2
<1>4. Folded(c) = body
  BY <1>2 DEF Folded
<1>5. body \in Previews
  BY <1>1, BodiesAssumption DEF Folded, Captures, Previews, Inline, Least
<1>6. LogTells
  BY LogFacts DEF BodiesInv, BodyTypes
<1>7. /\ LogTypes' /\ (Store!Logged)' = Store!Logged
      /\ \A i \in (Store!Logged)' :
           Store!At(i)' = IF i = p[1] THEN data ELSE Store!At(i)
      /\ p[1] \in Store!Logged => Store!At(p[1]) \in [Sides -> Previews]
  <2> HIDE DEF body
  <2>1. CASE p[1] \in Store!Logged
    <3>1. Store!Update(e)
      BY <2>1 DEF Fold, body
    <3>2. Store!At(p[1]) \in [Sides -> Previews]
      <4>1. PICK n \in 1..Len(log) : log[n].id = p[1] /\ Store!At(p[1]) = log[n].data
        BY <1>6, <2>1 DEF LogTells
      <4>2. log[n] \in Entries
        BY <1>6 DEF LogTells
      <4> QED BY <4>1, <4>2 DEF Entries
    <3>3. data \in [Sides -> Previews]
      BY <1>5, <3>2
    <3> HIDE DEF data
    <3>4. e \in Entries /\ e.id = p[1] /\ e.data = data
      BY <3>3, PathFacts DEF Entries
    <3> HIDE DEF e
    <3>5. LogTypes
      BY DEF BodiesInv, BodyTypes
    <3>6. StoreChange(e) /\ (Store!Logged)' = Store!Logged
      BY <3>1, <3>4, <3>5, UpdateFacts
    <3> QED BY <3>2, <3>4, <3>6 DEF StoreChange
  <2>2. CASE p[1] \notin Store!Logged
    <3>1. UNCHANGED log
      BY <2>2 DEF Fold
    <3>2. LogTypes' /\ (Store!Logged)' = Store!Logged /\ \A i : Store!At(i)' = Store!At(i)
      BY <3>1 DEF BodiesInv, BodyTypes, LogTypes, Store!Logged, Store!At, Store!Place
    <3> HIDE DEF data
    <3> QED BY <2>2, <3>2
  <2> QED BY <2>1, <2>2
<1>8. BodyTypes'
  BY <1>1, <1>3, <1>7 DEF BodiesInv, BodyTypes
<1>9. \A i : Kept(i)' <=> Kept(i)
  BY <1>1, <1>7 DEF Kept
<1>10. ASSUME NEW q \in Paths PROVE Capturing(q)'
  <2>1. Capturing(q)
    BY DEF BodiesInv
  <2>2. CASE q = p
    BY <1>1, <1>2, <1>3, <1>9, <2>1, <2>2 DEF Capturing
  <2>3. CASE q # p
    BY <1>1, <1>3, <1>9, <2>1, <2>3, CapturingSame
  <2> QED BY <2>2, <2>3
<1>11. ASSUME NEW i \in DOMAIN files PROVE Counted(i)'
  <2>1. Counted(i) /\ files[i].path \in Paths
    BY FilePaths DEF BodiesInv
  <2> QED BY <1>1, <1>2, <1>3, <1>9, <2>1 DEF Counted
<1>12. BudgetKept' /\ CountedOnce'
  BY <1>1 DEF BodiesInv, BudgetKept, CountedOnce
<1>13. Flawless'
  <2> SUFFICES ASSUME faults' = 0, NEW q \in Paths
               PROVE  /\ captures'[q].at = "streaming" /\ ~captures'[q].open =>
                           captures'[q].path /\ captures'[q].total <= InlineCap
                      /\ q \in DOMAIN disk' =>
                           captures'[q].open \/ (captures'[q].spilled /\ Registered(q)')
    BY DEF Flawless
  <2>1. /\ captures[q].at = "streaming" /\ ~captures[q].open =>
             captures[q].path /\ captures[q].total <= InlineCap
        /\ q \in DOMAIN disk => captures[q].open \/ (captures[q].spilled /\ Registered(q))
    BY <1>1 DEF BodiesInv, Flawless
  <2>2. Registered(q)' <=> Registered(q)
    BY <1>1 DEF Registered
  <2>3. CASE q = p
    BY <1>1, <1>2, <1>3, <2>1, <2>2, <2>3
  <2>4. CASE q # p
    BY <1>1, <1>3, <2>1, <2>2, <2>4
  <2> QED BY <2>3, <2>4
<1>14. Shown'
  <2>1. \A i \in leaving' : i \notin (Store!Logged)'
    BY <1>1, <1>7 DEF BodiesInv, Shown
  <2>2. ASSUME NEW q \in Listed' PROVE captures'[q].at = "folded" /\ Preview(q)' = Folded(captures'[q])
    <3>1. q \in Paths /\ q[1] \in Store!Logged /\ Store!At(q[1])'[q[2]].there
      BY <1>7 DEF Listed
    <3>2. CASE q = p
      <4>1. Store!At(p[1])' = data /\ DOMAIN Store!At(p[1]) = Sides
        BY <1>7, <3>1, <3>2
      <4> HIDE DEF body
      <4>2. data[p[2]] = body
        BY <4>1, PathFacts
      <4> HIDE DEF data
      <4> QED BY <1>2, <1>3, <1>4, <3>2, <4>1, <4>2 DEF Preview
    <3>3. CASE q # p
      <4>1. Store!At(q[1])'[q[2]] = Store!At(q[1])[q[2]]
        <5> HIDE DEF body
        <5>1. CASE q[1] = p[1]
          <6>1. q[2] # p[2] /\ q[2] \in Sides
            BY <3>1, <3>3, <5>1, PathFacts
          <6>2. Store!At(p[1])' = data /\ Store!At(p[1]) \in [Sides -> Previews]
            BY <1>7, <3>1, <5>1
          <6>3. data[q[2]] = Store!At(p[1])[q[2]]
            BY <6>1, <6>2
          <6> HIDE DEF data
          <6> QED BY <5>1, <6>2, <6>3
        <5>2. CASE q[1] # p[1]
          <6>1. Store!At(q[1])' = Store!At(q[1])
            BY <1>7, <3>1, <5>2
          <6> QED BY <6>1
        <5> QED BY <5>1, <5>2
      <4>2. q \in Listed /\ Preview(q)' = Preview(q)
        BY <3>1, <4>1 DEF Listed, Preview
      <4> QED BY <1>3, <3>1, <3>3, <4>2 DEF BodiesInv, Shown
    <3> QED BY <3>2, <3>3
  <2> QED BY <2>1, <2>2 DEF Shown
<1>15. DOMAIN files' = DOMAIN files
  BY <1>1
<1> QED BY <1>8, <1>10, <1>11, <1>12, <1>13, <1>14, <1>15 DEF BodiesInv

LEMMA FinishSpilledInv ==
  ASSUME BodiesInv, NEW p \in Paths, FinishSpilled(p)
  PROVE  BodiesInv'
<1> DEFINE f   == [path |-> p, len |-> captures[p].written]
           fs  == Append(files, f)
           sum == used + captures[p].written
           k   == Dropped(fs, sum)
           out == {fs[i].path : i \in 1..k}
           c   == [captures[p] EXCEPT !.at = "finished", !.open = FALSE, !.spilled = TRUE]
<1>1. /\ captures[p].at = "streaming" /\ captures[p].open
      /\ captures' = [captures EXCEPT ![p] = c]
      /\ files' = SubSeq(fs, k + 1, Len(fs))
      /\ used' = sum - Total(SubSeq(fs, 1, k))
      /\ disk' = Without(Flushed(p, captures[p].written), out)
      /\ UNCHANGED <<log, leaving, faults>>
  BY DEF FinishSpilled, Finished
<1>2. /\ captures[p] \in Captures /\ ~captures[p].spilled
      /\ captures[p].written = Least(captures[p].total, PerBodyCap)
      /\ faults \in Nat /\ \A q \in DOMAIN disk : disk[q] \in Nat
  BY <1>1, StreamFacts
<1>3. /\ c \in Captures /\ c.at = "finished" /\ ~c.open /\ c.spilled
      /\ c.total = captures[p].total /\ c.written = captures[p].written
  BY <1>2 DEF Captures, Stages
<1> HIDE DEF c
<1>4. /\ captures' \in [Paths -> Captures] /\ captures'[p] = c
      /\ \A q \in Paths : q # p => captures'[q] = captures[q]
  BY <1>1, <1>3 DEF BodiesInv, BodyTypes
<1>5. f \in Files /\ f.path = p /\ f.len = captures[p].written /\ f.len \in Nat
  BY <1>2 DEF Files, Captures
<1> HIDE DEF f
<1>6. files \in Seq(Files) /\ Len(files) \in Nat /\ DOMAIN files = 1..Len(files)
  BY DEF BodiesInv, BodyTypes
<1>7. /\ fs \in Seq(Files) /\ Len(fs) = Len(files) + 1 /\ fs[Len(files) + 1] = f
      /\ \A i \in 1..Len(files) : fs[i] = files[i]
      /\ 1..Len(fs) = 1..Len(files) \union {Len(files) + 1}
  BY <1>5, <1>6
<1>8. sum = Total(fs)
  <2>1. Total(fs) = Total(files) + f.len /\ used = Total(files)
    BY <1>5, <1>6, AddedTotal DEF BodiesInv, BudgetKept
  <2> QED BY <1>5, <2>1
<1>9. \A i \in 1..Len(files) : files[i].path \in Paths /\ files[i].path # p
  <2>1. \A i \in DOMAIN files : files[i].path \in Paths /\ Counted(i)
    BY FilePaths DEF BodiesInv
  <2> QED BY <1>2, <1>6, <2>1 DEF Counted
<1>10. Once(fs)
  <2>1. \A i, j \in 1..Len(files) : files[i].path = files[j].path => i = j
    BY DEF BodiesInv, CountedOnce
  <2> HIDE DEF fs
  <2> QED BY <1>5, <1>7, <1>9, <2>1 DEF Once
<1> HIDE DEF fs, sum
<1>11. /\ k \in 0..Len(fs)
       /\ Total(SubSeq(fs, k + 1, Len(fs))) = Total(fs) - Total(SubSeq(fs, 1, k))
       /\ Total(SubSeq(fs, k + 1, Len(fs))) <= DiskBudget
  BY <1>7, <1>8, DroppedFacts
<1> HIDE DEF k
<1>12. \A i \in 1..Len(fs) : fs[i] \in Files
  BY <1>7, ElementOfSeq
<1>13. /\ files' \in Seq(Files) /\ Len(files') = Len(fs) - k /\ DOMAIN files' = 1..(Len(fs) - k)
       /\ \A j \in 1..(Len(fs) - k) : files'[j] = fs[j + k] /\ j + k \in 1..Len(fs) /\ j + k > k
  <2>1. Len(fs) \in Nat /\ k \in Nat /\ k <= Len(fs)
    BY <1>6, <1>7, <1>11
  <2>2. \A i \in (k + 1)..Len(fs) : fs[i] \in Files
    BY <1>12, <2>1
  <2> QED BY <1>1, <2>1, <2>2
<1>14. ASSUME NEW i \in 1..Len(fs)
       PROVE  \/ fs[i].path \in out
              \/ fs[i].path \notin out /\ i - k \in 1..(Len(fs) - k) /\ files'[i - k] = fs[i]
  <2>1. Len(fs) \in Nat /\ k \in Nat /\ k <= Len(fs)
    BY <1>6, <1>7, <1>11
  <2>2. CASE i <= k
    BY <2>1, <2>2
  <2>3. CASE i > k
    <3>1. i - k \in 1..(Len(fs) - k) /\ (i - k) + k = i
      BY <2>1, <2>3
    <3>2. \A j \in 1..k : j \in 1..Len(fs) /\ j # i
      BY <2>1, <2>3
    <3>3. fs[i].path \notin out
      BY <1>10, <3>2 DEF Once
    <3> QED BY <1>13, <3>1, <3>3
  <2> QED BY <2>1, <2>2, <2>3
<1>15. \A j \in 1..(Len(fs) - k) : files'[j].path \notin out
  <2> SUFFICES ASSUME NEW j \in 1..(Len(fs) - k), NEW i \in 1..k, files'[j].path = fs[i].path
               PROVE  FALSE
    OBVIOUS
  <2>1. j + k \in 1..Len(fs) /\ j + k > k /\ files'[j] = fs[j + k]
    BY <1>13
  <2>2. i \in 1..Len(fs) /\ i <= k
    BY <1>6, <1>7, <1>11
  <2>3. i = j + k
    BY <1>10, <2>1, <2>2 DEF Once
  <2> QED BY <1>11, <2>1, <2>2, <2>3
<1> HIDE DEF out
<1>16. /\ DOMAIN disk' = DOMAIN disk \ out
       /\ \A q \in DOMAIN disk' : disk'[q] = IF q = p THEN captures[p].written ELSE disk[q]
  BY <1>1 DEF Without, Flushed
<1>17. BudgetKept'
  <2>1. Total(files)' = Total(SubSeq(fs, k + 1, Len(fs)))
    BY <1>1
  <2> QED BY <1>1, <1>8, <1>11, <2>1 DEF BudgetKept
<1>18. BodyTypes'
  <2>1. LogTypes' /\ leaving' \subseteq Ids /\ faults' \in Nat
    BY <1>1 DEF BodiesInv, BodyTypes, LogTypes
  <2>2. used' \in Int
    <3>1. Total(files') \in Nat
      BY <1>13, AllTallied DEF Tallied
    <3> QED BY <1>17, <3>1 DEF BudgetKept
  <2>3. captures[p].written \in Nat
    BY <1>2 DEF Captures
  <2>4. DOMAIN disk' \subseteq Paths /\ \A q \in DOMAIN disk' : disk'[q] \in Nat
    BY <1>2, <1>16, <2>3 DEF BodiesInv, BodyTypes
  <2> QED BY <1>4, <1>13, <2>1, <2>2, <2>4 DEF BodyTypes
<1>19. CountedOnce'
  <2> SUFFICES ASSUME NEW i \in 1..(Len(fs) - k), NEW j \in 1..(Len(fs) - k),
                      files'[i].path = files'[j].path
               PROVE  i = j
    BY <1>13 DEF CountedOnce
  <2>1. i + k = j + k
    BY <1>10, <1>13 DEF Once
  <2> QED BY <1>6, <1>7, <1>11, <2>1
<1>20. (Store!Logged)' = Store!Logged /\ \A i : Store!At(i)' = Store!At(i)
  BY <1>1 DEF Store!Logged, Store!At, Store!Place
<1>21. \A i : Kept(i)' <=> Kept(i)
  BY <1>1, <1>20 DEF Kept
<1>22. ASSUME NEW q \in Paths, q # p, q \in out PROVE captures[q].spilled
  <2>1. PICK i \in 1..k : q = fs[i].path
    BY <1>22 DEF out
  <2>2. i \in 1..Len(fs)
    BY <1>6, <1>7, <1>11
  <2>3. i \in 1..Len(files) /\ fs[i] = files[i]
    BY <1>5, <1>7, <1>22, <2>1, <2>2
  <2>4. Counted(i)
    BY <1>6, <2>3 DEF BodiesInv
  <2> QED BY <2>1, <2>3, <2>4 DEF Counted
<1>23. ASSUME NEW q \in Paths PROVE Capturing(q)'
  <2>1. Capturing(q)
    BY DEF BodiesInv
  <2>2. CASE q = p
    BY <1>2, <1>3, <1>4, <1>16, <2>2 DEF Capturing
  <2>3. CASE q # p
    <3>1. captures'[q] = captures[q]
      BY <1>4, <2>3
    <3>2. q \in DOMAIN disk' => q \in DOMAIN disk /\ disk'[q] = disk[q]
      BY <1>16, <2>3
    <3>3. captures[q].open => ~captures[q].spilled
      BY <2>1 DEF Capturing
    <3>4. captures[q].open /\ q \in DOMAIN disk => q \in DOMAIN disk'
      BY <1>16, <1>22, <2>3, <3>3
    <3> QED BY <1>21, <2>1, <3>1, <3>2, <3>4 DEF Capturing
  <2> QED BY <2>2, <2>3
<1>24. ASSUME NEW j \in 1..(Len(fs) - k) PROVE Counted(j)'
  <2> DEFINE i == j + k
  <2>1. i \in 1..Len(fs) /\ files'[j] = fs[i] /\ fs[i].path \notin out
    BY <1>13, <1>15
  <2> HIDE DEF i
  <2>2. CASE i = Len(files) + 1
    <3>1. files'[j].path = p /\ files'[j].len = c.written
      BY <1>3, <1>5, <1>7, <2>1, <2>2
    <3>2. Kept(p[1]) => p \in DOMAIN disk
      BY <1>1 DEF BodiesInv, Capturing
    <3>3. Kept(p[1])' => p \in DOMAIN disk'
      BY <1>5, <1>7, <1>16, <1>21, <2>1, <2>2, <3>2
    <3> QED BY <1>3, <1>4, <3>1, <3>3 DEF Counted
  <2>3. CASE i # Len(files) + 1
    <3>1. i \in 1..Len(files) /\ files'[j] = files[i]
      BY <1>7, <2>1, <2>3
    <3>2. Counted(i) /\ files[i].path # p /\ files[i].path \in Paths
      BY <1>6, <1>9, <3>1 DEF BodiesInv
    <3>3. files[i].path \notin out
      BY <2>1, <3>1
    <3> QED BY <1>4, <1>16, <1>21, <3>1, <3>2, <3>3 DEF Counted
  <2> QED BY <2>2, <2>3
<1>25. ASSUME NEW q \in Paths, q \notin out, Registered(q) \/ q = p PROVE Registered(q)'
  <2>1. PICK i \in 1..Len(fs) : fs[i].path = q
    <3>1. CASE q = p
      BY <1>5, <1>7, <3>1
    <3>2. CASE Registered(q)
      BY <1>6, <1>7, <3>2 DEF Registered
    <3> QED BY <1>25, <3>1, <3>2
  <2>2. i - k \in 1..(Len(fs) - k) /\ files'[i - k] = fs[i]
    BY <1>14, <1>25, <2>1
  <2> QED BY <1>13, <2>1, <2>2 DEF Registered
<1>26. Flawless'
  <2> SUFFICES ASSUME faults' = 0, NEW q \in Paths
               PROVE  /\ captures'[q].at = "streaming" /\ ~captures'[q].open =>
                           captures'[q].path /\ captures'[q].total <= InlineCap
                      /\ q \in DOMAIN disk' =>
                           captures'[q].open \/ (captures'[q].spilled /\ Registered(q)')
    BY DEF Flawless
  <2>1. /\ captures[q].at = "streaming" /\ ~captures[q].open =>
             captures[q].path /\ captures[q].total <= InlineCap
        /\ q \in DOMAIN disk => captures[q].open \/ (captures[q].spilled /\ Registered(q))
    BY <1>1 DEF BodiesInv, Flawless
  <2>2. q \in DOMAIN disk' => q \in DOMAIN disk /\ q \notin out
    BY <1>16
  <2>3. CASE q = p
    BY <1>3, <1>4, <1>25, <2>2, <2>3
  <2>4. CASE q # p
    BY <1>4, <1>25, <2>1, <2>2, <2>4
  <2> QED BY <2>3, <2>4
<1>27. Shown'
  <2>1. \A i \in leaving' : i \notin (Store!Logged)'
    BY <1>1, <1>20 DEF BodiesInv, Shown
  <2>2. ASSUME NEW q \in Listed' PROVE captures'[q].at = "folded" /\ Preview(q)' = Folded(captures'[q])
    <3>1. q \in Listed /\ q \in Paths /\ Preview(q)' = Preview(q)
      BY <1>20 DEF Listed, Preview
    <3>2. captures[q].at = "folded" /\ Preview(q) = Folded(captures[q])
      BY <3>1 DEF BodiesInv, Shown
    <3> QED BY <1>1, <1>4, <3>1, <3>2
  <2> QED BY <2>1, <2>2 DEF Shown
<1> QED BY <1>13, <1>17, <1>18, <1>19, <1>23, <1>24, <1>26, <1>27 DEF BodiesInv

LEMMA NextInv == BodiesInv /\ [Next]_vars => BodiesInv'
<1> SUFFICES ASSUME BodiesInv, [Next]_vars PROVE BodiesInv'
  OBVIOUS
<1>1. CASE \E id \in Ids : Insert(id) \/ RemoveFlow(id)
  BY <1>1, InsertInv, RemoveInv
<1>2. CASE Clear
  BY <1>2, ClearInv
<1>3. ASSUME NEW p \in Paths,
             (\E n \in Chunks : Push(p, n)) \/ FinishInline(p) \/ FlushFails(p) \/ FinishSpilled(p)
               \/ Fold(p)
      PROVE  BodiesInv'
  BY <1>3, CaptureInv, FinishSpilledInv, FoldInv
<1>4. CASE UNCHANGED vars
  <2>1. UNCHANGED <<log, leaving, captures, disk, files, used, faults>>
    BY <1>4 DEF vars
  <2>2. (Store!Logged)' = Store!Logged /\ \A i : Store!At(i)' = Store!At(i)
    BY <2>1 DEF Store!Logged, Store!At, Store!Place
  <2> QED BY <2>1, <2>2
          DEF BodiesInv, BodyTypes, LogTypes, Capturing, Kept, Counted, CountedOnce, Flawless,
              Shown, Listed, Preview, Registered, BudgetKept
<1> QED BY <1>1, <1>2, <1>3, <1>4 DEF Next

LEMMA SpecInv == Spec => []BodiesInv
BY InitInv, NextInv, PTL DEF Spec

------------------------------------------------------------------------------
(* What readers are told.                                                  *)

(* Whatever the sizes of bodies and the budget, and in whatever order      *)
(* bodies end, files are evicted and flows deleted: the count the store    *)
(* keeps is the sum of its entries and stays within the budget             *)
(* (bodystore.rs register, remove_flow).                                   *)
THEOREM BudgetIsKept == Spec => []BudgetKept
<1>1. BodiesInv => BudgetKept
  BY DEF BodiesInv
<1> QED BY <1>1, SpecInv, PTL

LEMMA AccountedFacts == BodiesInv => DiskIsAccounted
<1> SUFFICES ASSUME BodiesInv, faults = 0, NEW p \in DOMAIN disk,
                    captures[p].at \in {"finished", "folded"}
             PROVE  \E i \in DOMAIN files : files[i] = [path |-> p, len |-> disk[p]]
  BY DEF DiskIsAccounted
<1>1. p \in Paths
  BY DEF BodiesInv, BodyTypes
<1>2. Capturing(p)
  BY <1>1 DEF BodiesInv
<1>3. captures[p].spilled /\ Registered(p) /\ disk[p] = captures[p].written
  <2>1. captures[p].at # "streaming"
    OBVIOUS
  <2>2. ~captures[p].open
    BY <1>2, <2>1 DEF Capturing
  <2>3. captures[p].open \/ (captures[p].spilled /\ Registered(p))
    <3>1. Flawless
      BY DEF BodiesInv
    <3> QED BY <1>1, <3>1 DEF Flawless
  <2> QED BY <1>2, <2>2, <2>3 DEF Capturing
<1>4. PICK i \in DOMAIN files : files[i].path = p
  BY <1>3 DEF Registered
<1>5. files[i].len = disk[p]
  BY <1>3, <1>4 DEF BodiesInv, Counted
<1>6. files[i] \in Files
  <2>1. files \in Seq(Files)
    BY DEF BodiesInv, BodyTypes
  <2> QED BY <1>4, <2>1, ElementOfSeq
<1>7. files[i] = [path |-> p, len |-> disk[p]]
  BY <1>4, <1>5, <1>6 DEF Files
<1> QED BY <1>7

(* While no disk operation fails the count misses nothing: each finished   *)
(* spill file that is there is an entry, at the bytes it has, so the count *)
(* that is kept within the budget is of all of them (bodystore.rs finish,  *)
(* register, remove_flow).                                                 *)
THEOREM DiskIsCounted == Spec => []DiskIsAccounted
BY AccountedFacts, SpecInv, PTL

(* A body that is listed: its capture is over, and its file, if it spilled *)
(* and the file is there, is complete up to the cap.                       *)
LEMMA ListedFacts ==
  ASSUME BodiesInv, NEW p \in Listed
  PROVE  /\ p \in Paths /\ p[1] \in Store!Logged /\ captures[p].at = "folded"
         /\ captures[p].total \in Nat
         /\ Preview(p) = Folded(captures[p])
         /\ ~captures[p].open
         /\ captures[p].spilled /\ p \in DOMAIN disk =>
              disk[p] = Least(captures[p].total, PerBodyCap)
<1>1. p \in Paths /\ p[1] \in Store!Logged
  BY DEF Listed
<1>2. captures[p].at = "folded" /\ Preview(p) = Folded(captures[p])
  BY DEF BodiesInv, Shown
<1>3. captures[p] \in Captures /\ Capturing(p)
  BY <1>1 DEF BodiesInv, BodyTypes
<1>4. captures[p].total \in Nat
  BY <1>3 DEF Captures
<1> QED BY <1>1, <1>2, <1>3, <1>4 DEF Capturing

LEMMA StoredFacts == BodiesInv => SpilledIsStored
<1> SUFFICES ASSUME BodiesInv, NEW p \in Listed, Preview(p).spilled, Registered(p)
             PROVE  p \in DOMAIN disk /\ disk[p] = Least(Preview(p).total, PerBodyCap)
  BY DEF SpilledIsStored
<1>1. Preview(p).total = captures[p].total /\ captures[p].spilled
  <2>1. Preview(p) = Folded(captures[p])
    BY ListedFacts
  <2>2. Folded(captures[p]).spilled
    BY <2>1
  <2>3. captures[p].spilled
    BY ONLY <2>2 DEF Folded
  <2>4. Preview(p).total = captures[p].total
    BY <2>1 DEF Folded
  <2> QED BY <2>3, <2>4
<1>2. PICK i \in DOMAIN files : files[i].path = p
  BY DEF Registered
<1>3. Kept(p[1])
  BY ListedFacts DEF Kept
<1>4. p \in DOMAIN disk
  BY <1>2, <1>3 DEF BodiesInv, Counted
<1> QED BY <1>1, <1>4, ListedFacts

(* However captures, evictions, deletions and failures fall: a body that   *)
(* the store counts for a flow in the list is on the disk, and all of it   *)
(* that the cap lets through (bodystore.rs push, finish, remove_flow).     *)
THEOREM SpilledAreStored == Spec => []SpilledIsStored
BY StoredFacts, SpecInv, PTL

(* A file that holds a body up to the cap is cut by a read of less than    *)
(* the cap, or it is the whole of the body.                                *)
LEMMA StoreReadIsHonest ==
  ASSUME BodiesInv, NEW p \in Listed, captures[p].spilled, p \in DOMAIN disk,
         NEW max \in 0..(PerBodyCap - 1)
  PROVE  Honest(p, StoreRead(p, max))
<1>1. Preview(p).total = captures[p].total /\ captures[p].total \in Nat
  <2>1. Preview(p) = Folded(captures[p]) /\ captures[p].total \in Nat
    BY ListedFacts
  <2> QED BY <2>1 DEF Folded
<1>2. disk[p] = Least(captures[p].total, PerBodyCap)
  BY ListedFacts
<1>3. PerBodyCap \in Nat /\ max \in Nat /\ max < PerBodyCap
  BY BodiesAssumption
<1>4. Least(disk[p], max) < captures[p].total => disk[p] > max
  BY <1>1, <1>2, <1>3 DEF Least
<1> QED BY <1>1, <1>4 DEF Honest, StoreRead

LEMMA HeldIsHonest ==
  ASSUME BodiesInv, NEW p \in Listed
  PROVE  /\ Honest(p, Held(p))
         /\ Held(p).len \in Nat /\ Held(p).truncated \in BOOLEAN
         /\ Preview(p).total \in Nat /\ Preview(p).len \in Nat
<1>1. captures[p].total \in Nat /\ InlineCap \in Nat
  BY ListedFacts, BodiesAssumption
<1>2. /\ Preview(p).total = captures[p].total
      /\ Preview(p).len = Inline(captures[p].total)
      /\ Preview(p).truncated = (captures[p].total > InlineCap)
  BY ListedFacts DEF Folded
<1>3. Inline(captures[p].total) \in Nat
  BY <1>1 DEF Inline, Least
<1>4. Inline(captures[p].total) < captures[p].total => captures[p].total > InlineCap
  BY <1>1 DEF Inline, Least
<1>5. /\ Held(p).len = Preview(p).len
      /\ Held(p).truncated = Preview(p).truncated
  BY DEF Held
<1>6. Held(p).truncated \in BOOLEAN
  BY <1>2, <1>5
<1>7. Honest(p, Held(p))
  BY <1>2, <1>4, <1>5 DEF Honest
<1> QED BY <1>1, <1>2, <1>3, <1>5, <1>6, <1>7

LEMMA AgentIsHonest ==
  ASSUME BodiesInv, NEW p \in Listed, NEW chars \in 0..MaxBody
  PROVE  Honest(p, AgentRead(p, chars))
<1> DEFINE cut == [StoreRead(p, 4 * chars) EXCEPT !.truncated = TRUE]
           whole == Held(p)
<1>1. chars \in Nat
  BY BodiesAssumption
<1>2. CASE Preview(p).spilled /\ p \in DOMAIN disk
  <2>1. AgentRead(p, chars) = BodyOut(cut, chars)
    BY <1>2 DEF AgentRead
  <2>2. BodyOut(cut, chars).truncated = TRUE
    BY DEF BodyOut, StoreRead
  <2> QED BY <2>1, <2>2 DEF Honest
<1>3. CASE ~ (Preview(p).spilled /\ p \in DOMAIN disk)
  <2>1. AgentRead(p, chars) = BodyOut(whole, chars)
    BY <1>3 DEF AgentRead
  <2>2. /\ BodyOut(whole, chars).len = Least(whole.len, chars)
        /\ BodyOut(whole, chars).truncated = (whole.truncated \/ whole.len > chars)
    BY DEF BodyOut, Held
  <2>3. whole.len < Preview(p).total => whole.truncated
    BY HeldIsHonest DEF Honest
  <2>4. whole.len \in Nat
    BY HeldIsHonest
  <2> HIDE DEF whole
  <2>5. ~ (whole.len > chars) => Least(whole.len, chars) = whole.len
    BY <1>1, <2>4 DEF Least
  <2> QED BY <2>1, <2>2, <2>3, <2>5 DEF Honest
<1> QED BY <1>2, <1>3

LEMMA HonestFacts == BodiesInv => ReadIsHonest
<1> SUFFICES ASSUME BodiesInv, NEW p \in Listed
             PROVE  /\ faults = 0 => Honest(p, ReadBody(p))
                    /\ Honest(p, Exported(p))
                    /\ \A chars \in 0..MaxBody : Honest(p, AgentRead(p, chars))
  BY DEF ReadIsHonest
<1>1. MaxRead \in 0..(PerBodyCap - 1) /\ ExportBody \in 0..(PerBodyCap - 1)
  BY BodiesAssumption
<1>2. p \in Paths /\ Preview(p).spilled = captures[p].spilled
  BY ListedFacts DEF Folded
<1>3. faults = 0 => Honest(p, ReadBody(p))
  <2>1. CASE p \in DOMAIN disk
    <3>1. faults = 0 => captures[p].spilled
      BY <1>2, <2>1, ListedFacts DEF BodiesInv, Flawless
    <3> QED BY <1>1, <2>1, <3>1, StoreReadIsHonest DEF ReadBody
  <2>2. CASE p \notin DOMAIN disk
    BY <2>2, HeldIsHonest DEF ReadBody
  <2> QED BY <2>1, <2>2
<1>4. Honest(p, Exported(p))
  <2>1. CASE Preview(p).spilled /\ Preview(p).truncated /\ p \in DOMAIN disk
    BY <1>1, <1>2, <2>1, StoreReadIsHonest DEF Exported
  <2>2. CASE ~ (Preview(p).spilled /\ Preview(p).truncated /\ p \in DOMAIN disk)
    BY <2>2, HeldIsHonest DEF Exported
  <2> QED BY <2>1, <2>2
<1> QED BY <1>3, <1>4, AgentIsHonest

(* For all caps of which those of a read are less than that of a body: an  *)
(* answer that lacks some of a body says that it is cut, to the page while *)
(* the disk works, to an export and to an agent always (commands.rs        *)
(* read_body_from and fill_spilled, mcp.rs get_body and body_out).         *)
THEOREM ReadsAreHonest == Spec => []ReadIsHonest
BY HonestFacts, SpecInv, PTL
=============================================================================
