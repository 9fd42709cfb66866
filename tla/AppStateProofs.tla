--------------------------- MODULE AppStateProofs ---------------------------
(***************************************************************************)
(* What the commands keep true of what the app owns and saves, however     *)
(* many callers run at once: the traffic rules and their file, the         *)
(* engine's handle, the MCP endpoint's switch, the root certificate.       *)
(***************************************************************************)
EXTENDS Rules, Engines, McpEndpoint, Certificates, SequenceTheorems, NaturalsInduction,
        WellFoundedInduction, TLAPS

------------------------------------------------------------------------------
(***************************************************************************)
(* That the file of the rules is the list that is live, for any number of  *)
(* agents, rules, edits, refused writes and exits.                         *)
(***************************************************************************)
WriterStages == {"idle", "empty", "fill"}
RuleTypes ==
  /\ rulesFile = [is |-> rulesFile.is, rules |-> rulesFile.rules]
  /\ DOMAIN writer = RuleTasks
  /\ \A t \in RuleTasks : DOMAIN writer[t] = {"at", "rules"} /\ writer[t].at \in WriterStages
  /\ edits \in Nat /\ exits \in Nat /\ contended \in BOOLEAN

(* Unless edits met or a write was refused, one task at most is writing,   *)
(* what it has is the live list, and what it fills is a file it emptied... *)
OneWriter ==
  ~contended =>
    /\ \A t, u \in RuleTasks : writer[t].at # "idle" /\ writer[u].at # "idle" => t = u
    /\ \A t \in RuleTasks :
         /\ writer[t].at # "idle" => writer[t].rules = rules
         /\ writer[t].at = "fill" => rulesFile.is = "empty"

(* ...and with none the file is whole.                                     *)
RulesInv == RuleTypes /\ OneWriter /\ RulesFileIsLive

------------------------------------------------------------------------------
LEMMA RulesInitInv == RulesInit => RulesInv
<1> SUFFICES ASSUME RulesInit PROVE RulesInv
  OBVIOUS
<1>1. /\ writer = [t \in RuleTasks |-> AtHome] /\ rulesFile = [is |-> "empty", rules |-> NoRules]
      /\ contended = FALSE /\ edits = 0 /\ exits = 0
  BY DEF RulesInit, Spoilt
<1>2. AtHome.at = "idle" /\ DOMAIN AtHome = {"at", "rules"}
  BY DEF AtHome
<1>3. RuleTypes
  BY <1>1, <1>2 DEF RuleTypes, WriterStages
<1> QED BY <1>1, <1>2, <1>3 DEF RulesInv, OneWriter, RulesFileIsLive

(* A task that is given another record. *)
LEMMA WriterFacts ==
  ASSUME RuleTypes, NEW t \in RuleTasks, NEW record,
         DOMAIN record = {"at", "rules"}, record.at \in WriterStages, writer' = [writer EXCEPT ![t] = record]
  PROVE  /\ DOMAIN writer' = RuleTasks
         /\ \A u \in RuleTasks : DOMAIN writer'[u] = {"at", "rules"} /\ writer'[u].at \in WriterStages
         /\ writer'[t] = record /\ \A u \in RuleTasks : u # t => writer'[u] = writer[u]
BY DEF RuleTypes

LEMMA EditInv ==
  ASSUME RulesInv, NEW t \in RuleTasks, NEW rs, Edit(t, rs)
  PROVE  RulesInv'
<1> DEFINE record == [at |-> "empty", rules |-> rs]
<1>1. /\ edits' = edits + 1 /\ rules' = rs /\ writer' = [writer EXCEPT ![t] = record]
      /\ contended' = ~AtRest /\ UNCHANGED <<rulesFile, exits>>
  BY DEF Edit
<1>2. DOMAIN record = {"at", "rules"} /\ record.at = "empty" /\ record.rules = rs
  OBVIOUS
<1> HIDE DEF record
<1>3. /\ DOMAIN writer' = RuleTasks
      /\ \A u \in RuleTasks : DOMAIN writer'[u] = {"at", "rules"} /\ writer'[u].at \in WriterStages
      /\ writer'[t] = record /\ \A u \in RuleTasks : u # t => writer'[u] = writer[u]
  BY <1>1, <1>2, WriterFacts DEF RulesInv, WriterStages
<1>4. contended' \in BOOLEAN
  BY <1>1 DEF AtRest
<1>5. RuleTypes'
  BY <1>1, <1>3, <1>4 DEF RulesInv, RuleTypes
<1>6. OneWriter'
  BY <1>1, <1>2, <1>3 DEF OneWriter, AtRest
<1>7. ~AtRest'
  BY <1>2, <1>3 DEF AtRest
<1> QED BY <1>5, <1>6, <1>7 DEF RulesInv, RulesFileIsLive

LEMMA EmptyInv ==
  ASSUME RulesInv, NEW t \in RuleTasks, EmptyFile(t)
  PROVE  RulesInv'
<1> DEFINE record == [writer[t] EXCEPT !.at = "fill"]
<1>1. /\ writer[t].at = "empty" /\ rulesFile' = [is |-> "empty", rules |-> NoRules]
      /\ writer' = [writer EXCEPT ![t] = record]
      /\ UNCHANGED <<rules, contended, edits, exits>>
  BY DEF EmptyFile, Spoilt
<1>2. DOMAIN record = {"at", "rules"} /\ record.at = "fill" /\ record.rules = writer[t].rules
  BY DEF RulesInv, RuleTypes
<1> HIDE DEF record
<1>3. /\ DOMAIN writer' = RuleTasks
      /\ \A u \in RuleTasks : DOMAIN writer'[u] = {"at", "rules"} /\ writer'[u].at \in WriterStages
      /\ writer'[t] = record /\ \A u \in RuleTasks : u # t => writer'[u] = writer[u]
  BY <1>1, <1>2, WriterFacts DEF RulesInv, WriterStages
<1>4. RuleTypes'
  BY <1>1, <1>3 DEF RulesInv, RuleTypes
<1>5. OneWriter'
  BY <1>1, <1>2, <1>3 DEF RulesInv, OneWriter
<1>6. ~AtRest'
  BY <1>2, <1>3 DEF AtRest
<1> QED BY <1>4, <1>5, <1>6 DEF RulesInv, RulesFileIsLive

LEMMA RefuseInv ==
  ASSUME RulesInv, NEW t \in RuleTasks, RefuseFile(t)
  PROVE  RulesInv'
<1>1. /\ contended' = TRUE /\ writer' = [writer EXCEPT ![t] = AtHome]
      /\ UNCHANGED <<rulesFile, edits, exits>>
  BY DEF RefuseFile
<1>2. DOMAIN AtHome = {"at", "rules"} /\ AtHome.at \in WriterStages
  BY DEF AtHome, WriterStages
<1>3. /\ DOMAIN writer' = RuleTasks
      /\ \A u \in RuleTasks : DOMAIN writer'[u] = {"at", "rules"} /\ writer'[u].at \in WriterStages
  BY <1>1, <1>2, WriterFacts DEF RulesInv
<1> QED BY <1>1, <1>3 DEF RulesInv, RuleTypes, OneWriter, RulesFileIsLive

LEMMA FillInv ==
  ASSUME RulesInv, NEW t \in RuleTasks, FillFile(t)
  PROVE  RulesInv'
<1>1. /\ writer[t].at = "fill" /\ writer' = [writer EXCEPT ![t] = AtHome]
      /\ UNCHANGED <<rules, contended, edits, exits>>
  BY DEF FillFile
<1>2. AtHome.at = "idle" /\ DOMAIN AtHome = {"at", "rules"}
  BY DEF AtHome
<1>3. /\ DOMAIN writer' = RuleTasks
      /\ \A u \in RuleTasks : DOMAIN writer'[u] = {"at", "rules"} /\ writer'[u].at \in WriterStages
      /\ writer'[t].at = "idle" /\ \A u \in RuleTasks : u # t => writer'[u] = writer[u]
  BY <1>1, <1>2, WriterFacts DEF RulesInv, WriterStages
<1>4. rulesFile' = [is |-> rulesFile'.is, rules |-> rulesFile'.rules]
  BY DEF FillFile, Whole, Spoilt
<1>5. RuleTypes'
  BY <1>1, <1>3, <1>4 DEF RulesInv, RuleTypes
<1>6. ~contended => rulesFile' = Whole(rules) /\ \A u \in RuleTasks : writer'[u].at = "idle"
  BY <1>1, <1>3 DEF RulesInv, OneWriter, FillFile
<1>7. OneWriter'
  BY <1>1, <1>6 DEF OneWriter
<1>8. RulesFileIsLive'
  BY <1>1, <1>6 DEF RulesFileIsLive, Whole
<1> QED BY <1>5, <1>7, <1>8 DEF RulesInv

LEMMA RulesExitInv == RulesInv /\ ExitAndLaunch => RulesInv'
<1> SUFFICES ASSUME RulesInv, ExitAndLaunch PROVE RulesInv'
  OBVIOUS
<1>1. /\ exits' = exits + 1 /\ rules' = rulesFile.rules
      /\ writer' = [t \in RuleTasks |-> AtHome]
      /\ contended' = (rulesFile.is # "whole") /\ UNCHANGED <<rulesFile, edits>>
  BY DEF ExitAndLaunch
<1>2. AtHome.at = "idle" /\ DOMAIN AtHome = {"at", "rules"}
  BY DEF AtHome
<1>3. contended' \in BOOLEAN
  BY <1>1
<1>4. RuleTypes'
  BY <1>1, <1>2, <1>3 DEF RulesInv, RuleTypes, WriterStages
<1>5. OneWriter'
  BY <1>1, <1>2 DEF OneWriter
<1>6. ~contended' => rulesFile = Whole(rulesFile.rules)
  BY <1>1 DEF RulesInv, RuleTypes, Whole
<1>7. RulesFileIsLive'
  BY <1>1, <1>6 DEF RulesFileIsLive, Whole
<1> QED BY <1>4, <1>5, <1>7 DEF RulesInv

LEMMA RulesNextInv == RulesInv /\ [RulesNext]_rulesVars => RulesInv'
<1> SUFFICES ASSUME RulesInv, [RulesNext]_rulesVars PROVE RulesInv'
  OBVIOUS
<1>1. CASE UNCHANGED rulesVars
  BY <1>1 DEF rulesVars, RulesInv, RuleTypes, OneWriter, RulesFileIsLive, AtRest, Whole
<1>2. CASE SetRules
  BY <1>2, EditInv DEF SetRules, RuleTasks
<1>3. CASE \E a \in Agents, r \in RuleIds : DeleteRule(a, r) \/ \E c \in Contents : SetRule(a, r, c)
  BY <1>3, EditInv DEF SetRule, DeleteRule, RuleTasks
<1>4. CASE \E t \in RuleTasks : EmptyFile(t) \/ RefuseFile(t) \/ FillFile(t)
  BY <1>4, EmptyInv, RefuseInv, FillInv
<1> QED BY <1>1, <1>2, <1>3, <1>4, RulesExitInv DEF RulesNext

(* Between edits the file holds the live list, so that a restart changes   *)
(* no rule, unless an edit came while another was being written or the     *)
(* disk refused one (commands.rs set_rules, mcp.rs set_rule, state.rs      *)
(* persist_rules).                                                         *)
THEOREM FileIsLive == RulesSpec => []RulesFileIsLive
<1>1. RulesSpec => []RulesInv
  BY RulesInitInv, RulesNextInv, PTL DEF RulesSpec
<1>2. RulesInv => RulesFileIsLive
  BY DEF RulesInv
<1> QED BY <1>1, <1>2, PTL

------------------------------------------------------------------------------
(***************************************************************************)
(* That matching by segments is matching the glob, for patterns and texts  *)
(* of any length.  The definitions by recursion are taken a step at a      *)
(* time; a lemma about all their values is shown from the first place      *)
(* where it would fail.                                                    *)
(***************************************************************************)
LEMMA Smallest ==
  ASSUME NEW S \in SUBSET Nat, S # {}
  PROVE  \E n \in S : \A m \in S : n <= m
<1>1. PICK n \in S : \A m \in S : <<m, n>> \notin OpToRel(<, Nat)
  BY NatLessThanWellFounded, WFMin
<1>2. \A m \in S : ~ (m < n)
  BY <1>1 DEF OpToRel
<1> QED BY <1>2

(* The first place at which something goes wrong comes after one at which  *)
(* it does not.                                                            *)
LEMMA FirstWrong ==
  ASSUME NEW N \in Nat, NEW S \in SUBSET (0..N), S # {}, 0 \notin S
  PROVE  \E n \in 1..N : n \in S /\ n - 1 \in 0..N /\ n - 1 \notin S
<1>1. PICK n \in S : \A m \in S : n <= m
  <2>1. S \in SUBSET Nat
    OBVIOUS
  <2> QED BY <2>1, Smallest
<1>2. n \in 1..N /\ n - 1 \in 0..N /\ ~ (n <= n - 1)
  OBVIOUS
<1> QED BY <1>1, <1>2

------------------------------------------------------------------------------
(* What the definitions by recursion compute, a step at a time. *)

Reaches(re, p, t, N) ==
  re = [n \in 0..N |->
          IF n = 0 THEN {0}
          ELSE IF p[n] = "*" THEN {q \in 0..Len(t) : \E r \in re[n - 1] : r <= q}
          ELSE {q \in 1..Len(t) : q - 1 \in re[n - 1] /\ p[n] = t[q]}]

LEMMA ReachExists ==
  ASSUME NEW p, NEW t, NEW N \in Nat
  PROVE  \E re : Reaches(re, p, t, N)
<1> DEFINE S == {n \in 0..N : ~ \E re : Reaches(re, p, t, n)}
<1>1. 0 \notin S
  <2> DEFINE none == [n \in 0..0 |-> {0}]
  <2>1. Reaches(none, p, t, 0)
    BY DEF Reaches
  <2> QED BY <2>1
<1>2. ASSUME S # {} PROVE FALSE
  <2>1. PICK n \in 1..N : n \in S /\ n - 1 \in 0..N /\ n - 1 \notin S
    <3>1. S \in SUBSET (0..N)
      OBVIOUS
    <3> HIDE DEF S
    <3> QED BY <1>1, <1>2, <3>1, FirstWrong
  <2>2. PICK re : Reaches(re, p, t, n - 1)
    BY <2>1
  <2> DEFINE next(prev, m) ==
               IF p[m] = "*" THEN {q \in 0..Len(t) : \E r \in prev : r <= q}
               ELSE {q \in 1..Len(t) : q - 1 \in prev /\ p[m] = t[q]}
             more == [k \in 0..n |-> IF k = n THEN next(re[n - 1], n) ELSE re[k]]
  <2>3. \A k \in 0..(n - 1) : re[k] = IF k = 0 THEN {0} ELSE next(re[k - 1], k)
    BY <2>2 DEF Reaches
  <2>4. \A k \in 0..n : (k # n => k \in 0..(n - 1)) /\ (k # 0 => k - 1 \in 0..n /\ k - 1 # n)
    OBVIOUS
  <2>5. \A k \in 0..n : more[k] = IF k = 0 THEN {0} ELSE next(more[k - 1], k)
    <3> HIDE DEF next
    <3> QED BY <2>3, <2>4
  <2>6. more = [k \in 0..n |-> IF k = 0 THEN {0} ELSE next(more[k - 1], k)]
    <3> HIDE DEF next
    <3>1. more = [k \in 0..n |-> more[k]]
      OBVIOUS
    <3> HIDE DEF more
    <3> QED BY <2>5, <3>1
  <2>7. Reaches(more, p, t, n)
    BY <2>6 DEF Reaches
  <2> QED BY <2>1, <2>7
<1> QED BY <1>2

Splits(parts, p, N) ==
  parts = [n \in 0..N |->
             IF n = 0 THEN << <<>> >>
             ELSE IF p[n] = "*" THEN Append(parts[n - 1], <<>>)
             ELSE [parts[n - 1] EXCEPT ![Len(parts[n - 1])] = Append(@, p[n])]]

LEMMA SplitExists ==
  ASSUME NEW p, NEW N \in Nat
  PROVE  \E parts : Splits(parts, p, N)
<1> DEFINE S == {n \in 0..N : ~ \E parts : Splits(parts, p, n)}
<1>1. 0 \notin S
  <2> DEFINE none == [n \in 0..0 |-> << <<>> >>]
  <2>1. Splits(none, p, 0)
    BY DEF Splits
  <2> QED BY <2>1
<1>2. ASSUME S # {} PROVE FALSE
  <2>1. PICK n \in 1..N : n \in S /\ n - 1 \in 0..N /\ n - 1 \notin S
    <3>1. S \in SUBSET (0..N)
      OBVIOUS
    <3> HIDE DEF S
    <3> QED BY <1>1, <1>2, <3>1, FirstWrong
  <2>2. PICK parts : Splits(parts, p, n - 1)
    BY <2>1
  <2> DEFINE next(prev, m) == IF p[m] = "*" THEN Append(prev, <<>>)
                              ELSE [prev EXCEPT ![Len(prev)] = Append(@, p[m])]
             more == [k \in 0..n |-> IF k = n THEN next(parts[n - 1], n) ELSE parts[k]]
  <2>3. \A k \in 0..(n - 1) : parts[k] = IF k = 0 THEN << <<>> >> ELSE next(parts[k - 1], k)
    BY <2>2 DEF Splits
  <2>4. \A k \in 0..n : (k # n => k \in 0..(n - 1)) /\ (k # 0 => k - 1 \in 0..n /\ k - 1 # n)
    OBVIOUS
  <2>5. \A k \in 0..n : more[k] = IF k = 0 THEN << <<>> >> ELSE next(more[k - 1], k)
    <3> HIDE DEF next
    <3> QED BY <2>3, <2>4
  <2>6. more = [k \in 0..n |-> IF k = 0 THEN << <<>> >> ELSE next(more[k - 1], k)]
    <3> HIDE DEF next
    <3>1. more = [k \in 0..n |-> more[k]]
      OBVIOUS
    <3> HIDE DEF more
    <3> QED BY <2>5, <3>1
  <2>7. Splits(more, p, n)
    BY <2>6 DEF Splits
  <2> QED BY <2>1, <2>7
<1> QED BY <1>2

LEMMA SplitFacts ==
  ASSUME NEW p, NEW N \in Nat, NEW parts, Splits(parts, p, N)
  PROVE  /\ parts[0] = << <<>> >>
         /\ \A n \in 1..N : p[n] = "*" => parts[n] = Append(parts[n - 1], <<>>)
         /\ \A n \in 1..N : p[n] # "*" =>
              parts[n] = [parts[n - 1] EXCEPT ![Len(parts[n - 1])] = Append(@, p[n])]
<1> DEFINE next(prev, m) == IF p[m] = "*" THEN Append(prev, <<>>)
                            ELSE [prev EXCEPT ![Len(prev)] = Append(@, p[m])]
<1>1. \A n \in 0..N : parts[n] = IF n = 0 THEN << <<>> >> ELSE next(parts[n - 1], n)
  BY DEF Splits
<1>2. 0 \in 0..N /\ \A n \in 1..N : n \in 0..N /\ n # 0
  OBVIOUS
<1>3. parts[0] = << <<>> >> /\ \A n \in 1..N : parts[n] = next(parts[n - 1], n)
  <2> HIDE DEF next
  <2> QED BY <1>1, <1>2
<1> QED BY <1>3

Placing(pos, parts, t, N) ==
  pos = [i \in 0..N |-> IF i = 0 THEN 0 ELSE After(parts, t, i, pos[i - 1])]

LEMMA PlaceExists ==
  ASSUME NEW parts, NEW t, NEW N \in Nat
  PROVE  \E pos : Placing(pos, parts, t, N)
<1> DEFINE S == {n \in 0..N : ~ \E pos : Placing(pos, parts, t, n)}
<1>1. 0 \notin S
  <2> DEFINE none == [n \in 0..0 |-> 0]
  <2>1. Placing(none, parts, t, 0)
    BY DEF Placing
  <2> QED BY <2>1
<1>2. ASSUME S # {} PROVE FALSE
  <2>1. PICK n \in 1..N : n \in S /\ n - 1 \in 0..N /\ n - 1 \notin S
    <3>1. S \in SUBSET (0..N)
      OBVIOUS
    <3> HIDE DEF S
    <3> QED BY <1>1, <1>2, <3>1, FirstWrong
  <2>2. PICK pos : Placing(pos, parts, t, n - 1)
    BY <2>1
  <2> DEFINE more == [k \in 0..n |-> IF k = n THEN After(parts, t, n, pos[n - 1]) ELSE pos[k]]
  <2>3. \A k \in 0..(n - 1) : pos[k] = IF k = 0 THEN 0 ELSE After(parts, t, k, pos[k - 1])
    BY <2>2 DEF Placing
  <2>4. \A k \in 0..n : (k # n => k \in 0..(n - 1)) /\ (k # 0 => k - 1 \in 0..n /\ k - 1 # n)
    OBVIOUS
  <2>5. \A k \in 0..n : more[k] = IF k = 0 THEN 0 ELSE After(parts, t, k, more[k - 1])
    BY <2>3, <2>4
  <2>6. Placing(more, parts, t, n)
    <3>1. more = [k \in 0..n |-> more[k]]
      OBVIOUS
    <3> HIDE DEF more
    <3> QED BY <2>5, <3>1 DEF Placing
  <2> QED BY <2>1, <2>6
<1> QED BY <1>2

------------------------------------------------------------------------------
(* What is reached by a run of characters that are no star, and by a star. *)
Spread(S, t) == {q \in 0..Len(t) : \E r \in S : r <= q}

LEMMA ReachedFacts ==
  ASSUME NEW p, NEW t, Len(t) \in Nat, NEW N \in Nat, NEW re, Reaches(re, p, t, N)
  PROVE  /\ re[0] = {0}
         /\ \A n \in 0..N : re[n] \subseteq 0..Len(t)
         /\ \A n \in 1..N : p[n] = "*" => re[n] = Spread(re[n - 1], t)
         /\ \A n \in 1..N : p[n] # "*" =>
              re[n] = {q \in 1..Len(t) : q - 1 \in re[n - 1] /\ p[n] = t[q]}
<1>1. re[0] = {0}
  BY DEF Reaches
<1>2. \A n \in 1..N : n \in 0..N /\ n # 0
  OBVIOUS
<1>3. \A n \in 1..N : p[n] = "*" => re[n] = Spread(re[n - 1], t)
  BY <1>2 DEF Reaches, Spread
<1>4. \A n \in 1..N : p[n] # "*" =>
              re[n] = {q \in 1..Len(t) : q - 1 \in re[n - 1] /\ p[n] = t[q]}
  BY <1>2 DEF Reaches
<1>5. \A n \in 0..N : n = 0 \/ n \in 1..N
  OBVIOUS
<1>6. \A n \in 0..N : re[n] \subseteq 0..Len(t)
  BY <1>1, <1>3, <1>4, <1>5 DEF Spread
<1> QED BY <1>1, <1>3, <1>4, <1>6

(* The run of k characters of the pattern after n, read before q.          *)
Reads(p, t, n, k, q) == \A j \in 1..k : p[n + j] = t[q - k + j]

(* A run of characters that are no star is read as it stands. *)
LEMMA RunFacts ==
  ASSUME NEW p, NEW t, Len(t) \in Nat, NEW N \in Nat, NEW re, Reaches(re, p, t, N),
         NEW n \in 0..N, NEW K \in Nat, n + K \in 0..N,
         \A j \in 1..K : p[n + j] # "*"
  PROVE  \A q \in 0..Len(t) :
           q \in re[n + K] <=> q >= K /\ q - K \in re[n] /\ Reads(p, t, n, K, q)
<1> DEFINE Right(k) == \A q \in 0..Len(t) :
              q \in re[n + k] <=> q >= k /\ q - k \in re[n] /\ Reads(p, t, n, k, q)
           S == {k \in 0..K : ~ Right(k)}
<1>1. 0 \notin S
  <2>1. \A q \in 0..Len(t) : Reads(p, t, n, 0, q) /\ q - 0 = q /\ q >= 0
    BY DEF Reads
  <2>2. n + 0 = n
    OBVIOUS
  <2>3. Right(0)
    BY <2>1, <2>2
  <2> QED BY <2>3
<1>2. ASSUME S # {} PROVE FALSE
  <2>1. PICK k \in 1..K : k \in S /\ k - 1 \in 0..K /\ k - 1 \notin S
    <3>1. S \in SUBSET (0..K)
      OBVIOUS
    <3> HIDE DEF S
    <3> QED BY <1>1, <1>2, <3>1, FirstWrong
  <2>2. Right(k - 1)
    BY <2>1
  <2>3. n + k \in 1..N /\ n + (k - 1) = (n + k) - 1 /\ p[n + k] # "*"
    <3> HIDE DEF S
    <3>1. n \in Nat /\ k \in Nat /\ k >= 1 /\ k <= K /\ n + K <= N
      OBVIOUS
    <3>2. n + k \in 1..N /\ n + (k - 1) = (n + k) - 1
      BY <3>1
    <3> QED BY <3>2
  <2>4. re[n + k] = {q \in 1..Len(t) : q - 1 \in re[(n + k) - 1] /\ p[n + k] = t[q]}
    BY <2>3, ReachedFacts
  <2>5. ASSUME NEW q \in 0..Len(t)
        PROVE  q \in re[n + k] <=> q >= k /\ q - k \in re[n] /\ Reads(p, t, n, k, q)
    <3>1. CASE q = 0
      <4>1. q \notin re[n + k] /\ ~ (q >= k)
        BY <2>4, <3>1
      <4> QED BY <4>1
    <3>2. CASE q # 0
      <4>1. q \in 1..Len(t) /\ q - 1 \in 0..Len(t) /\ (q - 1) - (k - 1) = q - k
            /\ (q - 1 >= k - 1 <=> q >= k)
        BY <3>2
      <4>2. q - 1 \in re[(n + k) - 1] <=>
              q >= k /\ q - k \in re[n] /\ Reads(p, t, n, k - 1, q - 1)
        BY <2>2, <2>3, <4>1
      <4>3. Reads(p, t, n, k, q) <=> Reads(p, t, n, k - 1, q - 1) /\ p[n + k] = t[q]
        <5>1. \A j \in 1..(k - 1) : j \in 1..k /\ (q - 1) - (k - 1) + j = q - k + j
          BY <4>1
        <5>2. k \in 1..k /\ q - k + k = q
          OBVIOUS
        <5>3. \A j \in 1..k : j = k \/ j \in 1..(k - 1)
          OBVIOUS
        <5> QED BY <5>1, <5>2, <5>3 DEF Reads
      <4> QED BY <2>4, <4>1, <4>2, <4>3
    <3> QED BY <3>1, <3>2
  <2> QED BY <2>1, <2>5
<1>3. K \in 0..K
  OBVIOUS
<1>4. \A k \in 0..K : Right(k)
  <2> HIDE DEF Right
  <2> QED BY <1>2
<1> QED BY <1>3, <1>4

------------------------------------------------------------------------------
(* The segments and where they lie in the pattern. *)
(* Segment i is what follows off[i]; between segments lies a star.         *)
Lie(parts, off, p, n) ==
  /\ Len(parts) \in Nat /\ Len(parts) > 0
  /\ \A i \in 1..Len(parts) :
       /\ Len(parts[i]) \in Nat /\ off[i] \in 0..n /\ off[i] + Len(parts[i]) \in 0..n
       /\ \A k \in 1..Len(parts[i]) : parts[i][k] = p[off[i] + k] /\ p[off[i] + k] # "*"
  /\ \A i \in 2..Len(parts) : p[off[i]] = "*" /\ off[i] = off[i - 1] + Len(parts[i - 1]) + 1
  /\ off[1] = 0
  /\ off[Len(parts)] + Len(parts[Len(parts)]) = n

(* str::split cuts the pattern so. *)
LEMMA SegmentFacts ==
  ASSUME NEW C, NEW p \in Seq(C)
  PROVE  /\ Segments(p) \in Seq(Seq(C))
         /\ \E off : Lie(Segments(p), off, p, Len(p))
<1> DEFINE N == Len(p)
<1>1. N \in Nat /\ \A n \in 1..N : p[n] \in C
  OBVIOUS
<1>2. PICK sp : Splits(sp, p, N) /\ Segments(p) = sp[N]
  <2>1. Segments(p) = (CHOOSE sp : Splits(sp, p, N))[N]
    BY DEF Segments, Splits
  <2> QED BY <1>1, <2>1, SplitExists
<1> DEFINE Good(n) == sp[n] \in Seq(Seq(C)) /\ \E off : Lie(sp[n], off, p, n)
           S == {n \in 0..N : ~ Good(n)}
<1> HIDE DEF N
<1>3. 0 \notin S
  <2>1. sp[0] = << <<>> >>
    BY <1>1, <1>2, SplitFacts
  <2>2. sp[0] \in Seq(Seq(C)) /\ Len(sp[0]) = 1 /\ sp[0][1] = <<>> /\ Len(sp[0][1]) = 0
    BY <2>1
  <2>3. Lie(sp[0], [i \in 1..1 |-> 0], p, 0)
    BY <2>2 DEF Lie
  <2> QED BY <2>2, <2>3
<1>4. ASSUME S # {} PROVE FALSE
  <2>1. PICK n \in 1..N : n \in S /\ n - 1 \in 0..N /\ n - 1 \notin S
    <3>1. S \in SUBSET (0..N)
      OBVIOUS
    <3> HIDE DEF S
    <3> QED BY <1>1, <1>3, <1>4, <3>1, FirstWrong
  <2> DEFINE had == sp[n - 1]
             last == Len(had)
  <2>2. PICK off : had \in Seq(Seq(C)) /\ Lie(had, off, p, n - 1)
    BY <2>1
  <2>3. sp[n] = IF p[n] = "*" THEN Append(had, <<>>)
                ELSE [had EXCEPT ![last] = Append(had[last], p[n])]
    <3>1. /\ p[n] = "*" => sp[n] = Append(sp[n - 1], <<>>)
          /\ p[n] # "*" => sp[n] = [sp[n - 1] EXCEPT ![Len(sp[n - 1])] = Append(@, p[n])]
      <4> HIDE DEF S
      <4> QED BY <1>1, <1>2, SplitFacts
    <3> QED BY <3>1
  <2>4. p[n] \in C /\ last \in Nat /\ last > 0 /\ \A i \in 1..last : had[i] \in Seq(C)
    BY <1>1, <2>2 DEF Lie
  <2> HIDE DEF had, last
  <2>5. CASE p[n] = "*"
    <3> DEFINE new == Append(had, <<>>)
               to == [i \in 1..(last + 1) |-> IF i = last + 1 THEN n ELSE off[i]]
    <3>1. /\ new \in Seq(Seq(C)) /\ Len(new) = last + 1 /\ new[last + 1] = <<>>
          /\ \A i \in 1..last : new[i] = had[i]
      BY <2>2, <2>4 DEF last
    <3> HIDE DEF new
    <3>2. Lie(new, to, p, n)
      <4>1. \A i \in 1..(last + 1) : i = last + 1 \/ i \in 1..last
        BY <2>4
      <4>2. \A i \in 1..last :
              /\ Len(had[i]) \in Nat /\ off[i] \in 0..n /\ off[i] + Len(had[i]) \in 0..n
              /\ \A k \in 1..Len(had[i]) : had[i][k] = p[off[i] + k] /\ p[off[i] + k] # "*"
        <5>1. \A x \in 0..(n - 1) : x \in 0..n
          OBVIOUS
        <5> QED BY <2>2, <5>1 DEF Lie, last
      <4>3. \A i \in 1..(last + 1) :
              /\ Len(new[i]) \in Nat /\ to[i] \in 0..n /\ to[i] + Len(new[i]) \in 0..n
              /\ \A k \in 1..Len(new[i]) : new[i][k] = p[to[i] + k] /\ p[to[i] + k] # "*"
        <5>1. to[last + 1] = n /\ \A i \in 1..last : to[i] = off[i]
          BY <2>4
        <5>2. n \in 0..n /\ n + 0 \in 0..n /\ Len(new[last + 1]) = 0
          BY <3>1
        <5> HIDE DEF to
        <5>3. \A i \in 1..last :
              /\ Len(new[i]) \in Nat /\ to[i] \in 0..n /\ to[i] + Len(new[i]) \in 0..n
              /\ \A k \in 1..Len(new[i]) : new[i][k] = p[to[i] + k] /\ p[to[i] + k] # "*"
          <6> SUFFICES ASSUME NEW i \in 1..last
                       PROVE  /\ Len(new[i]) \in Nat /\ to[i] \in 0..n /\ to[i] + Len(new[i]) \in 0..n
                              /\ \A k \in 1..Len(new[i]) : new[i][k] = p[to[i] + k] /\ p[to[i] + k] # "*"
            OBVIOUS
          <6>1. new[i] = had[i] /\ to[i] = off[i]
            BY <3>1, <5>1
          <6> QED BY <4>2, <6>1
        <5>4. /\ Len(new[last + 1]) \in Nat /\ to[last + 1] \in 0..n
              /\ to[last + 1] + Len(new[last + 1]) \in 0..n /\ 1..Len(new[last + 1]) = {}
          <6> DEFINE more == Len(new[last + 1])
          <6>1. more = 0 /\ to[last + 1] = n
            BY <5>1, <5>2
          <6> HIDE DEF more
          <6> QED BY <5>2, <6>1 DEF more
        <5> QED BY <4>1, <5>3, <5>4
      <4>4. \A i \in 2..(last + 1) : p[to[i]] = "*" /\ to[i] = to[i - 1] + Len(new[i - 1]) + 1
        <5> SUFFICES ASSUME NEW i \in 2..(last + 1)
                     PROVE  p[to[i]] = "*" /\ to[i] = to[i - 1] + Len(new[i - 1]) + 1
          OBVIOUS
        <5>1. i - 1 \in 1..last /\ i - 1 # last + 1
          BY <2>4
        <5>2. CASE i = last + 1
          <6>1. off[last] + Len(had[last]) = n - 1
            BY <2>2 DEF Lie, last
          <6> QED BY <2>4, <2>5, <3>1, <5>1, <5>2, <6>1
        <5>3. CASE i # last + 1
          <6>1. i \in 2..last
            BY <2>4, <5>3
          <6>2. p[off[i]] = "*" /\ off[i] = off[i - 1] + Len(had[i - 1]) + 1
            BY <2>2, <6>1 DEF Lie, last
          <6>3. to[i] = off[i] /\ to[i - 1] = off[i - 1] /\ new[i - 1] = had[i - 1]
            <7>1. new[i - 1] = had[i - 1]
              BY <3>1, <5>1
            <7>2. i \in 1..(last + 1) /\ i - 1 \in 1..(last + 1)
              BY <2>4, <5>1
            <7> QED BY <5>1, <5>3, <7>1, <7>2
          <6> QED BY <6>2, <6>3
        <5> QED BY <5>2, <5>3
      <4>5. to[1] = 0
        BY <2>2, <2>4 DEF Lie
      <4>6. to[last + 1] + Len(new[last + 1]) = n
        BY <2>4, <3>1
      <4> HIDE DEF to
      <4> QED BY <2>4, <3>1, <4>3, <4>4, <4>5, <4>6 DEF Lie
    <3> QED BY <2>1, <2>3, <2>5, <3>1, <3>2 DEF new
  <2>6. CASE p[n] # "*"
    <3> DEFINE new == [had EXCEPT ![last] = Append(had[last], p[n])]
    <3>0. last \in 1..last
      BY <2>4
    <3>1. /\ Append(had[last], p[n]) \in Seq(C)
          /\ Len(Append(had[last], p[n])) = Len(had[last]) + 1
          /\ Len(had[last]) \in Nat
          /\ Append(had[last], p[n])[Len(had[last]) + 1] = p[n]
          /\ \A k \in 1..Len(had[last]) : Append(had[last], p[n])[k] = had[last][k]
      BY <2>4, <3>0, AppendProperties, LenProperties
    <3>2. /\ new \in Seq(Seq(C)) /\ Len(new) = last
          /\ new[last] = Append(had[last], p[n])
          /\ \A i \in 1..last : i # last => new[i] = had[i]
      BY <2>2, <2>4, <3>0, <3>1 DEF last
    <3> HIDE DEF new
    <3>3. Lie(new, off, p, n)
      <4>1. \A i \in 1..last :
              /\ Len(had[i]) \in Nat /\ off[i] \in 0..n /\ off[i] + Len(had[i]) \in 0..(n - 1)
              /\ \A k \in 1..Len(had[i]) : had[i][k] = p[off[i] + k] /\ p[off[i] + k] # "*"
        <5>1. \A x \in 0..(n - 1) : x \in 0..n
          OBVIOUS
        <5> QED BY <2>2, <5>1 DEF Lie, last
      <4>2. off[last] + Len(had[last]) = n - 1
        BY <2>2 DEF Lie, last
      <4>3. \A i \in 1..last :
              /\ Len(new[i]) \in Nat /\ off[i] \in 0..n /\ off[i] + Len(new[i]) \in 0..n
              /\ \A k \in 1..Len(new[i]) : new[i][k] = p[off[i] + k] /\ p[off[i] + k] # "*"
        <5> SUFFICES ASSUME NEW i \in 1..last
                     PROVE  /\ Len(new[i]) \in Nat /\ off[i] \in 0..n /\ off[i] + Len(new[i]) \in 0..n
                            /\ \A k \in 1..Len(new[i]) : new[i][k] = p[off[i] + k] /\ p[off[i] + k] # "*"
          OBVIOUS
        <5>1. CASE i # last
          <6>1. \A x \in 0..(n - 1) : x \in 0..n
            OBVIOUS
          <6>2. new[i] = had[i]
            BY <3>2, <5>1
          <6>3. /\ Len(had[i]) \in Nat /\ off[i] \in 0..n /\ off[i] + Len(had[i]) \in 0..n
                /\ \A k \in 1..Len(had[i]) : had[i][k] = p[off[i] + k] /\ p[off[i] + k] # "*"
            BY <4>1, <6>1
          <6> QED BY <6>2, <6>3
        <5>2. CASE i = last
          <6>1. off[last] \in 0..n /\ Len(new[last]) = Len(had[last]) + 1
            BY <3>0, <3>1, <3>2, <4>1
          <6>2. off[last] + Len(new[last]) = n
            BY <3>1, <4>2, <6>1, n \in Nat
          <6>3. ASSUME NEW k \in 1..Len(new[last])
                PROVE  new[last][k] = p[off[last] + k] /\ p[off[last] + k] # "*"
            <7>1. k = Len(had[last]) + 1 \/ k \in 1..Len(had[last])
              BY <3>1, <6>1
            <7>2. off[last] + (Len(had[last]) + 1) = n
              <8>1. Len(had[last]) \in Nat /\ off[last] \in Nat /\ n \in Nat
                BY <3>1, <6>1
              <8> HIDE DEF S
              <8> QED BY <4>2, <8>1
            <7>3. CASE k = Len(had[last]) + 1
              <8>1. new[last][k] = p[n]
                BY <3>1, <3>2, <7>3
              <8> QED BY <2>6, <7>2, <7>3, <8>1
            <7>4. CASE k \in 1..Len(had[last])
              <8>1. new[last][k] = had[last][k]
                BY <3>1, <3>2, <7>4
              <8>2. had[last][k] = p[off[last] + k] /\ p[off[last] + k] # "*"
                BY <3>0, <4>1, <7>4
              <8> QED BY <8>1, <8>2
            <7> QED BY <7>1, <7>3, <7>4
          <6>4. Len(new[last]) \in Nat /\ off[last] + Len(new[last]) \in 0..n
            BY <3>1, <6>1, <6>2
          <6> QED BY <5>2, <6>1, <6>3, <6>4
        <5> QED BY <5>1, <5>2
      <4>4. \A i \in 2..last : p[off[i]] = "*" /\ off[i] = off[i - 1] + Len(new[i - 1]) + 1
        <5>1. \A i \in 2..last : i - 1 \in 1..last /\ i - 1 # last
          BY <2>4
        <5>2. \A i \in 2..last : p[off[i]] = "*" /\ off[i] = off[i - 1] + Len(had[i - 1]) + 1
          BY <2>2 DEF Lie, last
        <5>3. \A i \in 2..last : new[i - 1] = had[i - 1]
          BY <3>2, <5>1
        <5> QED BY <5>2, <5>3
      <4>5. off[last] + Len(new[last]) = n
        <5>1. off[last] \in 0..n /\ Len(new[last]) = Len(had[last]) + 1
          BY <3>0, <3>1, <3>2, <4>1
        <5>2. Len(had[last]) \in Nat /\ n \in Nat
          BY <3>1
        <5> HIDE DEF S
        <5> QED BY <4>2, <5>1, <5>2
      <4>6. off[1] = 0
        BY <2>2 DEF Lie
      <4> QED BY <2>4, <3>2, <4>3, <4>4, <4>5, <4>6 DEF Lie
    <3> QED BY <2>1, <2>3, <2>6, <3>2, <3>3 DEF new
  <2> QED BY <2>5, <2>6
<1>5. N \in 0..N
  BY <1>1
<1> QED BY <1>2, <1>4, <1>5 DEF N

------------------------------------------------------------------------------
(* A segment as a prefix or a suffix of what is left of the text. *)
Fits(seg, t, n) == n + Len(seg) <= Len(t) /\ \A k \in 1..Len(seg) : seg[k] = t[n + k]

LEMMA PrefixMeans ==
  ASSUME NEW C, NEW seg \in Seq(C), NEW t \in Seq(C), NEW n \in 0..Len(t)
  PROVE  IsPrefix(seg, Rest(t, n)) <=> Fits(seg, t, n)
<1> DEFINE r == Rest(t, n)
<1>1. Len(seg) \in Nat /\ Len(t) \in Nat
  OBVIOUS
<1>2. r \in Seq(C) /\ Len(r) = Len(t) - n /\ \A k \in 1..(Len(t) - n) : r[k] = t[n + k]
  <2>1. n + 1 \in 1..(Len(t) + 1) /\ Len(t) \in 0..Len(t)
    BY <1>1
  <2>2. r = [k \in 1..(Len(t) - n) |-> t[n + k]]
    <3>1. r = [k \in 1..(Len(t) - (n + 1) + 1) |-> t[(n + 1) + k - 1]]
      BY <1>1 DEF Rest
    <3>2. Len(t) - (n + 1) + 1 = Len(t) - n /\ \A k \in 1..(Len(t) - n) : (n + 1) + k - 1 = n + k
      BY <1>1
    <3> QED BY <3>1, <3>2
  <2>3. \A k \in 1..(Len(t) - n) : t[n + k] \in C
    BY <1>1
  <2>4. Len(t) - n \in Nat
    BY <1>1
  <2> QED BY <2>2, <2>3, <2>4
<1> HIDE DEF r
<1>3. CASE Len(seg) <= Len(t) - n
  <2>1. SubSeq(seg, 1, Len(seg)) = [k \in 1..Len(seg) |-> seg[k]]
    BY <1>1
  <2>2. SubSeq(r, 1, Len(seg)) = [k \in 1..Len(seg) |-> r[k]]
    BY <1>1, <1>2, <1>3
  <2>3. \A k \in 1..Len(seg) : r[k] = t[n + k]
    BY <1>1, <1>2, <1>3
  <2>4. SubSeq(seg, 1, Len(seg)) = SubSeq(r, 1, Len(seg)) <=> \A k \in 1..Len(seg) : seg[k] = t[n + k]
    BY <2>1, <2>2, <2>3
  <2>5. IsPrefix(seg, r) <=> \A k \in 1..Len(seg) : seg[k] = t[n + k]
    BY <1>1, <1>2, <1>3, <2>4 DEF IsPrefix
  <2>6. n + Len(seg) <= Len(t)
    BY <1>1, <1>3
  <2> QED BY <2>5, <2>6 DEF Fits, r
<1>4. CASE ~ (Len(seg) <= Len(t) - n)
  <2>1. ~ IsPrefix(seg, r)
    BY <1>1, <1>2, <1>4 DEF IsPrefix
  <2>2. ~ (n + Len(seg) <= Len(t))
    BY <1>1, <1>4
  <2> QED BY <2>1, <2>2 DEF Fits, r
<1> QED BY <1>3, <1>4

LEMMA SuffixMeans ==
  ASSUME NEW C, NEW seg \in Seq(C), NEW t \in Seq(C), NEW n \in 0..Len(t)
  PROVE  IsSuffix(seg, Rest(t, n)) <=>
           n + Len(seg) <= Len(t) /\ Fits(seg, t, Len(t) - Len(seg))
<1> DEFINE r == Rest(t, n)
<1>1. Len(seg) \in Nat /\ Len(t) \in Nat
  OBVIOUS
<1>2. r \in Seq(C) /\ Len(r) = Len(t) - n /\ \A k \in 1..(Len(t) - n) : r[k] = t[n + k]
  <2>2. r = [k \in 1..(Len(t) - n) |-> t[n + k]]
    <3>1. r = [k \in 1..(Len(t) - (n + 1) + 1) |-> t[(n + 1) + k - 1]]
      BY <1>1 DEF Rest
    <3>2. Len(t) - (n + 1) + 1 = Len(t) - n /\ \A k \in 1..(Len(t) - n) : (n + 1) + k - 1 = n + k
      BY <1>1
    <3> QED BY <3>1, <3>2
  <2>3. \A k \in 1..(Len(t) - n) : t[n + k] \in C
    BY <1>1
  <2>4. Len(t) - n \in Nat
    BY <1>1
  <2> QED BY <2>2, <2>3, <2>4
<1> HIDE DEF r
<1> DEFINE s == Reverse(seg)
           u == Reverse(r)
<1>3. /\ s \in Seq(C) /\ Len(s) = Len(seg) /\ \A k \in 1..Len(seg) : s[k] = seg[(Len(seg) - k) + 1]
      /\ u \in Seq(C) /\ Len(u) = Len(r) /\ \A k \in 1..Len(r) : u[k] = r[(Len(r) - k) + 1]
  <2>1. \A k \in 1..Len(seg) : (Len(seg) - k) + 1 \in 1..Len(seg)
    BY <1>1
  <2>2. Len(r) \in Nat /\ \A k \in 1..Len(r) : (Len(r) - k) + 1 \in 1..Len(r)
    BY <1>1, <1>2
  <2> QED BY <1>1, <1>2, <2>1, <2>2 DEF Reverse
<1> HIDE DEF s, u
<1>4. CASE Len(seg) <= Len(t) - n
  <2>1. SubSeq(s, 1, Len(seg)) = [k \in 1..Len(seg) |-> s[k]]
    BY <1>1, <1>3
  <2>2. SubSeq(u, 1, Len(seg)) = [k \in 1..Len(seg) |-> u[k]]
    BY <1>1, <1>2, <1>3, <1>4
  <2>3. IsPrefix(s, u) <=> \A k \in 1..Len(seg) : s[k] = u[k]
    <3>1. Len(s) = Len(seg) /\ Len(s) <= Len(u)
      BY <1>1, <1>2, <1>3, <1>4
    <3>2. IsPrefix(s, u) <=> SubSeq(s, 1, Len(seg)) = SubSeq(u, 1, Len(seg))
      BY <3>1 DEF IsPrefix
    <3>3. [k \in 1..Len(seg) |-> s[k]] = [k \in 1..Len(seg) |-> u[k]]
            <=> \A k \in 1..Len(seg) : s[k] = u[k]
      OBVIOUS
    <3> QED BY <2>1, <2>2, <3>2, <3>3
  <2>4. \A k \in 1..Len(seg) : u[k] = t[(Len(t) - k) + 1]
    <3> SUFFICES ASSUME NEW k \in 1..Len(seg) PROVE u[k] = t[(Len(t) - k) + 1]
      OBVIOUS
    <3>1. k \in 1..Len(r) /\ (Len(r) - k) + 1 \in 1..(Len(t) - n)
          /\ n + ((Len(r) - k) + 1) = (Len(t) - k) + 1
      BY <1>1, <1>2, <1>4
    <3>2. u[k] = r[(Len(r) - k) + 1]
      BY <1>3, <3>1
    <3> QED BY <1>2, <3>1, <3>2
  <2>5. ASSUME \A k \in 1..Len(seg) : s[k] = u[k], NEW k \in 1..Len(seg)
        PROVE  seg[k] = t[Len(t) - Len(seg) + k]
    <3> DEFINE j == (Len(seg) - k) + 1
    <3>1. j \in 1..Len(seg) /\ (Len(seg) - j) + 1 = k /\ (Len(t) - j) + 1 = Len(t) - Len(seg) + k
      BY <1>1
    <3>2. s[j] = seg[(Len(seg) - j) + 1] /\ u[j] = t[(Len(t) - j) + 1] /\ s[j] = u[j]
      BY <1>3, <2>4, <2>5, <3>1
    <3> QED BY <3>1, <3>2
  <2>6. ASSUME \A k \in 1..Len(seg) : seg[k] = t[Len(t) - Len(seg) + k], NEW j \in 1..Len(seg)
        PROVE  s[j] = u[j]
    <3> DEFINE k == (Len(seg) - j) + 1
    <3>1. k \in 1..Len(seg) /\ (Len(t) - j) + 1 = Len(t) - Len(seg) + k
      BY <1>1
    <3>2. s[j] = seg[k] /\ u[j] = t[(Len(t) - j) + 1]
      BY <1>3, <2>4
    <3> QED BY <2>6, <3>1, <3>2
  <2>7. n + Len(seg) <= Len(t) /\ (Len(t) - Len(seg)) + Len(seg) <= Len(t)
    BY <1>1, <1>4
  <2>8. IsPrefix(s, u) <=> Fits(seg, t, Len(t) - Len(seg))
    BY <2>3, <2>5, <2>6, <2>7 DEF Fits
  <2> QED BY <2>7, <2>8 DEF IsSuffix, r, s, u
<1>5. CASE ~ (Len(seg) <= Len(t) - n)
  <2>1. ~ IsPrefix(s, u)
    BY <1>1, <1>2, <1>3, <1>5 DEF IsPrefix
  <2>2. ~ (n + Len(seg) <= Len(t))
    BY <1>1, <1>5
  <2> QED BY <2>1, <2>2 DEF IsSuffix, r, s, u
<1> QED BY <1>4, <1>5

------------------------------------------------------------------------------
EndOf(parts, off, i) == off[i] + Len(parts[i])

(* Where a segment can end that starts where S says. *)
EndsOf(S, seg, t) == {n + Len(seg) : n \in {m \in S : Fits(seg, t, m)}}

(* A segment ends where it fits, from where the text was read to before.   *)
LEMMA SegmentReach ==
  ASSUME NEW C, NEW p \in Seq(C), NEW t \in Seq(C), NEW re, Reaches(re, p, t, Len(p)),
         NEW parts \in Seq(Seq(C)), NEW off, Lie(parts, off, p, Len(p)),
         NEW i \in 1..Len(parts)
  PROVE  re[EndOf(parts, off, i)] = EndsOf(re[off[i]], parts[i], t)
<1> DEFINE seg == parts[i]
           K == Len(seg)
           e == off[i] + K
<1>1. /\ K \in Nat /\ off[i] \in 0..Len(p) /\ e \in 0..Len(p)
      /\ \A k \in 1..K : seg[k] = p[off[i] + k] /\ p[off[i] + k] # "*"
  BY DEF Lie
<1>2. Len(p) \in Nat /\ Len(t) \in Nat
  OBVIOUS
<1> HIDE DEF seg, K
<1>3. \A q \in 0..Len(t) :
        q \in re[e] <=> q >= K /\ q - K \in re[off[i]] /\ Reads(p, t, off[i], K, q)
  BY <1>1, <1>2, RunFacts
<1>4. re[e] \subseteq 0..Len(t) /\ re[off[i]] \subseteq 0..Len(t)
  <2> HIDE DEF e
  <2> QED BY <1>1, <1>2, ReachedFacts
<1> HIDE DEF e
<1>5. \A n \in 0..Len(t) : n + K \in 0..Len(t) =>
        (Fits(seg, t, n) <=> Reads(p, t, off[i], K, n + K))
  <2> SUFFICES ASSUME NEW n \in 0..Len(t), n + K \in 0..Len(t)
               PROVE  Fits(seg, t, n) <=> Reads(p, t, off[i], K, n + K)
    OBVIOUS
  <2>1. (n + K) - K = n /\ n + K <= Len(t)
    BY <1>1, <1>2
  <2> QED BY <1>1, <2>1 DEF Fits, Reads, K
<1>6. ASSUME NEW q \in re[e] PROVE q \in EndsOf(re[off[i]], seg, t)
  <2>1. q \in 0..Len(t) /\ q >= K /\ q - K \in re[off[i]] /\ Reads(p, t, off[i], K, q)
    BY <1>3, <1>4, <1>6
  <2>2. q - K \in 0..Len(t) /\ (q - K) + K = q
    BY <1>1, <1>4, <2>1
  <2>3. Fits(seg, t, q - K)
    BY <1>5, <2>1, <2>2
  <2> QED BY <2>1, <2>2, <2>3 DEF EndsOf, K
<1>7. ASSUME NEW q \in EndsOf(re[off[i]], seg, t) PROVE q \in re[e]
  <2>1. PICK n \in re[off[i]] : Fits(seg, t, n) /\ q = n + K
    BY <1>7 DEF EndsOf, K
  <2>2. n \in 0..Len(t) /\ q \in 0..Len(t) /\ q >= K /\ q - K = n
    BY <1>1, <1>2, <1>4, <2>1 DEF Fits, K
  <2> QED BY <1>3, <1>5, <2>1, <2>2
<1> QED BY <1>6, <1>7 DEF EndOf, e, seg, K

(* After a segment that is not the last, pos is the least the text may be  *)
(* read to, or nothing is reached.                                         *)
Least(pos, reached) ==
  \/ pos = NotFound /\ reached = {}
  \/ pos # NotFound /\ pos \in reached /\ \A q \in reached : pos <= q

(* The first segment is a prefix of the text. *)
LEMMA FirstPlaced ==
  ASSUME NEW C, NEW t \in Seq(C), NEW parts, NEW seg \in Seq(C), parts[1] = seg
  PROVE  Least(After(parts, t, 1, 0), EndsOf({0}, seg, t))
<1>1. Len(seg) \in Nat /\ Len(t) \in Nat /\ (seg = <<>> <=> Len(seg) = 0) /\ 0 \in 0..Len(t)
  OBVIOUS
<1>2. 0 # NotFound /\ Len(seg) # NotFound /\ 0 + Len(seg) = Len(seg)
  BY <1>1 DEF NotFound
<1>3. Rest(t, 0) = t
  BY <1>1 DEF Rest
<1>4. IsPrefix(seg, t) <=> Fits(seg, t, 0)
  BY <1>1, <1>3, PrefixMeans
<1>5. CASE Fits(seg, t, 0)
  <2>1. EndsOf({0}, seg, t) = {Len(seg)}
    BY <1>2, <1>5 DEF EndsOf
  <2>2. After(parts, t, 1, 0) = Len(seg)
    BY <1>1, <1>2, <1>4, <1>5 DEF After
  <2> QED BY <1>1, <1>2, <2>1, <2>2 DEF Least
<1>6. CASE ~ Fits(seg, t, 0)
  <2>1. EndsOf({0}, seg, t) = {}
    BY <1>6 DEF EndsOf
  <2>2. seg # <<>>
    BY <1>1, <1>6 DEF Fits
  <2>3. After(parts, t, 1, 0) = NotFound
    BY <1>2, <1>4, <1>6, <2>2 DEF After
  <2> QED BY <2>1, <2>3 DEF Least
<1> QED BY <1>5, <1>6

(* What a star reaches: all from where the segment before it ends. *)
AllFrom(pos, t) == IF pos = NotFound THEN {} ELSE pos..Len(t)

LEMMA StarReach ==
  ASSUME NEW C, NEW p \in Seq(C), NEW t \in Seq(C), NEW re, Reaches(re, p, t, Len(p)),
         NEW parts \in Seq(Seq(C)), NEW off, Lie(parts, off, p, Len(p)),
         NEW i \in 2..Len(parts), NEW pos, Least(pos, re[EndOf(parts, off, i - 1)])
  PROVE  re[off[i]] = AllFrom(pos, t) /\ (pos # NotFound => pos \in 0..Len(t))
<1> DEFINE e == EndOf(parts, off, i - 1)
<1>1. Len(p) \in Nat /\ Len(t) \in Nat /\ i - 1 \in 1..Len(parts) /\ i \in 1..Len(parts)
  OBVIOUS
<1>2. e \in 0..Len(p) /\ off[i] \in 0..Len(p) /\ p[off[i]] = "*" /\ off[i] = e + 1
  BY <1>1 DEF Lie, EndOf
<1> HIDE DEF e
<1>3. off[i] \in 1..Len(p) /\ off[i] - 1 = e
  BY <1>1, <1>2
<1>4. re[off[i]] = Spread(re[e], t) /\ re[e] \subseteq 0..Len(t)
  <2>1. /\ \A n \in 0..Len(p) : re[n] \subseteq 0..Len(t)
        /\ \A n \in 1..Len(p) : p[n] = "*" => re[n] = Spread(re[n - 1], t)
    BY <1>1, ReachedFacts
  <2> QED BY <1>2, <1>3, <2>1
<1>5. Least(pos, re[e])
  BY DEF e
<1>6. CASE pos = NotFound
  BY <1>4, <1>5, <1>6 DEF Least, AllFrom, Spread
<1>7. CASE pos # NotFound
  <2>1. pos \in re[e] /\ pos \in 0..Len(t) /\ \A q \in re[e] : pos <= q
    BY <1>4, <1>5, <1>7 DEF Least
  <2>2. ASSUME NEW q \in 0..Len(t) PROVE (\E r \in re[e] : r <= q) <=> pos <= q
    <3>1. ASSUME NEW r \in re[e], r <= q PROVE pos <= q
      <4>1. r \in 0..Len(t) /\ pos <= r
        BY <1>4, <2>1
      <4> QED BY <1>1, <2>1, <3>1, <4>1
    <3> QED BY <2>1, <3>1
  <2>3. \A q : q \in pos..Len(t) <=> q \in 0..Len(t) /\ pos <= q
    BY <1>1, <2>1
  <2> QED BY <1>4, <1>7, <2>1, <2>2, <2>3 DEF AllFrom, Spread
<1> QED BY <1>6, <1>7

(* A segment in the middle goes where it first fits. *)
LEMMA NextPlaced ==
  ASSUME NEW C, NEW t \in Seq(C), NEW parts \in Seq(Seq(C)), NEW i \in 2..Len(parts), i # Len(parts),
         NEW pos, pos # NotFound => pos \in 0..Len(t)
  PROVE  Least(After(parts, t, i, pos), EndsOf(AllFrom(pos, t), parts[i], t))
<1> DEFINE seg == parts[i]
           K == Len(seg)
           at == {n \in pos..Len(t) : IsPrefix(seg, Rest(t, n))}
           ends == EndsOf(AllFrom(pos, t), seg, t)
<1>1. Len(t) \in Nat /\ seg \in Seq(C) /\ K \in Nat /\ (K = 0 <=> seg = <<>>) /\ i # 1
  <2>1. i # 1 /\ i \in 1..Len(parts) /\ Len(t) \in Nat
    <3>1. Len(t) \in Nat /\ Len(parts) \in Nat
      BY LenProperties
    <3> HIDE DEF seg, K, ends
    <3> QED BY <3>1
  <2>2. seg \in Seq(C)
    BY <2>1
  <2> HIDE DEF seg
  <2>3. K \in Nat /\ (K = 0 <=> seg = <<>>)
    BY <2>2
  <2> QED BY <2>1, <2>2, <2>3
<1>2. After(parts, t, i, pos) = IF pos = NotFound \/ seg = <<>> THEN pos
                                ELSE IF at = {} THEN NotFound ELSE Min(at) + K
  BY <1>1 DEF After
<1>3. CASE pos = NotFound
  <2>1. ends = {}
    BY <1>3 DEF EndsOf, AllFrom
  <2> QED BY <1>2, <1>3, <2>1 DEF Least
<1>4. CASE pos # NotFound
  <2>1. pos \in 0..Len(t)
    BY <1>4
  <2>2. \A n \in pos..Len(t) : n \in 0..Len(t) /\ pos <= n
    BY <1>1, <2>1
  <2> HIDE DEF seg
  <2>3. at = {n \in pos..Len(t) : Fits(seg, t, n)}
    BY <1>1, <2>2, PrefixMeans
  <2>4. ends = {n + K : n \in at}
    BY <1>4, <2>3 DEF EndsOf, AllFrom
  <2>5. at \subseteq 0..Len(t)
    BY <2>2, <2>3
  <2>6. CASE seg = <<>>
    <3>1. K = 0 /\ \A n \in pos..Len(t) : Fits(seg, t, n)
      <4>1. \A n \in pos..Len(t) : n + 0 <= Len(t) /\ 1..0 = {}
        BY <1>1, <2>2
      <4> QED BY <1>1, <2>6, <4>1 DEF Fits
    <3>2. at = pos..Len(t) /\ pos \in at /\ \A n \in at : pos <= n /\ n + 0 = n
      BY <1>1, <2>1, <2>2, <2>3, <3>1
    <3> HIDE DEF at, ends
    <3>3. ends = at
      BY <2>4, <3>1, <3>2
    <3> QED BY <1>2, <1>4, <2>6, <3>2, <3>3 DEF Least, ends, seg
  <2>7. CASE seg # <<>> /\ at = {}
    BY <1>2, <1>4, <2>4, <2>7 DEF Least, seg
  <2>8. CASE seg # <<>> /\ at # {}
    <3> HIDE DEF at, K, ends
    <3>1. PICK n \in at : \A m \in at : n <= m
      <4>1. at \in SUBSET Nat
        BY <2>5
      <4> QED BY <2>8, <4>1, Smallest
    <3> DEFINE least == Min(at)
    <3>2. least \in at /\ \A m \in at : least <= m
      BY <3>1 DEF Min
    <3>3. After(parts, t, i, pos) = least + K
      BY <1>2, <1>4, <2>8
    <3> HIDE DEF least
    <3>4. least \in Nat /\ \A m \in at : m \in Nat
      BY <2>5, <3>2
    <3>5. least + K \in ends /\ least + K # NotFound
      BY <1>1, <2>4, <3>2, <3>4 DEF NotFound
    <3>6. ASSUME NEW q \in ends PROVE least + K <= q
      <4>1. PICK m \in at : q = m + K
        BY <2>4
      <4>2. m \in Nat /\ least <= m
        BY <3>2, <3>4
      <4> QED BY <1>1, <3>4, <4>1, <4>2
    <3> QED BY <3>3, <3>5, <3>6 DEF Least, ends, seg
  <2> QED BY <2>6, <2>7, <2>8
<1> QED BY <1>3, <1>4

(* The last is a suffix of what is left. *)
LEMMA LastPlaced ==
  ASSUME NEW C, NEW t \in Seq(C), NEW parts \in Seq(Seq(C)), NEW i \in 2..Len(parts), i = Len(parts),
         NEW pos, pos # NotFound => pos \in 0..Len(t)
  PROVE  After(parts, t, i, pos) # NotFound <=> Len(t) \in EndsOf(AllFrom(pos, t), parts[i], t)
<1> DEFINE seg == parts[i]
           K == Len(seg)
           T == Len(t)
           ends == EndsOf(AllFrom(pos, t), seg, t)
<1>1. T \in Nat /\ seg \in Seq(C) /\ K \in Nat /\ (K = 0 <=> seg = <<>>) /\ i # 1
  <2>1. i # 1 /\ i \in 1..Len(parts) /\ T \in Nat
    <3>1. T \in Nat
      BY LenProperties
    <3>2. i \in Nat /\ i >= 2
      BY LenProperties
    <3>3. i # 1 /\ i \in 1..i
      BY <3>2
    <3> QED BY <3>1, <3>3
  <2>2. seg \in Seq(C)
    BY <2>1
  <2> HIDE DEF seg
  <2>3. K \in Nat /\ (K = 0 <=> seg = <<>>)
    BY <2>2
  <2> QED BY <2>1, <2>2, <2>3
<1>2. After(parts, t, i, pos) = IF pos = NotFound \/ seg = <<>> THEN pos
                                ELSE IF IsSuffix(seg, Rest(t, pos)) THEN pos ELSE NotFound
  BY <1>1 DEF After
<1>3. CASE pos = NotFound
  <2>1. ends = {}
    BY <1>3 DEF EndsOf, AllFrom
  <2> QED BY <1>2, <1>3, <2>1
<1>4. CASE pos # NotFound
  <2>1. pos \in 0..T
    BY <1>4
  <2> HIDE DEF seg
  <2>2. ends = {n + K : n \in {m \in pos..T : Fits(seg, t, m)}}
    BY <1>4 DEF EndsOf, AllFrom
  <2>3. T \in ends <=> pos + K <= T /\ Fits(seg, t, T - K)
    <3> HIDE DEF ends
    <3>1. ASSUME T \in ends PROVE pos + K <= T /\ Fits(seg, t, T - K)
      <4>1. PICK n \in pos..T : Fits(seg, t, n) /\ T = n + K
        BY <2>2, <3>1
      <4>2. n = T - K /\ pos + K <= T
        BY <1>1, <2>1, <4>1
      <4> QED BY <4>1, <4>2
    <3>2. ASSUME pos + K <= T, Fits(seg, t, T - K) PROVE T \in ends
      <4>1. T - K \in pos..T /\ T = (T - K) + K
        BY <1>1, <2>1, <3>2
      <4> QED BY <2>2, <3>2, <4>1
    <3> QED BY <3>1, <3>2
  <2>4. IsSuffix(seg, Rest(t, pos)) <=> pos + K <= T /\ Fits(seg, t, T - K)
    BY <1>1, <2>1, SuffixMeans
  <2>5. seg = <<>> => pos + K <= T /\ Fits(seg, t, T - K)
    <3>1. pos + 0 <= T /\ (T - 0) + 0 <= T /\ 1..0 = {}
      BY <1>1, <2>1
    <3> QED BY <1>1, <3>1 DEF Fits
  <2> HIDE DEF ends, K, T
  <2> QED BY <1>2, <1>4, <2>3, <2>4, <2>5 DEF ends, T, seg
<1> QED BY <1>3, <1>4

------------------------------------------------------------------------------
(* Segment after segment, the least place is kept; before the last one     *)
(* that decides, as what is reached behind a star is all from there on.    *)
LEMMA GlobFacts ==
  ASSUME NEW C, NEW pattern, NEW text, Folded(pattern) \in Seq(C), Folded(text) \in Seq(C)
  PROVE  GlobMatch(pattern, text) = IsGlobOf(pattern, text)
<1> DEFINE p == Folded(pattern)
           t == Folded(text)
           parts == Segments(p)
           M == Len(parts)
<1>1. p \in Seq(C) /\ t \in Seq(C) /\ Len(p) \in Nat /\ Len(t) \in Nat
  OBVIOUS
<1>2. parts \in Seq(Seq(C)) /\ \E off : Lie(parts, off, p, Len(p))
  <2> HIDE DEF p
  <2> QED BY <1>1, SegmentFacts
<1>3. IsGlobOf(pattern, text) <=> Len(t) \in (CHOOSE re : Reaches(re, p, t, Len(p)))[Len(p)]
  BY DEF IsGlobOf, Reaches
<1>4. GlobMatch(pattern, text) <=> IF M = 1 THEN p = t
                ELSE (CHOOSE pos : Placing(pos, parts, t, M))[M] # NotFound
  BY DEF GlobMatch, Placing
<1> HIDE DEF p, t, parts
<1>5. PICK off : Lie(parts, off, p, Len(p))
  BY <1>2
<1>6. M \in Nat /\ M > 0 /\ off[1] = 0 /\ EndOf(parts, off, M) = Len(p)
  BY <1>5 DEF Lie, EndOf
<1>7. PICK re : Reaches(re, p, t, Len(p)) /\ (IsGlobOf(pattern, text) <=> Len(t) \in re[Len(p)])
  BY <1>1, <1>3, ReachExists
<1>8. PICK pos : /\ Placing(pos, parts, t, M)
                 /\ GlobMatch(pattern, text) <=> IF M = 1 THEN p = t ELSE pos[M] # NotFound
  BY <1>4, <1>6, PlaceExists
<1>9. re[0] = {0}
  BY <1>1, <1>7, ReachedFacts
<1>10. \A i \in 1..M : parts[i] \in Seq(C) /\ re[EndOf(parts, off, i)] = EndsOf(re[off[i]], parts[i], t)
  BY <1>1, <1>2, <1>5, <1>7, SegmentReach
<1>11. CASE M = 1
  <2>1. 1 \in 1..M /\ parts[1] \in Seq(C) /\ re[Len(p)] = EndsOf({0}, parts[1], t)
    <3> HIDE DEF M
    <3>1. 1 \in 1..M /\ EndOf(parts, off, 1) = Len(p)
      BY <1>6, <1>11
    <3> QED BY <1>6, <1>9, <1>10, <3>1
  <2>2. Len(parts[1]) = Len(p) /\ \A k \in 1..Len(p) : parts[1][k] = p[k]
    <3>1. 0 + Len(parts[1]) = Len(p) /\ \A k \in 1..Len(parts[1]) : parts[1][k] = p[0 + k]
      BY <1>5, <1>6, <1>11, <2>1 DEF Lie
    <3>2. Len(parts[1]) \in Nat /\ \A k \in 1..Len(parts[1]) : 0 + k = k
      BY <2>1
    <3> QED BY <3>1, <3>2
  <2>3. parts[1] = p
    BY <1>1, <2>1, <2>2, SeqEqual
  <2>4. Len(t) \in EndsOf({0}, p, t) <=> Len(t) = Len(p) /\ \A k \in 1..Len(p) : p[k] = t[k]
    <3>1. 0 + Len(p) = Len(p) /\ \A k \in 1..Len(p) : 0 + k = k
      BY <1>1
    <3> QED BY <1>1, <3>1 DEF EndsOf, Fits
  <2>5. p = t <=> Len(t) = Len(p) /\ \A k \in 1..Len(p) : p[k] = t[k]
    BY <1>1
  <2>6. GlobMatch(pattern, text) <=> p = t
    BY <1>8, <1>11
  <2>7. IsGlobOf(pattern, text) <=> p = t
    BY <1>7, <2>1, <2>3, <2>4, <2>5
  <2> QED BY <2>6, <2>7 DEF GlobMatch, IsGlobOf
<1>12. CASE M # 1
  <2> HIDE DEF M
  <2>1. M - 1 \in Nat /\ M - 1 > 0 /\ M \in 2..M /\ M \in 1..M
    BY <1>6, <1>12
  <2>2. pos[0] = 0 /\ \A i \in 1..M : pos[i] = After(parts, t, i, pos[i - 1])
    <3>1. 0 \in 0..M /\ \A i \in 1..M : i \in 0..M /\ i # 0
      BY <1>6
    <3> QED BY <1>8, <3>1 DEF Placing
  <2> DEFINE Placed(i) == i = 0 \/ Least(pos[i], re[EndOf(parts, off, i)])
             S == {i \in 0..(M - 1) : ~ Placed(i)}
  <2>3. \A i \in 2..M : Placed(i - 1) =>
          /\ pos[i] = After(parts, t, i, pos[i - 1])
          /\ re[off[i]] = AllFrom(pos[i - 1], t)
          /\ pos[i - 1] # NotFound => pos[i - 1] \in 0..Len(t)
    <3> SUFFICES ASSUME NEW i \in 2..M, Placed(i - 1)
                 PROVE  /\ pos[i] = After(parts, t, i, pos[i - 1])
                        /\ re[off[i]] = AllFrom(pos[i - 1], t)
                        /\ pos[i - 1] # NotFound => pos[i - 1] \in 0..Len(t)
      OBVIOUS
    <3>1. i \in 1..M /\ i - 1 # 0
      BY <1>6
    <3>2. Least(pos[i - 1], re[EndOf(parts, off, i - 1)])
      BY <3>1
    <3>3. i \in 2..Len(parts)
      BY DEF M
    <3> QED BY <1>1, <1>2, <1>5, <1>7, <2>2, <3>1, <3>2, <3>3, StarReach
  <2>4. ASSUME NEW i \in 1..(M - 1), Placed(i - 1) PROVE Placed(i)
    <3>1. i \in 1..M /\ i # M
      BY <1>6
    <3>2. CASE i = 1
      <4>1. Least(After(parts, t, 1, 0), EndsOf({0}, parts[1], t))
        BY <1>1, <1>10, <3>1, <3>2, FirstPlaced
      <4>2. pos[1] = After(parts, t, 1, 0)
        BY <2>2, <3>1, <3>2
      <4>3. re[EndOf(parts, off, 1)] = EndsOf({0}, parts[1], t)
        BY <1>6, <1>9, <1>10, <3>1, <3>2
      <4> QED BY <3>2, <4>1, <4>2, <4>3
    <3>3. CASE i # 1
      <4>1. i \in 2..M /\ i \in 2..Len(parts) /\ i # Len(parts)
        BY <3>1, <3>3 DEF M
      <4>2. Least(After(parts, t, i, pos[i - 1]), EndsOf(AllFrom(pos[i - 1], t), parts[i], t))
        BY <1>1, <1>2, <2>3, <2>4, <4>1, NextPlaced
      <4> QED BY <1>10, <2>3, <2>4, <3>1, <4>1, <4>2
    <3> QED BY <3>2, <3>3
  <2> HIDE DEF Placed
  <2>5. 0 \notin S
    BY DEF Placed
  <2>6. S = {}
    <3> SUFFICES ASSUME S # {} PROVE FALSE
      OBVIOUS
    <3>1. PICK i \in 1..(M - 1) : i \in S /\ i - 1 \in 0..(M - 1) /\ i - 1 \notin S
      <4>1. S \in SUBSET (0..(M - 1))
        OBVIOUS
      <4> HIDE DEF S
      <4> QED BY <2>1, <2>5, <4>1, FirstWrong
    <3> QED BY <2>4, <3>1
  <2>7. Placed(M - 1)
    <3>1. M - 1 \in 0..(M - 1)
      BY <2>1
    <3> QED BY <2>6, <3>1
  <2>8. /\ pos[M] = After(parts, t, M, pos[M - 1])
        /\ re[off[M]] = AllFrom(pos[M - 1], t)
        /\ pos[M - 1] # NotFound => pos[M - 1] \in 0..Len(t)
    BY <2>1, <2>3, <2>7
  <2>9. After(parts, t, M, pos[M - 1]) # NotFound <=>
          Len(t) \in EndsOf(AllFrom(pos[M - 1], t), parts[M], t)
    <3>1. M \in 2..Len(parts) /\ M = Len(parts)
      BY <2>1 DEF M
    <3> QED BY <1>1, <1>2, <2>8, <3>1, LastPlaced
  <2>10. pos[M] # NotFound <=> Len(t) \in re[Len(p)]
    BY <1>6, <1>10, <2>1, <2>8, <2>9
  <2>11. GlobMatch(pattern, text) <=> pos[M] # NotFound
    BY <1>8, <1>12
  <2>12. GlobMatch(pattern, text) <=> IsGlobOf(pattern, text)
    BY <1>7, <2>10, <2>11
  <2> QED BY <2>12 DEF GlobMatch, IsGlobOf
<1> QED BY <1>11, <1>12

(* Matching by segments, each where it first fits, is matching the glob    *)
(* (rules.rs glob_match), for patterns and texts of any length.            *)
THEOREM GlobsAreGlobs == RulesSpec => []GlobIsGlob
<1> DEFINE Sampled == sample \in UpTo(MaxPattern, Letters \union {"*"}) \X UpTo(MaxText, Letters)
<1>1. RulesInit => Sampled
  BY DEF RulesInit
<1>2. Sampled /\ [RulesNext]_rulesVars => Sampled'
  BY DEF RulesNext, SetRules, SetRule, DeleteRule, Edit, EmptyFile, RefuseFile, FillFile,
         ExitAndLaunch, rulesVars
<1>3. Sampled => GlobIsGlob
  <2> SUFFICES ASSUME Sampled PROVE GlobIsGlob
    OBVIOUS
  <2>1. PICK a \in Nat, b \in Nat :
          sample[1] \in [1..a -> Letters \union {"*"}] /\ sample[2] \in [1..b -> Letters]
    <3>1. sample[1] \in UpTo(MaxPattern, Letters \union {"*"}) /\ sample[2] \in UpTo(MaxText, Letters)
      OBVIOUS
    <3>2. \A n \in {MaxPattern, MaxText} : 0..n \subseteq Nat
      BY RulesAssumption
    <3> QED BY <3>1, <3>2 DEF UpTo
  <2> DEFINE C == {Lower[c] : c \in Letters \union {"*"}}
  <2>2. Folded(sample[1]) \in Seq(C) /\ Folded(sample[2]) \in Seq(C)
    BY <2>1 DEF Folded
  <2> HIDE DEF C
  <2> QED BY <2>2, GlobFacts DEF GlobIsGlob
<1> QED BY <1>1, <1>2, <1>3, PTL DEF RulesSpec

------------------------------------------------------------------------------
(***************************************************************************)
(* What holds of the engine's handle for any number of callers and of      *)
(* engines started.                                                        *)
(***************************************************************************)
EngineRecords == [is : {"starting", "listening", "closed", "refused"}, told : BOOLEAN]

EngineTypes ==
  /\ engines \in Seq(EngineRecords)
  /\ proxy \in {0} \union DOMAIN engines
  /\ asked \in [EngineCallers -> [at : {"idle", "start", "keep"}, made : Nat]]
  /\ hasty \in BOOLEAN /\ foreign \in BOOLEAN

(* The callers that have an engine and have yet to store its handle. *)
Keeper(c) == asked[c].at = "keep"

(* An engine that is owned has not been told to stop, has one owner only...*)
OwnersApart ==
  /\ proxy # 0 => ~engines[proxy].told
  /\ \A c \in EngineCallers : Keeper(c) =>
       /\ asked[c].made \in DOMAIN engines /\ asked[c].made # proxy
       /\ ~engines[asked[c].made].told
  /\ \A c, d \in EngineCallers :
       Keeper(c) /\ Keeper(d) /\ asked[c].made = asked[d].made => c = d

(* ...and every other has been told. *)
Owned(e) == proxy = e \/ \E c \in EngineCallers : Keeper(c) /\ asked[c].made = e
NoEngineForgotten == \A e \in DOMAIN engines : ~engines[e].told => Owned(e)

(* An engine ends only when told to, and with no two at once and no other  *)
(* program none is refused its port.                                       *)
EndsWhenTold == \A e \in DOMAIN engines : engines[e].is = "closed" => engines[e].told
OneAtATime   == ~hasty => \A e, f \in DOMAIN engines : ~Over(e) /\ ~Over(f) => e = f
NoneRefused  == ~hasty /\ ~foreign => \A e \in DOMAIN engines : engines[e].is # "refused"

EngineInv ==
  EngineTypes /\ OwnersApart /\ NoEngineForgotten /\ EndsWhenTold /\ OneAtATime /\ NoneRefused

------------------------------------------------------------------------------
(* What Told does: no engine's state, and the mark of one engine at most. *)
LEMMA ToldFacts ==
  ASSUME EngineTypes, NEW e
  PROVE  /\ Told(e) \in Seq(EngineRecords)
         /\ DOMAIN Told(e) = DOMAIN engines
         /\ \A x \in DOMAIN engines : /\ Told(e)[x].is = engines[x].is
                                      /\ Told(e)[x].told = (engines[x].told \/ x = e)
<1>1. engines \in [1..Len(engines) -> EngineRecords] /\ Len(engines) \in Nat
  BY DEF EngineTypes
<1>2. \A x \in DOMAIN engines : [engines[x] EXCEPT !.told = @ \/ x = e] \in EngineRecords
  BY <1>1 DEF EngineRecords
<1>3. DOMAIN Told(e) = 1..Len(engines) /\ Told(e) \in [1..Len(engines) -> EngineRecords]
  BY <1>1, <1>2 DEF Told
<1>4. Told(e) \in Seq(EngineRecords)
  BY <1>1, <1>3
<1>5. ASSUME NEW x \in DOMAIN engines
      PROVE  /\ Told(e)[x].is = engines[x].is
             /\ Told(e)[x].told = (engines[x].told \/ x = e)
  <2>1. Told(e)[x] = [engines[x] EXCEPT !.told = @ \/ x = e]
    BY DEF Told
  <2>2. engines[x] \in EngineRecords
    BY <1>1
  <2> QED BY <2>1, <2>2 DEF EngineRecords
<1> QED BY <1>1, <1>3, <1>4, <1>5

LEMMA EngineInitInv == EnginesInit => EngineInv
<1> SUFFICES ASSUME EnginesInit PROVE EngineInv
  OBVIOUS
<1>1. engines \in Seq(EngineRecords) /\ DOMAIN engines = {}
  BY DEF EnginesInit
<1>2. EngineTypes
  BY <1>1 DEF EnginesInit, EngineTypes, NotAsking
<1>3. proxy = 0 /\ \A c \in EngineCallers : ~Keeper(c)
  BY DEF EnginesInit, NotAsking, Keeper
<1> QED BY <1>1, <1>2, <1>3 DEF EngineInv, OwnersApart, NoEngineForgotten, EndsWhenTold, OneAtATime,
                                NoneRefused

(* A step of a caller that leaves the engines alone. *)
LEMMA AskInv ==
  ASSUME EngineInv, NEW c \in EngineCallers, Ensure(c) \/ StartRefused(c)
  PROVE  EngineInv'
<1>1. /\ engines' = engines /\ proxy' = proxy /\ hasty' = hasty /\ foreign' = foreign
      /\ asked' \in [EngineCallers -> [at : {"idle", "start", "keep"}, made : Nat]]
      /\ \A d \in EngineCallers : asked'[d].at = "keep" <=> asked[d].at = "keep"
      /\ \A d \in EngineCallers : asked[d].at = "keep" => asked'[d] = asked[d]
  <2>1. CASE Ensure(c)
    BY <2>1 DEF EngineInv, EngineTypes, Ensure, NotAsking
  <2>2. CASE StartRefused(c)
    BY <2>2 DEF EngineInv, EngineTypes, StartRefused, NotAsking
  <2> QED BY <2>1, <2>2
<1>2. EngineTypes'
  BY <1>1 DEF EngineInv, EngineTypes
<1>3. OwnersApart'
  BY <1>1 DEF EngineInv, OwnersApart, Keeper
<1>4. NoEngineForgotten'
  BY <1>1 DEF EngineInv, NoEngineForgotten, Owned, Keeper
<1> QED BY <1>1, <1>2, <1>3, <1>4 DEF EngineInv, EndsWhenTold, OneAtATime, NoneRefused, Over

LEMMA StartTaskInv ==
  ASSUME EngineInv, NEW c \in EngineCallers, StartEngineTask(c)
  PROVE  EngineInv'
<1> DEFINE new == Len(engines) + 1
<1>1. /\ Len(engines) \in Nat /\ DOMAIN engines = 1..Len(engines)
      /\ \A e \in DOMAIN engines : engines[e] \in EngineRecords
  BY DEF EngineInv, EngineTypes
<1>2. /\ engines' \in Seq(EngineRecords)
      /\ DOMAIN engines' = DOMAIN engines \union {new} /\ new \notin DOMAIN engines /\ new # 0
      /\ engines'[new].is = "starting" /\ ~engines'[new].told
      /\ \A e \in DOMAIN engines : engines'[e] = engines[e]
  BY <1>1 DEF StartEngineTask, EngineInv, EngineTypes, EngineRecords
<1>3. /\ asked' \in [EngineCallers -> [at : {"idle", "start", "keep"}, made : Nat]]
      /\ ~Keeper(c) /\ asked'[c].at = "keep" /\ asked'[c].made = new
      /\ \A d \in EngineCallers : d # c => asked'[d] = asked[d]
      /\ proxy' = proxy /\ foreign' = foreign /\ proxy # new
  BY <1>1, <1>2 DEF StartEngineTask, EngineInv, EngineTypes, Keeper
<1>4. EngineTypes'
  BY <1>2, <1>3 DEF EngineInv, EngineTypes, StartEngineTask
<1>5. OwnersApart'
  <2>1. (proxy # 0 => ~engines[proxy].told)'
    BY <1>2, <1>3 DEF EngineInv, EngineTypes, OwnersApart
  <2>2. ASSUME NEW d \in EngineCallers, Keeper(d)'
        PROVE  (/\ asked[d].made \in DOMAIN engines /\ asked[d].made # proxy
                /\ ~engines[asked[d].made].told)'
    <3>1. CASE d = c
      BY <3>1, <1>2, <1>3
    <3>2. CASE d # c
      BY <3>2, <2>2, <1>2, <1>3 DEF EngineInv, OwnersApart, Keeper
    <3> QED BY <3>1, <3>2
  <2>3. ASSUME NEW d \in EngineCallers, NEW f \in EngineCallers,
               Keeper(d)', Keeper(f)', asked'[d].made = asked'[f].made
        PROVE  d = f
    BY <2>3, <1>2, <1>3 DEF EngineInv, OwnersApart, Keeper
  <2> QED BY <2>1, <2>2, <2>3 DEF OwnersApart
<1>6. NoEngineForgotten'
  <2> SUFFICES ASSUME NEW e \in DOMAIN engines', ~engines'[e].told
               PROVE  proxy' = e \/ \E d \in EngineCallers : Keeper(d)' /\ asked'[d].made = e
    BY DEF NoEngineForgotten, Owned, Keeper
  <2>1. CASE e = new
    BY <2>1, <1>3 DEF Keeper
  <2>2. CASE e \in DOMAIN engines
    <3>1. Owned(e)
      BY <2>2, <1>2 DEF EngineInv, NoEngineForgotten
    <3> QED BY <3>1, <1>3 DEF Owned, Keeper
  <2> QED BY <2>1, <2>2, <1>2
<1>7. EndsWhenTold'
  BY <1>2 DEF EngineInv, EndsWhenTold
<1>8. OneAtATime'
  <2> SUFFICES ASSUME ~hasty', NEW e \in DOMAIN engines', NEW f \in DOMAIN engines',
                      ~Over(e)', ~Over(f)'
               PROVE  e = f
    BY DEF OneAtATime
  <2>1. \A x \in DOMAIN engines : Over(x)
    BY DEF StartEngineTask, EngineInv, EngineTypes
  <2>2. \A x \in DOMAIN engines : Over(x)'
    BY <2>1, <1>2 DEF Over
  <2> QED BY <2>2, <1>2
<1>9. NoneRefused'
  BY <1>2, <1>3 DEF EngineInv, EngineTypes, NoneRefused, StartEngineTask
<1> QED BY <1>4, <1>5, <1>6, <1>7, <1>8, <1>9 DEF EngineInv

(* The handle moves from one engine, or none, to another, or none; the one *)
(* it leaves is told.  Nothing that was or was not over changes.           *)
LEMMA HandleMoves ==
  ASSUME EngineInv, engines' = Told(proxy), UNCHANGED <<hasty, foreign>>
  PROVE  /\ engines' \in Seq(EngineRecords) /\ DOMAIN engines' = DOMAIN engines
         /\ \A x \in DOMAIN engines : engines'[x].told = (engines[x].told \/ x = proxy)
         /\ EndsWhenTold' /\ OneAtATime' /\ NoneRefused'
<1>1. /\ engines' \in Seq(EngineRecords) /\ DOMAIN engines' = DOMAIN engines
      /\ \A x \in DOMAIN engines : /\ engines'[x].is = engines[x].is
                                   /\ engines'[x].told = (engines[x].told \/ x = proxy)
  BY ToldFacts DEF EngineInv
<1> QED BY <1>1 DEF EngineInv, EndsWhenTold, OneAtATime, NoneRefused, Over

LEMMA EngineKeepInv ==
  ASSUME EngineInv, NEW c \in EngineCallers, KeepEngine(c)
  PROVE  EngineInv'
<1>1. /\ engines' \in Seq(EngineRecords) /\ DOMAIN engines' = DOMAIN engines
      /\ \A x \in DOMAIN engines : engines'[x].told = (engines[x].told \/ x = proxy)
      /\ EndsWhenTold' /\ OneAtATime' /\ NoneRefused'
  BY HandleMoves DEF KeepEngine
<1>2. /\ Keeper(c) /\ proxy' = asked[c].made /\ hasty' = hasty /\ foreign' = foreign
      /\ asked' \in [EngineCallers -> [at : {"idle", "start", "keep"}, made : Nat]]
      /\ asked'[c].at = "idle"
      /\ \A d \in EngineCallers : d # c => asked'[d] = asked[d]
  BY DEF EngineInv, EngineTypes, KeepEngine, Keeper, NotAsking
<1>3. /\ asked[c].made \in DOMAIN engines /\ asked[c].made # proxy
      /\ ~engines[asked[c].made].told
  BY <1>2 DEF EngineInv, OwnersApart
<1>4. EngineTypes'
  BY <1>1, <1>2, <1>3 DEF EngineInv, EngineTypes
<1>5. OwnersApart'
  <2>1. ~engines'[proxy'].told
    BY <1>1, <1>2, <1>3
  <2>2. ASSUME NEW d \in EngineCallers, Keeper(d)'
        PROVE  d # c /\ Keeper(d) /\ asked'[d] = asked[d]
    BY <1>2, <2>2 DEF Keeper
  <2>3. ASSUME NEW d \in EngineCallers, Keeper(d)'
        PROVE  /\ asked'[d].made \in DOMAIN engines /\ asked'[d].made # proxy'
               /\ ~engines'[asked'[d].made].told
    <3>1. /\ asked[d].made \in DOMAIN engines /\ asked[d].made # proxy
          /\ ~engines[asked[d].made].told
          /\ asked[d].made # asked[c].made
      BY <1>2, <2>2, <2>3 DEF EngineInv, OwnersApart
    <3> QED BY <1>1, <1>2, <2>2, <2>3, <3>1
  <2>4. \A d, f \in EngineCallers :
          Keeper(d)' /\ Keeper(f)' /\ asked'[d].made = asked'[f].made => d = f
    BY <2>2 DEF EngineInv, OwnersApart
  <2> QED BY <1>1, <2>1, <2>3, <2>4 DEF OwnersApart
<1>6. NoEngineForgotten'
  <2> SUFFICES ASSUME NEW e \in DOMAIN engines', ~engines'[e].told
               PROVE  proxy' = e \/ \E d \in EngineCallers : Keeper(d)' /\ asked'[d].made = e
    BY DEF NoEngineForgotten, Owned, Keeper
  <2>1. Owned(e) /\ e # proxy
    BY <1>1 DEF EngineInv, NoEngineForgotten
  <2> QED BY <2>1, <1>2 DEF Owned, Keeper
<1> QED BY <1>1, <1>4, <1>5, <1>6 DEF EngineInv

LEMMA StopInv ==
  ASSUME EngineInv, StopEngine
  PROVE  EngineInv'
<1>1. /\ engines' \in Seq(EngineRecords) /\ DOMAIN engines' = DOMAIN engines
      /\ \A x \in DOMAIN engines : engines'[x].told = (engines[x].told \/ x = proxy)
      /\ EndsWhenTold' /\ OneAtATime' /\ NoneRefused'
  BY HandleMoves DEF StopEngine
<1>2. proxy' = 0 /\ asked' = asked /\ hasty' = hasty /\ foreign' = foreign
  BY DEF StopEngine
<1>3. EngineTypes'
  BY <1>1, <1>2 DEF EngineInv, EngineTypes
<1>4. 0 \notin DOMAIN engines
  BY DEF EngineInv, EngineTypes
<1>5. OwnersApart'
  BY <1>1, <1>2, <1>4 DEF EngineInv, OwnersApart, Keeper
<1>6. NoEngineForgotten'
  BY <1>1, <1>2 DEF EngineInv, NoEngineForgotten, Owned, Keeper
<1> QED BY <1>1, <1>3, <1>5, <1>6 DEF EngineInv

(* The engine's own task changes its state and nothing else. *)
LEMMA TaskMoves ==
  ASSUME EngineInv, NEW e \in DOMAIN engines, NEW is \in {"listening", "closed", "refused"},
         engines' = [engines EXCEPT ![e].is = is], UNCHANGED <<proxy, asked, hasty>>
  PROVE  /\ DOMAIN engines' = DOMAIN engines
         /\ engines'[e].is = is /\ \A x \in DOMAIN engines : x # e => engines'[x] = engines[x]
         /\ foreign' \in BOOLEAN => EngineTypes'
         /\ OwnersApart' /\ NoEngineForgotten'
<1>1. engines[e] \in EngineRecords /\ engines \in [1..Len(engines) -> EngineRecords] /\ Len(engines) \in Nat
  BY DEF EngineInv, EngineTypes
<1>2. /\ engines'[e] = [engines[e] EXCEPT !.is = is]
      /\ DOMAIN engines' = DOMAIN engines
      /\ \A x \in DOMAIN engines : x # e => engines'[x] = engines[x]
  OBVIOUS
<1>3. engines'[e] \in EngineRecords /\ engines'[e].is = is /\ engines'[e].told = engines[e].told
  BY <1>1, <1>2 DEF EngineRecords
<1>4. engines' \in [1..Len(engines) -> EngineRecords]
  BY <1>1, <1>2, <1>3
<1>5. engines' \in Seq(EngineRecords)
  BY <1>1, <1>4
<1>6. \A x \in DOMAIN engines : engines'[x].told = engines[x].told
  BY <1>2, <1>3
<1>7. foreign' \in BOOLEAN => EngineTypes'
  BY <1>2, <1>5 DEF EngineInv, EngineTypes
<1>8. OwnersApart'
  BY <1>2, <1>6 DEF EngineInv, EngineTypes, OwnersApart, Keeper
<1>9. NoEngineForgotten'
  BY <1>2, <1>6 DEF EngineInv, NoEngineForgotten, Owned, Keeper
<1> QED BY <1>2, <1>3, <1>7, <1>8, <1>9

LEMMA EngineBindInv ==
  ASSUME EngineInv, NEW e \in DOMAIN engines, BindEngine(e)
  PROVE  EngineInv'
<1> DEFINE taken == \E x \in DOMAIN engines : engines[x].is = "listening"
           is    == IF taken THEN "refused" ELSE "listening"
<1>1. /\ engines[e].is = "starting" /\ engines' = [engines EXCEPT ![e].is = is]
      /\ UNCHANGED <<proxy, asked, hasty, foreign>> /\ is \in {"listening", "closed", "refused"}
  BY DEF BindEngine
<1>2. /\ DOMAIN engines' = DOMAIN engines
      /\ engines'[e].is = is /\ \A x \in DOMAIN engines : x # e => engines'[x] = engines[x]
      /\ EngineTypes' /\ OwnersApart' /\ NoEngineForgotten'
  BY <1>1, TaskMoves DEF EngineInv, EngineTypes
<1>3. EndsWhenTold'
  BY <1>2 DEF EngineInv, EndsWhenTold
<1>4. OneAtATime'
  BY <1>1, <1>2 DEF EngineInv, OneAtATime, Over
<1>5. ~hasty => ~taken
  BY <1>1 DEF EngineInv, OneAtATime, Over
<1>6. NoneRefused'
  BY <1>1, <1>2, <1>5 DEF EngineInv, NoneRefused
<1> QED BY <1>2, <1>3, <1>4, <1>6 DEF EngineInv

LEMMA EngineEndInv ==
  ASSUME EngineInv, NEW e \in DOMAIN engines, ForeignPort(e) \/ EngineEnds(e)
  PROVE  EngineInv'
<1>1. CASE ForeignPort(e)
  <2>1. /\ DOMAIN engines' = DOMAIN engines
        /\ engines'[e].is = "refused" /\ \A x \in DOMAIN engines : x # e => engines'[x] = engines[x]
        /\ EngineTypes' /\ OwnersApart' /\ NoEngineForgotten' /\ foreign' /\ hasty' = hasty
    BY <1>1, TaskMoves DEF ForeignPort
  <2> QED BY <2>1 DEF EngineInv, EndsWhenTold, OneAtATime, NoneRefused, Over
<1>2. CASE EngineEnds(e)
  <2>1. /\ DOMAIN engines' = DOMAIN engines /\ engines[e].is = "listening"
        /\ engines'[e].is = "closed" /\ \A x \in DOMAIN engines : x # e => engines'[x] = engines[x]
        /\ EngineTypes' /\ OwnersApart' /\ NoEngineForgotten' /\ hasty' = hasty /\ foreign' = foreign
    BY <1>2, TaskMoves DEF EngineEnds, EngineInv, EngineTypes
  <2>2. engines'[e].told
    <3>1. engines[e] \in EngineRecords /\ engines[e].told
      BY <1>2 DEF EngineEnds, EngineInv, EngineTypes
    <3>2. engines'[e] = [engines[e] EXCEPT !.is = "closed"]
      BY <1>2 DEF EngineEnds
    <3>3. engines'[e].told = engines[e].told
      BY <3>1, <3>2 DEF EngineRecords
    <3> QED BY <3>1, <3>3
  <2> QED BY <2>1, <2>2 DEF EngineInv, EndsWhenTold, OneAtATime, NoneRefused, Over
<1> QED BY <1>1, <1>2

LEMMA EngineNextInv == EngineInv /\ [EnginesNext]_engineVars => EngineInv'
<1> SUFFICES ASSUME EngineInv, [EnginesNext]_engineVars PROVE EngineInv'
  OBVIOUS
<1>1. CASE UNCHANGED engineVars
  BY <1>1 DEF engineVars, EngineInv, EngineTypes, OwnersApart, NoEngineForgotten, Owned, Keeper,
              EndsWhenTold, OneAtATime, NoneRefused, Over
<1>2. CASE EnginesNext
  BY <1>2, AskInv, StartTaskInv, EngineKeepInv, StopInv, EngineBindInv, EngineEndInv DEF EnginesNext
<1> QED BY <1>1, <1>2

(* The invariant gives what is wanted: the handle's engine is one that has *)
(* not been told, so it has not ended.                                     *)
LEMMA EngineInvOwned == EngineInv => EngineOwned
<1> SUFFICES ASSUME EngineInv PROVE EngineOwned
  OBVIOUS
<1>1. \A e \in DOMAIN engines : ~engines[e].told =>
        proxy = e \/ \E c \in EngineCallers : asked[c].at = "keep" /\ asked[c].made = e
  BY DEF EngineInv, NoEngineForgotten, Owned, Keeper
<1>2. ASSUME proxy # 0, ~hasty, ~foreign
      PROVE  engines[proxy].is \in {"starting", "listening"}
  <2>1. proxy \in DOMAIN engines /\ engines[proxy] \in EngineRecords
    BY <1>2 DEF EngineInv, EngineTypes
  <2>2. engines[proxy].is # "closed" /\ engines[proxy].is # "refused"
    BY <1>2, <2>1 DEF EngineInv, OwnersApart, EndsWhenTold, NoneRefused
  <2> QED BY <2>1, <2>2 DEF EngineRecords
<1> QED BY <1>1, <1>2 DEF EngineOwned, ReportedRunning

(* Whatever callers overlap, no engine is left that nothing can stop, and  *)
(* unless one was started beside another or another program holds the     *)
(* port, an engine reported as running listens or is about to              *)
(* (commands.rs ensure_engine, make_status, stop_proxy).                   *)
THEOREM EnginesAreOwned == EnginesSpec => []EngineOwned
<1>1. EnginesSpec => []EngineInv
  BY EngineInitInv, EngineNextInv, PTL DEF EnginesSpec
<1> QED BY <1>1, EngineInvOwned, PTL

------------------------------------------------------------------------------
(***************************************************************************)
(* What holds of the MCP endpoint's switch for any number of calls, any    *)
(* ports, and however often the app is started and ends.                   *)
(***************************************************************************)
McpStages    == {"idle", "stop", "clear", "bind", "tell", "keep", "save"}
McpCalls     == [at : McpStages, on : BOOLEAN, port : Nat, bound : Nat]
Listening == [port : Nat, state : {"open", "stopping", "closed"}]

McpTypes ==
  /\ listeners \in Seq(Listening)
  /\ handle \in {0} \union DOMAIN listeners
  /\ mcpPort \in Nat
  /\ mcpFile \in [running : BOOLEAN, port : Nat]
  /\ call \in [Tasks -> McpCalls]
  /\ overlap \in BOOLEAN /\ launched \in BOOLEAN
  /\ \A t \in Tasks : call[t].at \in {"tell", "keep"} => call[t].bound \in DOMAIN listeners

(* A listener that is open has an owner. *)
Holds(t, l) == call[t].at \in {"tell", "keep"} /\ call[t].bound = l
NoEndpointForgotten ==
  \A l \in DOMAIN listeners :
    listeners[l].state = "open" => handle = l \/ \E t \in Tasks : Holds(t, l)

(* Nothing is under way while the app does not run. *)
DownIsBare ==
  ~launched => /\ handle = 0 /\ mcpPort = 0 /\ ~overlap
               /\ \A t \in Tasks : call[t].at = "idle"

(* Unless calls overlapped, one at most is under way, and the handle and   *)
(* the port are what its stage says.                                       *)
OneByOne ==
  ~overlap =>
    /\ \A t, u \in Tasks : call[t].at # "idle" /\ call[u].at # "idle" => t = u
    /\ (\A t \in Tasks : call[t].at \in {"idle", "stop", "save"}) => mcpPort = PortOf(handle)
    /\ \A t \in Tasks : call[t].at \in {"clear", "bind", "tell", "keep"} => handle = 0
    /\ \A t \in Tasks : call[t].at \in {"bind", "tell"} => mcpPort = 0
    /\ \A t \in Tasks : call[t].at = "keep" => mcpPort = PortOf(call[t].bound)

McpInv == McpTypes /\ NoEndpointForgotten /\ DownIsBare /\ OneByOne

------------------------------------------------------------------------------
(* Listeners that change their state keep their number and their ports. *)
LEMMA StoppedFacts ==
  ASSUME McpTypes
  PROVE  /\ Stopped(handle) \in Seq(Listening)
         /\ DOMAIN Stopped(handle) = DOMAIN listeners
         /\ \A l \in DOMAIN listeners :
              /\ Stopped(handle)[l].port = listeners[l].port
              /\ Stopped(handle)[l].state = "open" => listeners[l].state = "open" /\ l # handle
<1>1. CASE handle = 0
  BY <1>1 DEF McpTypes, Stopped
<1>2. CASE handle # 0
  <2>1. /\ handle \in DOMAIN listeners
        /\ listeners \in [1..Len(listeners) -> Listening] /\ Len(listeners) \in Nat
    BY <1>2 DEF McpTypes
  <2>2. Stopped(handle) = [listeners EXCEPT ![handle].state = "stopping"]
    BY <1>2 DEF Stopped
  <2>3. Stopped(handle) \in [1..Len(listeners) -> Listening]
    BY <2>1, <2>2 DEF Listening
  <2>4. Stopped(handle) \in Seq(Listening)
    BY <2>1, <2>3
  <2> QED BY <2>1, <2>2, <2>3, <2>4 DEF Listening
<1> QED BY <1>1, <1>2

LEMMA PortFacts ==
  ASSUME McpTypes, NEW l \in {0} \union DOMAIN listeners
  PROVE  PortOf(l) \in Nat
<1>1. CASE l = 0
  BY <1>1 DEF PortOf
<1>2. CASE l # 0
  <2>1. listeners[l] \in Listening
    BY <1>2 DEF McpTypes
  <2> QED BY <1>2, <2>1 DEF PortOf, Listening
<1> QED BY <1>1, <1>2

(* A call that goes on to another stage. *)
LEMMA StepFacts ==
  ASSUME McpTypes, NEW t \in Tasks, NEW at \in McpStages, Step(t, at)
  PROVE  /\ call' \in [Tasks -> McpCalls]
         /\ call'[t].at = at /\ call'[t].bound = call[t].bound
         /\ \A u \in Tasks : u # t => call'[u] = call[u]
BY DEF McpTypes, Step, McpCalls

LEMMA McpInitInv == McpInit => McpInv
<1> SUFFICES ASSUME McpInit PROVE McpInv
  OBVIOUS
<1>1. Idle \in McpCalls /\ Idle.at = "idle"
  BY McpAssumption DEF Idle, McpCalls, McpStages
<1>2. Off \in [running : BOOLEAN, port : Nat]
  BY McpAssumption DEF Off
<1>3. listeners \in Seq(Listening) /\ DOMAIN listeners = {}
  BY DEF McpInit
<1>4. \A t \in Tasks : call[t] = Idle
  BY DEF McpInit
<1>5. McpTypes
  BY <1>1, <1>2, <1>3, <1>4 DEF McpInit, McpTypes
<1> QED BY <1>1, <1>3, <1>4, <1>5 DEF McpInit, McpInv, NoEndpointForgotten, DownIsBare, OneByOne, PortOf

LEMMA McpLaunchInv == McpInv /\ McpLaunch => McpInv'
<1> SUFFICES ASSUME McpInv, McpLaunch PROVE McpInv'
  OBVIOUS
<1>1. /\ handle = 0 /\ mcpPort = 0 /\ ~overlap /\ \A t \in Tasks : call[t].at = "idle"
      /\ UNCHANGED <<handle, mcpPort, listeners, mcpFile, overlap>> /\ launched'
  BY DEF McpInv, DownIsBare, McpLaunch
<1>2. "restore" \in Tasks
  BY DEF Tasks
<1>3. /\ call' \in [Tasks -> McpCalls]
      /\ \A t \in Tasks : t # "restore" => call'[t] = call[t]
      /\ call'["restore"].at \in {"idle", "bind"}
  <2>1. CASE ~mcpFile.running
    BY <2>1, <1>1, <1>2 DEF McpLaunch, McpInv, McpTypes
  <2>2. CASE mcpFile.running
    <3>1. mcpFile.port \in Nat
      BY DEF McpInv, McpTypes
    <3>2. [Idle EXCEPT !.at = "bind", !.on = TRUE, !.port = mcpFile.port] \in McpCalls
      BY <3>1, McpAssumption DEF Idle, McpCalls, McpStages
    <3> QED BY <2>2, <3>2, <1>2 DEF McpLaunch, McpInv, McpTypes, Idle
  <2> QED BY <2>1, <2>2
<1>4. McpTypes'
  BY <1>1, <1>3 DEF McpInv, McpTypes, McpLaunch
<1>5. NoEndpointForgotten'
  BY <1>1 DEF McpInv, NoEndpointForgotten, Holds
<1>6. OneByOne'
  BY <1>1, <1>3 DEF OneByOne, PortOf
<1> QED BY <1>1, <1>4, <1>5, <1>6 DEF McpInv, DownIsBare

LEMMA SetInv ==
  ASSUME McpInv, NEW t \in Callers, NEW on \in BOOLEAN, NEW port \in Ports, SetEnabled(t, on, port)
  PROVE  McpInv'
<1>1. t \in Tasks /\ port \in Nat
  BY McpAssumption DEF Tasks
<1>2. /\ launched' /\ UNCHANGED <<handle, mcpPort, listeners, mcpFile>>
      /\ call' \in [Tasks -> McpCalls] /\ call[t].at = "idle" /\ call'[t].at = "stop"
      /\ \A u \in Tasks : u # t => call'[u] = call[u]
  BY <1>1 DEF SetEnabled, McpInv, McpTypes, McpCalls, McpStages
<1>3. ~overlap' => ~overlap /\ \A u \in Tasks : u # t => call[u].at = "idle"
  BY DEF SetEnabled, Calm
<1>4. McpTypes'
  BY <1>1, <1>2 DEF McpInv, McpTypes, SetEnabled
<1>5. NoEndpointForgotten'
  BY <1>1, <1>2 DEF McpInv, NoEndpointForgotten, Holds
<1>6. OneByOne'
  BY <1>1, <1>2, <1>3 DEF McpInv, OneByOne, PortOf
<1> QED BY <1>2, <1>4, <1>5, <1>6 DEF McpInv, DownIsBare

(* What the steps of a call have in common: they run in a launched app. *)
LEMMA BusyIsUp ==
  ASSUME McpInv, NEW t \in Tasks, call[t].at # "idle"
  PROVE  launched
BY DEF McpInv, DownIsBare

LEMMA TakeInv ==
  ASSUME McpInv, NEW t \in Tasks, TakeHandle(t)
  PROVE  McpInv'
<1>1. /\ handle' = 0 /\ UNCHANGED <<mcpPort, mcpFile, overlap, launched>> /\ launched
      /\ call[t].at = "stop"
  BY BusyIsUp DEF TakeHandle
<1>2. /\ call' \in [Tasks -> McpCalls] /\ call'[t].at = "clear"
      /\ \A u \in Tasks : u # t => call'[u] = call[u]
  BY StepFacts DEF McpInv, TakeHandle, McpStages
<1>3. /\ listeners' \in Seq(Listening) /\ DOMAIN listeners' = DOMAIN listeners
      /\ \A l \in DOMAIN listeners :
           /\ listeners'[l].port = listeners[l].port
           /\ listeners'[l].state = "open" => listeners[l].state = "open" /\ l # handle
  BY StoppedFacts DEF McpInv, TakeHandle
<1>4. McpTypes'
  BY <1>1, <1>2, <1>3 DEF McpInv, McpTypes
<1>5. NoEndpointForgotten'
  BY <1>1, <1>2, <1>3 DEF McpInv, NoEndpointForgotten, Holds
<1>6. OneByOne'
  BY <1>1, <1>2, <1>3 DEF McpInv, OneByOne
<1> QED BY <1>1, <1>4, <1>5, <1>6 DEF McpInv, DownIsBare

LEMMA ClearInv ==
  ASSUME McpInv, NEW t \in Tasks, ClearPort(t)
  PROVE  McpInv'
<1>1. /\ mcpPort' = 0 /\ UNCHANGED <<handle, listeners, mcpFile, overlap, launched>> /\ launched
      /\ call[t].at = "clear"
  BY BusyIsUp DEF ClearPort
<1>2. /\ call' \in [Tasks -> McpCalls] /\ call'[t].at \in {"bind", "save"}
      /\ \A u \in Tasks : u # t => call'[u] = call[u]
  <2>1. CASE call[t].on
    BY <2>1, StepFacts DEF McpInv, ClearPort, McpStages
  <2>2. CASE ~call[t].on
    BY <2>2, StepFacts DEF McpInv, ClearPort, McpStages
  <2> QED BY <2>1, <2>2
<1>3. McpTypes'
  BY <1>1, <1>2 DEF McpInv, McpTypes
<1>4. NoEndpointForgotten'
  BY <1>1, <1>2 DEF McpInv, NoEndpointForgotten, Holds
<1>5. OneByOne'
  BY <1>1, <1>2 DEF McpInv, OneByOne, PortOf
<1> QED BY <1>1, <1>3, <1>4, <1>5 DEF McpInv, DownIsBare

LEMMA McpBindInv ==
  ASSUME McpInv, NEW t \in Tasks, Bind(t)
  PROVE  McpInv'
<1> DEFINE new == Len(listeners) + 1
<1>1. Len(listeners) \in Nat /\ DOMAIN listeners = 1..Len(listeners) /\ call[t] \in McpCalls
  BY DEF McpInv, McpTypes
<1>2. /\ listeners' \in Seq(Listening) /\ DOMAIN listeners' = DOMAIN listeners \union {new}
      /\ \A l \in DOMAIN listeners : listeners'[l] = listeners[l]
  BY <1>1 DEF Bind, McpInv, McpTypes, Listening, McpCalls
<1>3. /\ call' \in [Tasks -> McpCalls]
      /\ call[t].at = "bind" /\ call'[t].at = "tell" /\ call'[t].bound = new
      /\ \A u \in Tasks : u # t => call'[u] = call[u]
  <2>1. [call[t] EXCEPT !.at = "tell", !.bound = new] \in McpCalls
    <3>1. new \in Nat /\ "tell" \in McpStages
      BY <1>1 DEF McpStages
    <3> HIDE DEF new
    <3> QED BY <1>1, <3>1 DEF McpCalls
  <2>2. call' = [call EXCEPT ![t] = [call[t] EXCEPT !.at = "tell", !.bound = new]]
    BY DEF Bind, McpInv, McpTypes, McpCalls
  <2> QED BY <1>1, <2>1, <2>2 DEF Bind, McpInv, McpTypes, McpCalls
<1>4. UNCHANGED <<handle, mcpPort, mcpFile, overlap, launched>> /\ launched
  BY <1>3, BusyIsUp DEF Bind
<1>5. McpTypes'
  BY <1>2, <1>3, <1>4 DEF McpInv, McpTypes
<1>6. NoEndpointForgotten'
  BY <1>2, <1>3, <1>4 DEF McpInv, NoEndpointForgotten, Holds
<1>7. OneByOne'
  BY <1>2, <1>3, <1>4 DEF McpInv, McpTypes, OneByOne, PortOf
<1> QED BY <1>4, <1>5, <1>6, <1>7 DEF McpInv, DownIsBare

LEMMA BindFailsInv ==
  ASSUME McpInv, NEW t \in Tasks, BindFails(t)
  PROVE  McpInv'
<1>1. /\ UNCHANGED <<handle, mcpPort, listeners, mcpFile, overlap, launched>> /\ launched
      /\ call[t].at = "bind"
  BY BusyIsUp DEF BindFails
<1>2. Idle \in McpCalls /\ Idle.at = "idle"
  BY McpAssumption DEF Idle, McpCalls, McpStages
<1>3. /\ call' \in [Tasks -> McpCalls] /\ call'[t].at = "idle"
      /\ \A u \in Tasks : u # t => call'[u] = call[u]
  BY <1>2 DEF BindFails, McpInv, McpTypes
<1>4. McpTypes'
  BY <1>1, <1>3 DEF McpInv, McpTypes
<1>5. NoEndpointForgotten'
  BY <1>1, <1>3 DEF McpInv, NoEndpointForgotten, Holds
<1>6. OneByOne'
  BY <1>1, <1>3 DEF McpInv, OneByOne, PortOf
<1> QED BY <1>1, <1>4, <1>5, <1>6 DEF McpInv, DownIsBare

LEMMA TellInv ==
  ASSUME McpInv, NEW t \in Tasks, TellPort(t)
  PROVE  McpInv'
<1>1. /\ mcpPort' = PortOf(call[t].bound) /\ call[t].at = "tell" /\ launched
      /\ UNCHANGED <<handle, listeners, mcpFile, overlap, launched>>
  BY BusyIsUp DEF TellPort
<1>2. /\ call' \in [Tasks -> McpCalls] /\ call'[t].at = "keep" /\ call'[t].bound = call[t].bound
      /\ \A u \in Tasks : u # t => call'[u] = call[u]
  BY StepFacts DEF McpInv, TellPort, McpStages
<1>3. mcpPort' \in Nat
  BY <1>1, PortFacts DEF McpInv, McpTypes
<1>4. McpTypes'
  BY <1>1, <1>2, <1>3 DEF McpInv, McpTypes
<1>5. NoEndpointForgotten'
  BY <1>1, <1>2 DEF McpInv, NoEndpointForgotten, Holds
<1>6. OneByOne'
  BY <1>1, <1>2 DEF McpInv, OneByOne, PortOf
<1> QED BY <1>1, <1>4, <1>5, <1>6 DEF McpInv, DownIsBare

LEMMA McpKeepInv ==
  ASSUME McpInv, NEW t \in Tasks, KeepHandle(t)
  PROVE  McpInv'
<1>1. /\ handle' = call[t].bound /\ UNCHANGED <<mcpPort, mcpFile, overlap, launched>> /\ launched
      /\ call[t].at = "keep" /\ call[t].bound \in DOMAIN listeners
  BY BusyIsUp DEF KeepHandle, McpInv, McpTypes
<1>2. Idle \in McpCalls /\ Idle.at = "idle"
  BY McpAssumption DEF Idle, McpCalls, McpStages
<1>3. /\ call' \in [Tasks -> McpCalls] /\ call'[t].at \in {"idle", "save"}
      /\ \A u \in Tasks : u # t => call'[u] = call[u]
  BY <1>2 DEF KeepHandle, McpInv, McpTypes, McpCalls, McpStages
<1>4. /\ listeners' \in Seq(Listening) /\ DOMAIN listeners' = DOMAIN listeners
      /\ \A l \in DOMAIN listeners :
           /\ listeners'[l].port = listeners[l].port
           /\ listeners'[l].state = "open" => listeners[l].state = "open" /\ l # handle
  BY StoppedFacts DEF McpInv, KeepHandle
<1>5. McpTypes'
  BY <1>1, <1>3, <1>4 DEF McpInv, McpTypes
<1>6. NoEndpointForgotten'
  BY <1>1, <1>3, <1>4 DEF McpInv, NoEndpointForgotten, Holds
<1>7. OneByOne'
  <2>1. PortOf(handle)' = PortOf(call[t].bound)
    BY <1>1, <1>4 DEF PortOf
  <2>2. ~overlap => mcpPort = PortOf(call[t].bound) /\ \A u \in Tasks : u # t => call[u].at = "idle"
    BY <1>1 DEF McpInv, OneByOne
  <2>3. ~overlap => \A u \in Tasks : call'[u].at \in {"idle", "save"}
                                  /\ (call'[u].at # "idle" => u = t)
    BY <1>3, <2>2
  <2> QED BY <1>1, <2>1, <2>2, <2>3 DEF OneByOne
<1> QED BY <1>1, <1>5, <1>6, <1>7 DEF McpInv, DownIsBare

LEMMA SaveInv ==
  ASSUME McpInv, NEW t \in Tasks, Save(t)
  PROVE  McpInv'
<1>1. /\ UNCHANGED <<handle, mcpPort, listeners, overlap, launched>> /\ launched
      /\ call[t].at = "save"
  BY BusyIsUp DEF Save
<1>2. Idle \in McpCalls /\ Idle.at = "idle"
  BY McpAssumption DEF Idle, McpCalls, McpStages
<1>3. /\ call' \in [Tasks -> McpCalls] /\ call'[t].at = "idle"
      /\ \A u \in Tasks : u # t => call'[u] = call[u]
  BY <1>2 DEF Save, McpInv, McpTypes
<1>4. PortOf(handle) \in Nat
  BY PortFacts DEF McpInv, McpTypes
<1>5. mcpFile' \in [running : BOOLEAN, port : Nat]
  <2>1. /\ DefaultPort \in Nat /\ Torn \in [running : BOOLEAN, port : Nat]
        /\ mcpFile \in [running : BOOLEAN, port : Nat]
    BY McpAssumption DEF Torn, McpInv, McpTypes
  <2>2. [running |-> handle # 0, port |-> IF handle = 0 THEN DefaultPort ELSE PortOf(handle)]
          \in [running : BOOLEAN, port : Nat]
    BY <1>4, <2>1
  <2> QED BY <2>1, <2>2 DEF Save
<1>6. McpTypes'
  BY <1>1, <1>3, <1>5 DEF McpInv, McpTypes
<1>7. NoEndpointForgotten'
  BY <1>1, <1>3 DEF McpInv, NoEndpointForgotten, Holds
<1>8. OneByOne'
  BY <1>1, <1>3 DEF McpInv, OneByOne, PortOf
<1> QED BY <1>1, <1>6, <1>7, <1>8 DEF McpInv, DownIsBare

LEMMA McpEndInv ==
  ASSUME McpInv, NEW l \in DOMAIN listeners, AcceptLoopEnds(l)
  PROVE  McpInv'
<1>1. listeners \in [1..Len(listeners) -> Listening] /\ Len(listeners) \in Nat
  BY DEF McpInv, McpTypes
<1>2. listeners' \in [1..Len(listeners) -> Listening]
  BY <1>1 DEF AcceptLoopEnds, Listening
<1>3. /\ listeners' \in Seq(Listening) /\ DOMAIN listeners' = DOMAIN listeners
      /\ \A k \in DOMAIN listeners :
           /\ listeners'[k].port = listeners[k].port
           /\ listeners'[k].state = "open" => listeners[k].state = "open"
  <2>1. \A k \in DOMAIN listeners : k # l => listeners'[k] = listeners[k]
    BY DEF AcceptLoopEnds
  <2>2. listeners'[l].port = listeners[l].port /\ listeners'[l].state = "closed"
    BY <1>1 DEF AcceptLoopEnds, Listening
  <2>3. listeners' \in Seq(Listening) /\ DOMAIN listeners' = DOMAIN listeners
    BY <1>1, <1>2
  <2> QED BY <2>1, <2>2, <2>3
<1>4. UNCHANGED <<handle, mcpPort, mcpFile, call, overlap, launched>>
  BY DEF AcceptLoopEnds
<1>5. McpTypes' /\ NoEndpointForgotten' /\ DownIsBare'
  BY <1>3, <1>4 DEF McpInv, McpTypes, NoEndpointForgotten, Holds, DownIsBare
<1>6. OneByOne'
  BY <1>3, <1>4 DEF McpInv, McpTypes, OneByOne, PortOf
<1> QED BY <1>5, <1>6 DEF McpInv

LEMMA McpExitInv == McpInv /\ McpExit => McpInv'
<1> SUFFICES ASSUME McpInv, McpExit PROVE McpInv'
  OBVIOUS
<1>1. listeners \in [1..Len(listeners) -> Listening] /\ Len(listeners) \in Nat
  BY DEF McpInv, McpTypes
<1>2. listeners' \in [1..Len(listeners) -> Listening] /\ \A l \in DOMAIN listeners' : listeners'[l].state = "closed"
  BY <1>1 DEF McpExit, Listening
<1>3. listeners' \in Seq(Listening)
  BY <1>1, <1>2
<1>4. Idle \in McpCalls /\ Idle.at = "idle"
  BY McpAssumption DEF Idle, McpCalls, McpStages
<1>5. call' \in [Tasks -> McpCalls] /\ \A t \in Tasks : call'[t].at = "idle"
  BY <1>4 DEF McpExit
<1>6. /\ handle' = 0 /\ mcpPort' = 0 /\ mcpFile' = mcpFile
      /\ overlap' = FALSE /\ launched' = FALSE
  BY DEF McpExit
<1>7. McpTypes'
  <2>1. mcpFile' \in [running : BOOLEAN, port : Nat]
    BY <1>6 DEF McpInv, McpTypes
  <2>2. \A t \in Tasks : ~(call'[t].at \in {"tell", "keep"})
    BY <1>5
  <2> QED BY <1>3, <1>5, <1>6, <2>1, <2>2 DEF McpTypes
<1>8. NoEndpointForgotten' /\ DownIsBare'
  BY <1>2, <1>5, <1>6 DEF NoEndpointForgotten, DownIsBare
<1>9. OneByOne'
  BY <1>5, <1>6 DEF OneByOne, PortOf
<1> QED BY <1>7, <1>8, <1>9 DEF McpInv

LEMMA McpNextInv == McpInv /\ [McpNext]_mcpVars => McpInv'
<1> SUFFICES ASSUME McpInv, [McpNext]_mcpVars PROVE McpInv'
  OBVIOUS
<1>1. CASE UNCHANGED mcpVars
  BY <1>1 DEF mcpVars, McpInv, McpTypes, NoEndpointForgotten, Holds, DownIsBare, OneByOne, PortOf
<1>2. CASE McpNext
  BY <1>2, McpLaunchInv, McpExitInv, SetInv, TakeInv, ClearInv, McpBindInv, BindFailsInv, TellInv, McpKeepInv,
     SaveInv, McpEndInv DEF McpNext
<1> QED BY <1>1, <1>2

LEMMA McpInvOwned == McpInv => EndpointOwned
<1> SUFFICES ASSUME McpInv PROVE EndpointOwned
  OBVIOUS
<1>1. \A l \in DOMAIN listeners : listeners[l].state = "open" =>
        \/ handle = l
        \/ \E t \in Tasks : call[t].at \in {"tell", "keep"} /\ call[t].bound = l
  BY DEF McpInv, NoEndpointForgotten, Holds
<1>2. (~overlap /\ \A t \in Tasks : call[t].at = "idle") => mcpPort = PortOf(handle)
  BY DEF McpInv, OneByOne
<1> QED BY <1>1, <1>2 DEF EndpointOwned

(* Whatever calls overlap, fail or are cut short by the end of the app, no *)
(* listener is left that the switch cannot turn off, and calls that do not *)
(* overlap leave the endpoint's port the one listened on (commands.rs      *)
(* set_mcp_enabled and stop_mcp, mcp.rs start).                            *)
THEOREM EndpointIsOwned == McpSpec => []EndpointOwned
<1>1. McpSpec => []McpInv
  BY McpInitInv, McpNextInv, PTL DEF McpSpec
<1> QED BY <1>1, McpInvOwned, PTL

------------------------------------------------------------------------------
(***************************************************************************)
(* That the engine's key is its certificate's, and that a certificate is   *)
(* said to be trusted exactly where it is, on every platform, for any      *)
(* number of certificates generated, prompts turned down, and leftovers in *)
(* the stores.                                                             *)
(***************************************************************************)
Slots == {"page", "regen"}
Types ==
  /\ pem \in Int /\ key \in Int /\ made \in Nat /\ faults \in Nat
  /\ DOMAIN task = Slots
  /\ \A t \in Slots : DOMAIN task[t] = {"at", "op", "id", "plans"}

(* The files of one moment belong together, as far as they parse. *)
Fit(cert, private) == cert > 0 /\ private > 0 => cert = private

(* What has been loaded fits, and so does what a launch would load, except *)
(* between the writes of a pair.                                           *)
PairsFit ==
  faults <= 1 =>
    /\ Fit(ca.cert, ca.key) /\ engine.cert = engine.key
    /\ IF task["regen"].at = "writeKey" THEN pem = made ELSE Fit(pem, key)

(* While nothing has failed the files are both there or both gone, and a   *)
(* regeneration takes them away one by one and writes them one by one.     *)
StepByStep ==
  faults = 0 =>
    CASE task["regen"].at = "removeKey" -> pem = Absent
      [] task["regen"].at = "writePem"  -> pem = Absent /\ key = Absent
      [] task["regen"].at = "writeKey"  -> key = Absent
      [] OTHER                          -> pem = key

CertInv == Types /\ PairsFit /\ StepByStep

------------------------------------------------------------------------------
LEMMA CertInitInv == CertInit => CertInv
<1> SUFFICES ASSUME CertInit PROVE CertInv
  OBVIOUS
<1>1. /\ pem = 0 /\ key = 0 /\ made = 0 /\ faults = 0
      /\ ca.cert = 0 /\ ca.key = 0 /\ engine.cert = 0 /\ engine.key = 0
  BY DEF CertInit, Absent, NoPair
<1>2. DOMAIN task = Slots /\ \A t \in Slots : task[t] = Done
  BY DEF CertInit, Slots
<1>3. Types
  BY <1>1, <1>2 DEF Types, Done
<1>4. task["regen"].at = "idle"
  BY <1>2 DEF Slots, Done
<1> QED BY <1>1, <1>3, <1>4 DEF CertInv, PairsFit, StepByStep, Fit

(* A step that concerns neither the files nor what was loaded from them,   *)
(* and does not move a regeneration between its stages.                    *)
LEMMA Elsewhere ==
  ASSUME CertInv, Types', UNCHANGED <<pem, key, made, ca, engine, faults>>,
         \/ task'["regen"].at = task["regen"].at
         \/ {task["regen"].at, task'["regen"].at} \subseteq {"idle", "plan", "load"}
  PROVE  CertInv'
BY DEF CertInv, PairsFit, StepByStep

(* The tasks keep their shape when one of them changes a field, or all. *)
LEMMA TaskFacts ==
  ASSUME Types, NEW t \in Slots, NEW at
  PROVE  LET moved == [task EXCEPT ![t].at = at]
         IN /\ DOMAIN moved = Slots
            /\ \A u \in Slots : DOMAIN moved[u] = {"at", "op", "id", "plans"}
            /\ moved[t].at = at /\ \A u \in Slots \ {t} : moved[u] = task[u]
BY DEF Types

LEMMA SlotFacts ==
  ASSUME Types, NEW t \in Slots, NEW record, DOMAIN record = {"at", "op", "id", "plans"}
  PROVE  LET moved == [task EXCEPT ![t] = record]
         IN /\ DOMAIN moved = Slots
            /\ \A u \in Slots : DOMAIN moved[u] = {"at", "op", "id", "plans"}
            /\ moved[t] = record /\ \A u \in Slots \ {t} : moved[u] = task[u]
BY DEF Types

LEMMA PlanFacts ==
  ASSUME Types, NEW t \in Slots, NEW plans
  PROVE  LET moved == [task EXCEPT ![t].plans = plans]
         IN /\ DOMAIN moved = Slots
            /\ \A u \in Slots : DOMAIN moved[u] = {"at", "op", "id", "plans"}
            /\ \A u \in Slots : moved[u].at = task[u].at
BY DEF Types

------------------------------------------------------------------------------
(* Commands, and their plans. *)
LEMMA StartInv ==
  ASSUME CertInv, NEW t \in Slots, NEW op, NEW plans, Start(t, op, plans)
  PROVE  CertInv'
<1> DEFINE record == [at |-> "plan", op |-> op, id |-> ca.cert, plans |-> plans]
<1>1. task[t] = Done /\ task' = [task EXCEPT ![t] = record]
      /\ UNCHANGED <<pem, key, made, ca, engine, faults>>
  BY DEF Start, files
<1>2. DOMAIN record = {"at", "op", "id", "plans"} /\ record.at = "plan"
  OBVIOUS
<1> HIDE DEF record
<1>3. /\ DOMAIN task' = Slots
      /\ \A u \in Slots : DOMAIN task'[u] = {"at", "op", "id", "plans"}
      /\ task'[t].at = "plan" /\ \A u \in Slots \ {t} : task'[u] = task[u]
  BY <1>1, <1>2, SlotFacts DEF CertInv
<1>4. Types'
  BY <1>1, <1>3 DEF CertInv, Types
<1>5. task[t].at = "idle"
  BY <1>1 DEF Done
<1> QED BY <1>1, <1>3, <1>4, <1>5, Elsewhere DEF Slots

LEMMA PlanInv ==
  ASSUME CertInv, NEW t \in DOMAIN task, StepRuns(t) \/ StepFails(t)
  PROVE  CertInv'
<1>1. t \in Slots
  BY DEF CertInv, Types
<1>2. UNCHANGED <<pem, key, made, ca, engine, faults>>
  BY DEF StepRuns, StepFails, files
<1>3. PICK plans : task' = [task EXCEPT ![t].plans = plans]
  <2>1. PICK failed \in BOOLEAN : Onward(t, failed)
    BY DEF StepRuns, StepFails
  <2> QED BY <2>1 DEF Onward
<1>4. /\ DOMAIN task' = Slots
      /\ \A u \in Slots : DOMAIN task'[u] = {"at", "op", "id", "plans"}
      /\ \A u \in Slots : task'[u].at = task[u].at
  BY <1>1, <1>3, PlanFacts DEF CertInv
<1>5. Types'
  BY <1>2, <1>4 DEF CertInv, Types
<1> QED BY <1>2, <1>4, <1>5, Elsewhere DEF Slots

(* A slot that is done with, or begins to load. *)
LEMMA DoneFacts ==
  ASSUME Types
  PROVE  \A t \in Slots : LET moved == [task EXCEPT ![t] = Done]
         IN /\ DOMAIN moved = Slots
            /\ \A u \in Slots : DOMAIN moved[u] = {"at", "op", "id", "plans"}
            /\ moved[t].at = "idle" /\ \A u \in Slots \ {t} : moved[u] = task[u]
<1>1. DOMAIN Done = {"at", "op", "id", "plans"} /\ Done.at = "idle"
  BY DEF Done
<1> QED BY <1>1, SlotFacts

LEMMA ConfirmInv == CertInv /\ Confirm => CertInv'
<1> SUFFICES ASSUME CertInv, Confirm PROVE CertInv'
  OBVIOUS
<1>1. UNCHANGED <<pem, key, made, ca, engine, faults>> /\ task' = [task EXCEPT !["page"] = Done]
  BY DEF Confirm, files
<1>2. /\ DOMAIN task' = Slots
      /\ \A u \in Slots : DOMAIN task'[u] = {"at", "op", "id", "plans"}
      /\ task'["regen"] = task["regen"]
  BY <1>1, DoneFacts DEF CertInv, Slots
<1>3. Types'
  BY <1>1, <1>2 DEF CertInv, Types
<1> QED BY <1>1, <1>2, <1>3, Elsewhere

LEMMA LaunchInv == CertInv /\ LoadAtLaunch => CertInv'
<1> SUFFICES ASSUME CertInv, LoadAtLaunch PROVE CertInv'
  OBVIOUS
<1> DEFINE record == [Done EXCEPT !.at = "load", !.op = "launch"]
<1>1. /\ UNCHANGED <<pem, key, made, ca, engine, faults>>
      /\ task["regen"] = Done /\ task' = [task EXCEPT !["regen"] = record]
  BY DEF LoadAtLaunch, files
<1>2. DOMAIN record = {"at", "op", "id", "plans"} /\ record.at = "load"
  BY DEF Done
<1> HIDE DEF record
<1>3. /\ DOMAIN task' = Slots
      /\ \A u \in Slots : DOMAIN task'[u] = {"at", "op", "id", "plans"}
      /\ task'["regen"].at = "load"
  BY <1>1, <1>2, SlotFacts DEF CertInv, Slots
<1>4. Types' /\ task["regen"].at = "idle"
  BY <1>1, <1>3 DEF CertInv, Types, Done
<1> QED BY <1>1, <1>3, <1>4, Elsewhere

------------------------------------------------------------------------------
(* The stages of a regeneration. *)
LEMMA AtFacts ==
  ASSUME Types, NEW now, NEW next, At("regen", now, next)
  PROVE  /\ DOMAIN task' = Slots
         /\ \A u \in Slots : DOMAIN task'[u] = {"at", "op", "id", "plans"}
         /\ task["regen"].at = now /\ task'["regen"].at = next
BY TaskFacts DEF At, Slots

LEMMA RemoveInv ==
  ASSUME CertInv, RemovePem \/ RemoveKey
  PROVE  CertInv'
<1>1. CASE RemovePem
  <2>1. /\ DOMAIN task' = Slots
        /\ \A u \in Slots : DOMAIN task'[u] = {"at", "op", "id", "plans"}
        /\ task["regen"].at = "plan" /\ task'["regen"].at = "removeKey"
    BY <1>1, AtFacts DEF RemovePem, CertInv
  <2>2. pem' = 0 /\ UNCHANGED <<key, made, ca, engine, faults>>
    BY <1>1 DEF RemovePem, Absent
  <2> QED BY <2>1, <2>2 DEF CertInv, Types, PairsFit, StepByStep, Fit, Absent
<1>2. CASE RemoveKey
  <2>1. /\ DOMAIN task' = Slots
        /\ \A u \in Slots : DOMAIN task'[u] = {"at", "op", "id", "plans"}
        /\ task["regen"].at = "removeKey" /\ task'["regen"].at = "load"
    BY <1>2, AtFacts DEF RemoveKey, CertInv
  <2>2. key' = 0 /\ UNCHANGED <<pem, made, ca, engine, faults>>
    BY <1>2 DEF RemoveKey, Absent
  <2> QED BY <2>1, <2>2 DEF CertInv, Types, PairsFit, StepByStep, Fit, Absent
<1> QED BY <1>1, <1>2

LEMMA RemoveFailsInv == CertInv /\ RemoveFails => CertInv'
<1> SUFFICES ASSUME CertInv, RemoveFails PROVE CertInv'
  OBVIOUS
<1>1. faults' = faults + 1 /\ UNCHANGED <<pem, key, made, ca, engine>>
  BY DEF RemoveFails, files
<1>2. /\ DOMAIN task' = Slots
      /\ \A u \in Slots : DOMAIN task'[u] = {"at", "op", "id", "plans"}
      /\ \/ task["regen"].at = "plan" /\ task'["regen"].at = "removeKey"
         \/ task["regen"].at = "removeKey" /\ task'["regen"].at = "load"
  BY AtFacts DEF RemoveFails, CertInv
<1> QED BY <1>1, <1>2 DEF CertInv, Types, PairsFit, StepByStep

LEMMA LoadInv == CertInv /\ Load => CertInv'
<1> SUFFICES ASSUME CertInv, Load PROVE CertInv'
  OBVIOUS
<1>1. /\ task["regen"].at = "load" /\ ca'.cert = pem /\ ca'.key = key
      /\ UNCHANGED <<pem, key, made, engine, faults>>
  BY DEF Load, files
<1>2. /\ DOMAIN task' = Slots
      /\ \A u \in Slots : DOMAIN task'[u] = {"at", "op", "id", "plans"}
      /\ task'["regen"].at = "idle"
  BY DoneFacts DEF Load, CertInv, Slots
<1> QED BY <1>1, <1>2 DEF CertInv, Types, PairsFit, StepByStep

LEMMA CreateInv == CertInv /\ Create => CertInv'
<1> SUFFICES ASSUME CertInv, Create PROVE CertInv'
  OBVIOUS
<1>1. (pem = 0 \/ key = 0) /\ UNCHANGED <<pem, key, made, ca, engine, faults>>
  BY DEF Create, files, Absent
<1>2. /\ DOMAIN task' = Slots
      /\ \A u \in Slots : DOMAIN task'[u] = {"at", "op", "id", "plans"}
      /\ task["regen"].at = "load" /\ task'["regen"].at = "writePem"
  BY AtFacts DEF Create, CertInv
<1> QED BY <1>1, <1>2 DEF CertInv, Types, PairsFit, StepByStep, Absent

LEMMA WritePemInv == CertInv /\ WritePem => CertInv'
<1> SUFFICES ASSUME CertInv, WritePem PROVE CertInv'
  OBVIOUS
<1>1. made' = made + 1 /\ pem' = made' /\ UNCHANGED <<key, ca, engine, faults>>
  BY DEF WritePem
<1>2. /\ DOMAIN task' = Slots
      /\ \A u \in Slots : DOMAIN task'[u] = {"at", "op", "id", "plans"}
      /\ task["regen"].at = "writePem" /\ task'["regen"].at = "writeKey"
  BY AtFacts DEF WritePem, CertInv
<1> QED BY <1>1, <1>2 DEF CertInv, Types, PairsFit, StepByStep

LEMMA WriteKeyInv == CertInv /\ WriteKey => CertInv'
<1> SUFFICES ASSUME CertInv, WriteKey PROVE CertInv'
  OBVIOUS
<1>1. /\ task["regen"].at = "writeKey" /\ key' = made /\ ca'.cert = made /\ ca'.key = made
      /\ UNCHANGED <<pem, made, engine, faults>>
  BY DEF WriteKey
<1>2. /\ DOMAIN task' = Slots
      /\ \A u \in Slots : DOMAIN task'[u] = {"at", "op", "id", "plans"}
      /\ task'["regen"].at = "idle"
  BY DoneFacts DEF WriteKey, CertInv, Slots
<1>3. Types'
  BY <1>1, <1>2 DEF CertInv, Types
<1>4. PairsFit'
  BY <1>1, <1>2 DEF CertInv, PairsFit, Fit
<1>5. StepByStep'
  <2> SUFFICES ASSUME faults = 0 PROVE pem' = key'
    BY <1>1, <1>2 DEF StepByStep
  <2> QED BY <1>1 DEF CertInv, PairsFit
<1> QED BY <1>3, <1>4, <1>5 DEF CertInv

LEMMA WriteFailsInv == CertInv /\ WriteFails => CertInv'
<1> SUFFICES ASSUME CertInv, WriteFails PROVE CertInv'
  OBVIOUS
<1>1. /\ faults' = faults + 1 /\ UNCHANGED <<made, ca, engine>>
      /\ \/ task["regen"].at = "writePem" /\ pem' \in {pem, -1} /\ key' = key
         \/ task["regen"].at = "writeKey" /\ key' \in {key, -1} /\ pem' = pem
  BY DEF WriteFails, Ripped
<1>2. /\ DOMAIN task' = Slots
      /\ \A u \in Slots : DOMAIN task'[u] = {"at", "op", "id", "plans"}
      /\ task'["regen"].at = "idle"
  BY DoneFacts DEF WriteFails, CertInv, Slots
<1>3. Types'
  BY <1>1, <1>2 DEF CertInv, Types
<1>4. PairsFit'
  <2> SUFFICES ASSUME faults = 0
               PROVE  Fit(ca.cert, ca.key) /\ engine.cert = engine.key /\ Fit(pem', key')
    BY <1>1, <1>2 DEF PairsFit, CertInv, Types
  <2> QED BY <1>1 DEF CertInv, PairsFit, StepByStep, Fit, Absent
<1>5. StepByStep'
  BY <1>1 DEF CertInv, Types, StepByStep
<1> QED BY <1>3, <1>4, <1>5 DEF CertInv

LEMMA StartEngineInv == CertInv /\ StartEngine => CertInv'
<1> SUFFICES ASSUME CertInv, StartEngine PROVE CertInv'
  OBVIOUS
<1>1. /\ ca.cert > 0 /\ ca.key > 0 /\ engine' = ca
      /\ UNCHANGED <<pem, key, made, ca, task, faults>>
  BY DEF StartEngine, files
<1> QED BY <1>1 DEF CertInv, Types, PairsFit, StepByStep, Fit

LEMMA CrashInv == CertInv /\ CertCrash => CertInv'
<1> SUFFICES ASSUME CertInv, CertCrash PROVE CertInv'
  OBVIOUS
<1>1. /\ faults' = faults + 1 /\ made' = made
      /\ ca'.cert = 0 /\ ca'.key = 0 /\ engine'.cert = 0 /\ engine'.key = 0
      /\ pem' = pem \/ (task["regen"].at = "writePem" /\ pem' = -1)
      /\ key' = key \/ (task["regen"].at = "writeKey" /\ key' = -1)
  BY DEF CertCrash, NoPair, Ripped
<1>2. /\ DOMAIN task' = Slots
      /\ \A u \in Slots : DOMAIN task'[u] = {"at", "op", "id", "plans"}
      /\ task'["regen"].at = "idle"
  <2>1. task' = [t \in Slots |-> Done]
    BY DEF CertCrash, CertInv, Types
  <2> QED BY <2>1 DEF Slots, Done
<1>3. Types'
  BY <1>1, <1>2 DEF CertInv, Types
<1>4. PairsFit'
  <2> SUFFICES ASSUME faults = 0 PROVE Fit(pem', key')
    BY <1>1, <1>2 DEF PairsFit, CertInv, Types, Fit
  <2> QED BY <1>1 DEF CertInv, PairsFit, StepByStep, Fit, Absent
<1>5. StepByStep'
  BY <1>1 DEF CertInv, Types, StepByStep
<1> QED BY <1>3, <1>4, <1>5 DEF CertInv

LEMMA CertNextInv == CertInv /\ [CertNext]_certVars => CertInv'
<1> SUFFICES ASSUME CertInv, [CertNext]_certVars PROVE CertInv'
  OBVIOUS
<1>1. CASE UNCHANGED certVars
  BY <1>1 DEF certVars, CertInv, Types, PairsFit, StepByStep
<1>2. CASE \E d \in Domains : Install(d)
  BY <1>2, StartInv DEF Install, Slots
<1>3. CASE Uninstall
  BY <1>3, StartInv DEF Uninstall, Slots
<1>4. CASE Regenerate
  BY <1>4, StartInv DEF Regenerate, Slots
<1>5. CASE \E t \in DOMAIN task : StepRuns(t) \/ StepFails(t)
  BY <1>5, PlanInv
<1> QED BY <1>1, <1>2, <1>3, <1>4, <1>5, ConfirmInv, RemoveInv, RemoveFailsInv, LoadInv, CreateInv,
           WritePemInv, WriteKeyInv, WriteFailsInv, LaunchInv, StartEngineInv, CrashInv DEF CertNext

LEMMA CertInvFits == CertInv => KeyFitsCertificate
BY DEF CertInv, PairsFit, KeyFitsCertificate

(* One crash or failed file operation, wherever it falls in a regeneration *)
(* or in the launch after it, never leads to an engine that signs with a   *)
(* key that is not its certificate's (ca.rs load_or_create, commands.rs    *)
(* regenerate_ca).                                                         *)
THEOREM KeyFits == CertSpec => []KeyFitsCertificate
<1>1. CertSpec => []CertInv
  BY CertInitInv, CertNextInv, PTL DEF CertSpec
<1> QED BY <1>1, CertInvFits, PTL

------------------------------------------------------------------------------
(* Where the stores may disagree on what is trusted.  The plans that take  *)
(* two steps to change a store leave it in between only while the second   *)
(* is still to be run, whatever other plans do to it meanwhile.            *)
Shapes(d) ==
  CASE platform = "macos" -> {<<"add-trusted">>, <<"remove-trusted", "delete">>, <<"delete">>}
    [] platform = "linux" /\ d = "system" ->
         {<<"anchor", "rebuild">>, <<"unanchor", "rebuild">>, <<"rebuild">>}
    [] OTHER -> {<<"add">>, <<"delete">>}

Steps == {"add-trusted", "remove-trusted", "add", "delete", "anchor", "unanchor", "rebuild"}

PlansLeft == {p \in [d : Domains, steps : Seq(Steps), bestEffort : BOOLEAN] :
                p.steps \in Shapes(p.d)}

Planned ==
  /\ platform \in {"macos", "windows", "linux"}
  /\ DOMAIN held = Domains /\ DOMAIN honoured = Domains
  /\ \A t \in Slots : task[t].plans \in Seq(PlansLeft)

HalfWay(t, d) == /\ Running(t)
                 /\ Plan(t).d = d
                 /\ Plan(t).steps \in {<<"delete">>, <<"rebuild">>}

Agree(h, s, d) == /\ platform = "macos" => h \subseteq s
                  /\ platform = "linux" /\ d = "system" => h = s

StoresAgree ==
  \A d \in Domains \ partly : (\E t \in Slots : HalfWay(t, d)) \/ Agree(held[d], honoured[d], d)

TrustInv == Planned /\ StoresAgree

LEMMA TrustInitInv == CertInit => TrustInv
<1> SUFFICES ASSUME CertInit PROVE TrustInv
  OBVIOUS
<1>1. /\ platform \in {"macos", "windows", "linux"}
      /\ DOMAIN held = Domains /\ DOMAIN honoured = Domains
      /\ \A d \in Domains : held[d] = {} /\ honoured[d] = {}
  BY CertificatesAssumption DEF CertInit
<1>2. \A t \in Slots : task[t].plans = <<>>
  BY DEF CertInit, Slots, Done
<1>3. <<>> \in Seq(PlansLeft)
  OBVIOUS
<1>4. Planned
  BY <1>1, <1>2, <1>3 DEF Planned
<1> QED BY <1>1, <1>4 DEF TrustInv, StoresAgree, Agree

(* Stores that are left alone stay as they agreed, while no plan that is   *)
(* half way is lost sight of.                                              *)
LEMMA AgreeStill ==
  ASSUME TrustInv, partly \subseteq partly', UNCHANGED <<platform, held, honoured>>,
         \A t \in Slots, d \in Domains \ partly' : HalfWay(t, d) => HalfWay(t, d)'
  PROVE  StoresAgree'
BY DEF TrustInv, StoresAgree, Agree

(* So it is when the slots that change run no plan, before or after. *)
LEMMA TrustElsewhere ==
  ASSUME TrustInv, partly \subseteq partly', UNCHANGED <<platform, held, honoured>>,
         \A t \in Slots : \/ task'[t].at = task[t].at /\ task'[t].plans = task[t].plans
                          \/ ~Running(t) /\ task'[t].plans \in Seq(PlansLeft)
  PROVE  TrustInv'
<1>1. PlansLeft' = PlansLeft
  BY DEF PlansLeft, Shapes
<1>2. Planned'
  BY <1>1 DEF TrustInv, Planned
<1>3. \A t \in Slots, d \in Domains : HalfWay(t, d) => HalfWay(t, d)'
  BY DEF HalfWay, Running, Plan
<1> QED BY <1>2, <1>3, AgreeStill DEF TrustInv

LEMMA OneLong ==
  ASSUME NEW S, NEW b \in S, NEW r \in Seq(S), Len(r) = 1, r[1] = b
  PROVE  r = <<b>> /\ <<b>> \in Seq(S)
<1>1. <<b>> \in Seq(S) /\ Len(<<b>>) = 1 /\ <<b>>[1] = b
  OBVIOUS
<1>2. \A i \in 1..Len(r) : r[i] = <<b>>[i]
  BY <1>1
<1> QED BY <1>1, <1>2, SeqEqual

LEMMA TailOfPair ==
  ASSUME NEW S, NEW a \in S, NEW b \in S
  PROVE  Tail(<<a, b>>) = <<b>> /\ <<b>> \in Seq(S)
<1> DEFINE s == <<a, b>>
<1>1. s \in Seq(S) /\ Len(s) = 2 /\ s[2] = b
  OBVIOUS
<1> HIDE DEF s
<1>2. Tail(s) \in Seq(S) /\ Len(Tail(s)) = 1 /\ Tail(s)[1] = b
  BY <1>1
<1>3. Tail(s) = <<b>> /\ <<b>> \in Seq(S)
  BY <1>2, OneLong
<1> QED BY <1>3 DEF s

LEMMA TailsOfSteps ==
  /\ <<"delete">> \in Seq(Steps) /\ <<"rebuild">> \in Seq(Steps)
  /\ Tail(<<"remove-trusted", "delete">>) = <<"delete">>
  /\ Tail(<<"anchor", "rebuild">>) = <<"rebuild">>
  /\ Tail(<<"unanchor", "rebuild">>) = <<"rebuild">>
<1>1. {"remove-trusted", "delete", "anchor", "unanchor", "rebuild"} \subseteq Steps
  BY DEF Steps
<1> QED BY <1>1, TailOfPair

(* What is left of a plan is a plan. *)
LEMMA OnwardFacts ==
  ASSUME CertInv, Planned, NEW t \in Slots, Running(t), NEW failed \in BOOLEAN, Onward(t, failed)
  PROVE  /\ task'[t].plans \in Seq(PlansLeft)
         /\ task'[t].at = task[t].at
         /\ \A u \in Slots \ {t} : task'[u] = task[u]
         /\ ~failed /\ Len(Plan(t).steps) # 1 =>
              /\ task'[t].plans # <<>>
              /\ Head(task'[t].plans).d = Plan(t).d
              /\ Head(task'[t].plans).steps = Tail(Plan(t).steps)
<1> DEFINE p    == Plan(t)
           rest == Tail(task[t].plans)
           q    == [p EXCEPT !.steps = Tail(@)]
           over == Len(p.steps) = 1 \/ (failed /\ ~p.bestEffort)
<1>1. p \in PlansLeft /\ rest \in Seq(PlansLeft)
  BY DEF Planned, Running, Plan
<1>2. t \in DOMAIN task /\ "plans" \in DOMAIN task[t] /\ "at" \in DOMAIN task[t]
  BY DEF CertInv, Types
<1>3. task'[t].plans = (IF over THEN rest ELSE <<q>> \o rest)
      /\ task'[t].at = task[t].at /\ \A u \in Slots \ {t} : task'[u] = task[u]
  BY <1>2 DEF Onward, CertInv, Types
<1>4. Len(p.steps) # 1 => q \in PlansLeft
  <2> SUFFICES ASSUME Len(p.steps) # 1 PROVE q \in PlansLeft
    OBVIOUS
  <2>1. p.steps \in {<<"remove-trusted", "delete">>, <<"anchor", "rebuild">>, <<"unanchor", "rebuild">>}
        /\ p.steps \in Shapes(p.d)
    BY <1>1 DEF PlansLeft, Shapes
  <2>2. Tail(p.steps) \in Shapes(p.d)
    <3>1. CASE platform = "macos"
      <4>1. p.steps[1] \in {"add-trusted", "remove-trusted", "delete"}
        BY <2>1, <3>1 DEF Shapes
      <4>2. p.steps = <<"remove-trusted", "delete">>
        BY <2>1, <4>1
      <4> QED BY <3>1, <4>2, TailsOfSteps DEF Shapes
    <3>2. CASE platform # "macos"
      <4>1. platform = "linux" /\ p.d = "system"
        BY <2>1, <3>2 DEF Shapes
      <4>2. p.steps[1] \in {"anchor", "unanchor", "rebuild"}
        BY <2>1, <4>1 DEF Shapes
      <4>3. p.steps \in {<<"anchor", "rebuild">>, <<"unanchor", "rebuild">>}
        BY <2>1, <4>2
      <4> QED BY <4>1, <4>3, TailsOfSteps DEF Shapes
    <3> QED BY <3>1, <3>2
  <2>3. Tail(p.steps) \in Seq(Steps)
    BY <2>1, TailsOfSteps
  <2>4. q \in [d : Domains, steps : Seq(Steps), bestEffort : BOOLEAN]
        /\ q.steps = Tail(p.steps) /\ q.d = p.d
    BY <1>1, <2>3 DEF PlansLeft
  <2> QED BY <2>2, <2>4 DEF PlansLeft
<1>5. q.d = p.d /\ q.steps = Tail(p.steps)
  BY <1>1 DEF PlansLeft
<1> HIDE DEF p, rest, q, over
<1>6. ASSUME Len(p.steps) # 1
      PROVE  /\ <<q>> \o rest \in Seq(PlansLeft)
             /\ <<q>> \o rest # <<>> /\ Head(<<q>> \o rest) = q
  BY <1>1, <1>4, <1>6
<1>7. task'[t].plans \in Seq(PlansLeft)
  BY <1>1, <1>3, <1>6 DEF over
<1>8. ~failed /\ Len(p.steps) # 1 => task'[t].plans = <<q>> \o rest
  BY <1>3 DEF over
<1> QED BY <1>3, <1>5, <1>6, <1>7, <1>8 DEF p

(* A step takes the stores it acts on from agreement to agreement, unless  *)
(* it is the first of two; the last of two makes them agree.               *)
LEMMA StepAgrees ==
  ASSUME Planned, NEW t \in Slots, Running(t), NEW id,
         NEW o \in Outcomes(Head(Plan(t).steps), Plan(t).d, id),
         Len(Plan(t).steps) = 1,
         HalfWay(t, Plan(t).d) \/ Agree(held[Plan(t).d], honoured[Plan(t).d], Plan(t).d)
  PROVE  Agree(o.h, o.s, Plan(t).d)
<1> DEFINE p == Plan(t)
<1>1. p \in PlansLeft
  BY DEF Planned, Running, Plan
<1>2. p.steps \in Shapes(p.d) /\ p.d \in Domains
  BY <1>1 DEF PlansLeft
<1>3. CASE platform = "macos"
  <2>1. p.steps = <<"add-trusted">> \/ p.steps = <<"delete">>
    BY <1>2, <1>3 DEF Shapes
  <2>2. CASE p.steps = <<"add-trusted">>
    <3>1. ~HalfWay(t, p.d)
      BY <2>2 DEF HalfWay
    <3>2. held[p.d] \subseteq honoured[p.d]
      BY <1>3, <3>1 DEF Agree
    <3>3. PICK f \in OnFile : o = Becomes(held[p.d] \union {f}, honoured[p.d] \union {f})
      BY <1>3, <2>2 DEF Outcomes, MacOutcomes
    <3> QED BY <1>3, <3>2, <3>3 DEF Becomes, Agree
  <2>3. CASE p.steps = <<"delete">>
    <3>1. o = Becomes({}, honoured[p.d])
      BY <1>3, <2>3 DEF Outcomes, MacOutcomes
    <3> QED BY <1>3, <3>1 DEF Becomes, Agree
  <2> QED BY <2>1, <2>2, <2>3
<1>4. CASE platform = "linux" /\ p.d = "system"
  <2>1. p.steps = <<"rebuild">>
    BY <1>2, <1>4 DEF Shapes
  <2>2. o = Becomes(held[p.d], held[p.d])
    BY <1>4, <2>1 DEF Outcomes, LinuxOutcomes
  <2> QED BY <1>4, <2>2 DEF Becomes, Agree
<1>5. CASE platform # "macos" /\ ~(platform = "linux" /\ p.d = "system")
  BY <1>5 DEF Agree
<1> QED BY <1>3, <1>4, <1>5

LEMMA StepRunsTrust ==
  ASSUME CertInv, TrustInv, NEW t \in Slots, StepRuns(t)
  PROVE  TrustInv'
<1> DEFINE p == Plan(t)
<1>1. /\ Running(t) /\ Onward(t, FALSE)
      /\ UNCHANGED <<platform, partly>>
  BY DEF StepRuns
<1>2. PICK o \in Outcomes(Head(p.steps), p.d, task[t].id) :
        /\ held' = [held EXCEPT ![p.d] = o.h]
        /\ honoured' = [honoured EXCEPT ![p.d] = o.s]
  BY DEF StepRuns
<1>3. p \in PlansLeft
  BY <1>1 DEF TrustInv, Planned, Running, Plan
<1>4. p.d \in Domains /\ p.steps \in Shapes(p.d)
  BY <1>3 DEF PlansLeft
<1>5. /\ held'[p.d] = o.h /\ honoured'[p.d] = o.s
      /\ DOMAIN held' = Domains /\ DOMAIN honoured' = Domains
      /\ \A d \in Domains \ {p.d} : held'[d] = held[d] /\ honoured'[d] = honoured[d]
  BY <1>2, <1>4 DEF TrustInv, Planned
<1>6. /\ task'[t].plans \in Seq(PlansLeft) /\ task'[t].at = task[t].at
      /\ \A u \in Slots \ {t} : task'[u] = task[u]
      /\ Len(p.steps) # 1 =>
           /\ task'[t].plans # <<>> /\ Head(task'[t].plans).d = p.d
           /\ Head(task'[t].plans).steps = Tail(p.steps)
  BY <1>1, OnwardFacts DEF TrustInv
<1>7. PlansLeft' = PlansLeft
  BY <1>1 DEF PlansLeft, Shapes
<1>8. Planned'
  BY <1>1, <1>5, <1>6, <1>7 DEF TrustInv, Planned
<1>9. \A u \in Slots \ {t}, d \in Domains : HalfWay(u, d) => HalfWay(u, d)'
  BY <1>6 DEF HalfWay, Running, Plan
<1>10. ASSUME NEW d \in Domains \ partly, \A u \in Slots : ~HalfWay(u, d)'
       PROVE  Agree(held[d], honoured[d], d)'
  <2>1. \A u \in Slots \ {t} : ~HalfWay(u, d)
    BY <1>9, <1>10
  <2>2. CASE d # p.d
    <3>1. ~HalfWay(t, d)
      BY <2>2 DEF HalfWay
    <3>2. Agree(held[d], honoured[d], d)
      BY <2>1, <3>1 DEF TrustInv, StoresAgree
    <3> QED BY <1>1, <1>5, <2>2, <3>2 DEF Agree
  <2>3. CASE d = p.d /\ Len(p.steps) = 1
    <3>1. HalfWay(t, d) \/ Agree(held[d], honoured[d], d)
      BY <2>1 DEF TrustInv, StoresAgree
    <3>2. Agree(o.h, o.s, d)
      BY <1>1, <2>3, <3>1, StepAgrees DEF TrustInv
    <3> QED BY <1>1, <1>5, <2>3, <3>2 DEF Agree
  <2>4. CASE d = p.d /\ Len(p.steps) # 1
    <3>1. p.steps \in {<<"remove-trusted", "delete">>, <<"anchor", "rebuild">>, <<"unanchor", "rebuild">>}
      BY <1>4, <2>4 DEF Shapes
    <3>2. Tail(p.steps) \in {<<"delete">>, <<"rebuild">>}
      BY <3>1, TailsOfSteps
    <3>3. HalfWay(t, d)'
      BY <1>1, <1>6, <2>4, <3>2 DEF HalfWay, Running, Plan
    <3> QED BY <3>3, <1>10
  <2> QED BY <2>2, <2>3, <2>4
<1>11. StoresAgree'
  BY <1>1, <1>10 DEF StoresAgree, Agree
<1> QED BY <1>8, <1>11 DEF TrustInv

LEMMA StepFailsTrust ==
  ASSUME CertInv, TrustInv, NEW t \in Slots, StepFails(t)
  PROVE  TrustInv'
<1> DEFINE p == Plan(t)
<1>1. /\ Running(t) /\ Onward(t, TRUE)
      /\ partly' = partly \union {p.d}
      /\ UNCHANGED <<platform, honoured>>
      /\ held' = held \/ held' = [held EXCEPT ![p.d] = @ \union {pem}]
  BY DEF StepFails
<1>2. DOMAIN held' = Domains /\ \A d \in Domains \ {p.d} : held'[d] = held[d]
  BY <1>1 DEF TrustInv, Planned
<1>3. /\ task'[t].plans \in Seq(PlansLeft)
      /\ \A u \in Slots \ {t} : task'[u] = task[u]
  BY <1>1, OnwardFacts DEF TrustInv
<1>4. PlansLeft' = PlansLeft
  BY <1>1 DEF PlansLeft, Shapes
<1>5. Planned'
  BY <1>1, <1>2, <1>3, <1>4 DEF TrustInv, Planned
<1>6. ASSUME NEW d \in Domains \ partly', \A u \in Slots : ~HalfWay(u, d)'
      PROVE  Agree(held[d], honoured[d], d)'
  <2>1. d # p.d /\ d \notin partly
    BY <1>1
  <2>2. ~HalfWay(t, d)
    BY <2>1 DEF HalfWay
  <2>3. \A u \in Slots \ {t} : ~HalfWay(u, d)
    BY <1>3, <1>6 DEF HalfWay, Running, Plan
  <2> QED BY <1>1, <1>2, <2>1, <2>2, <2>3 DEF TrustInv, StoresAgree, Agree
<1>7. StoresAgree'
  BY <1>1, <1>6 DEF StoresAgree, Agree
<1> QED BY <1>5, <1>7 DEF TrustInv

LEMMA StepLists ==
  ASSUME NEW d
  PROVE  Shapes(d) \subseteq Seq(Steps)
<1>1. \A s \in Steps : <<s>> \in Seq(Steps)
  OBVIOUS
<1>2. \A r, s \in Steps : <<r, s>> \in Seq(Steps)
  OBVIOUS
<1>3. {"add-trusted", "remove-trusted", "add", "delete", "anchor", "unanchor", "rebuild"} \subseteq Steps
  BY DEF Steps
<1> QED BY <1>1, <1>2, <1>3 DEF Shapes

LEMMA PlansAreLeft ==
  ASSUME Planned, NEW op \in {"install", "uninstall"}, NEW d \in Domains
  PROVE  PlanFor(op, d) \in PlansLeft
<1> DEFINE steps == (CASE platform = "macos"   -> MacSteps
                       [] platform = "windows" -> WindowsSteps
                       [] platform = "linux"   -> LinuxSteps(d))[op]
           best  == \/ platform # "windows" /\ op = "uninstall"
                    \/ platform = "linux" /\ d = "user"
<1>1. steps \in Shapes(d)
  <2>1. CASE platform = "macos"
    BY <2>1 DEF Shapes, MacSteps
  <2>2. CASE platform = "windows"
    BY <2>2 DEF Shapes, WindowsSteps
  <2>3. CASE platform = "linux" /\ d = "system"
    BY <2>3 DEF Shapes, LinuxSteps
  <2>4. CASE platform = "linux" /\ d # "system"
    BY <2>4 DEF Shapes, LinuxSteps
  <2> QED BY <2>1, <2>2, <2>3, <2>4 DEF Planned
<1>2. steps \in Seq(Steps)
  BY <1>1, StepLists
<1>3. PlanFor(op, d) = [d |-> d, steps |-> steps, bestEffort |-> best]
  BY DEF PlanFor
<1>4. best \in BOOLEAN
  OBVIOUS
<1> HIDE DEF steps, best
<1> QED BY <1>1, <1>2, <1>3, <1>4 DEF PlansLeft

LEMMA ClearingIsPlanned ==
  ASSUME Planned, NEW id
  PROVE  Clearing(id) \in Seq(PlansLeft)
<1> DEFINE plan(d) == IF id \in held[d] THEN <<PlanFor("uninstall", d)>> ELSE <<>>
<1>1. \A d \in Domains : plan(d) \in Seq(PlansLeft)
  <2> SUFFICES ASSUME NEW d \in Domains PROVE plan(d) \in Seq(PlansLeft)
    OBVIOUS
  <2>1. PlanFor("uninstall", d) \in PlansLeft
    BY PlansAreLeft
  <2> QED BY <2>1
<1>2. plan("user") \in Seq(PlansLeft) /\ plan("system") \in Seq(PlansLeft)
  BY <1>1 DEF Domains
<1>3. Clearing(id) = plan("user") \o plan("system")
  BY DEF Clearing
<1> HIDE DEF plan
<1> QED BY <1>2, <1>3

LEMMA StartTrust ==
  ASSUME CertInv, TrustInv, NEW t \in Slots, NEW op, NEW plans \in Seq(PlansLeft), Start(t, op, plans)
  PROVE  TrustInv'
<1> DEFINE record == [at |-> "plan", op |-> op, id |-> ca.cert, plans |-> plans]
<1>1. task[t].at = "idle" /\ task' = [task EXCEPT ![t] = record]
      /\ UNCHANGED <<platform, held, honoured, partly>>
  BY DEF Start, Done, stores
<1>2. record.plans = plans
  OBVIOUS
<1> HIDE DEF record
<1>3. task'[t].plans = plans /\ \A u \in Slots \ {t} : task'[u] = task[u]
  BY <1>1, <1>2 DEF CertInv, Types
<1>4. ~Running(t)
  BY <1>1 DEF Running
<1> QED BY <1>1, <1>3, <1>4, TrustElsewhere

(* The stages of a regeneration after its plans, and the other commands,   *)
(* change neither the stores nor a plan that is running.                   *)
LEMMA StagesTrust ==
  ASSUME CertInv, TrustInv,
         \/ Confirm \/ RemovePem \/ RemoveKey \/ RemoveFails \/ Load \/ Create
         \/ WritePem \/ WriteKey \/ WriteFails \/ LoadAtLaunch \/ StartEngine
  PROVE  TrustInv'
<1>1. UNCHANGED <<platform, held, honoured, partly>>
  BY DEF Confirm, RemovePem, RemoveKey, RemoveFails, Load, Create, WritePem, WriteKey,
         WriteFails, LoadAtLaunch, StartEngine, stores
<1>2. <<>> \in Seq(PlansLeft) /\ Done.plans = <<>> /\ [Done EXCEPT !.at = "load", !.op = "launch"].plans = <<>>
  BY DEF Done
<1>3. ASSUME NEW t \in Slots, NEW record, record.plans = <<>>, ~Running(t),
             task' = [task EXCEPT ![t] = record]
      PROVE  TrustInv'
  <2>1. task'[t].plans \in Seq(PlansLeft) /\ \A u \in Slots \ {t} : task'[u] = task[u]
    BY <1>2, <1>3 DEF CertInv, Types
  <2> QED BY <1>1, <1>3, <2>1, TrustElsewhere
<1>4. ASSUME NEW now, NEW next, At("regen", now, next), ~Running("regen")
      PROVE  TrustInv'
  <2>1. /\ task'["regen"].plans = task["regen"].plans
        /\ \A u \in Slots \ {"regen"} : task'[u] = task[u]
    BY <1>4 DEF At, CertInv, Types, Slots
  <2> QED BY <1>1, <1>4, <2>1, TrustElsewhere DEF TrustInv, Planned, Slots
<1>5. CASE Confirm
  <2>1. ~Running("page") /\ task' = [task EXCEPT !["page"] = Done]
    BY <1>5 DEF Confirm, Running
  <2> QED BY <1>2, <1>3, <2>1 DEF Slots
<1>6. CASE RemovePem \/ RemoveKey \/ RemoveFails \/ Create \/ WritePem
  <2>1. PICK now, next : At("regen", now, next) /\ (now = "plan" => task["regen"].plans = <<>>)
    BY <1>6 DEF RemovePem, RemoveKey, RemoveFails, Create, WritePem
  <2>2. ~Running("regen")
    BY <2>1 DEF Running, At
  <2> QED BY <1>4, <2>1, <2>2
<1>7. CASE Load \/ WriteKey \/ WriteFails
  <2>1. ~Running("regen") /\ task' = [task EXCEPT !["regen"] = Done]
    BY <1>7 DEF Load, WriteKey, WriteFails, Running
  <2> QED BY <1>2, <1>3, <2>1 DEF Slots
<1>8. CASE LoadAtLaunch
  <2>1. ~Running("regen")
        /\ task' = [task EXCEPT !["regen"] = [Done EXCEPT !.at = "load", !.op = "launch"]]
    BY <1>8 DEF LoadAtLaunch, Running, Done
  <2> QED BY <1>2, <1>3, <2>1 DEF Slots
<1>9. CASE StartEngine
  BY <1>1, <1>9, TrustElsewhere DEF StartEngine, TrustInv, Planned
<1> QED BY <1>5, <1>6, <1>7, <1>8, <1>9

(* A crash cuts plans short, and their domains are no longer spoken for.   *)
LEMMA CrashTrust ==
  ASSUME CertInv, TrustInv, CertCrash
  PROVE  TrustInv'
<1>1. /\ UNCHANGED <<platform, held, honoured>>
      /\ task' = [t \in Slots |-> Done]
      /\ partly' = partly \union {Plan(t).d : t \in {u \in Slots : Running(u)}}
  BY DEF CertCrash, stores, CertInv, Types
<1>2. PlansLeft' = PlansLeft /\ <<>> \in Seq(PlansLeft)
  BY <1>1 DEF PlansLeft, Shapes
<1>3. Planned'
  BY <1>1, <1>2 DEF TrustInv, Planned, Done
<1>4. \A t \in Slots, d \in Domains \ partly' : ~HalfWay(t, d)
  BY <1>1 DEF HalfWay
<1>5. StoresAgree'
  BY <1>1, <1>4, AgreeStill
<1> QED BY <1>3, <1>5 DEF TrustInv

LEMMA TrustNextInv == CertInv /\ TrustInv /\ [CertNext]_certVars => TrustInv'
<1> SUFFICES ASSUME CertInv, TrustInv, [CertNext]_certVars PROVE TrustInv'
  OBVIOUS
<1>1. CASE UNCHANGED certVars
  BY <1>1, TrustElsewhere DEF certVars, TrustInv, Planned
<1>2. CASE \E d \in Domains : Install(d)
  <2>1. PICK d \in Domains : Install(d)
    BY <1>2
  <2>2. PlanFor("install", d) \in PlansLeft
    BY PlansAreLeft DEF TrustInv
  <2>3. <<PlanFor("install", d)>> \in Seq(PlansLeft)
    BY <2>2
  <2> QED BY <2>1, <2>3, StartTrust DEF Install, Slots
<1>3. CASE Uninstall \/ Regenerate
  BY <1>3, ClearingIsPlanned, StartTrust DEF Uninstall, Regenerate, Slots, TrustInv
<1>4. CASE \E t \in DOMAIN task : StepRuns(t) \/ StepFails(t)
  BY <1>4, StepRunsTrust, StepFailsTrust DEF CertInv, Types
<1> QED BY <1>1, <1>2, <1>3, <1>4, StagesTrust, CrashTrust DEF CertNext

LEMMA TrustInvReal == CertInv /\ TrustInv => ReportedTrustIsReal
<1> SUFFICES ASSUME CertInv, TrustInv, NEW d \in Domains \ partly,
                    \A t \in DOMAIN task : Running(t) => Plan(t).d # d
             PROVE  Reported(ca.cert, d) <=> Verifies(ca.cert, d)
  BY DEF ReportedTrustIsReal
<1>1. \A t \in Slots : ~HalfWay(t, d)
  BY DEF HalfWay, CertInv, Types
<1>2. Agree(held[d], honoured[d], d)
  BY <1>1 DEF TrustInv, StoresAgree
<1>3. CASE platform = "macos"
  BY <1>2, <1>3 DEF Agree, Reported, Verifies, MacTrusts, MacVerifies
<1>4. CASE platform = "windows"
  BY <1>4 DEF Reported, Verifies
<1>5. CASE platform = "linux"
  BY <1>2, <1>5 DEF Agree, Reported, Verifies, LinuxTrusts, LinuxVerifies
<1> QED BY <1>3, <1>4, <1>5 DEF TrustInv, Planned

(* On every platform, whatever leftovers its stores hold and however the   *)
(* steps of a regeneration fall between those of an install or uninstall,  *)
(* a certificate is reported as trusted exactly where a handshake with it  *)
(* succeeds (trust.rs trust_state, commands.rs ca_status_inner).           *)
THEOREM TrustIsReal == CertSpec => []ReportedTrustIsReal
<1>1. CertSpec => []CertInv
  BY CertInitInv, CertNextInv, PTL DEF CertSpec
<1>2. CertInit /\ [][CertNext]_certVars /\ []CertInv => [](CertInv /\ TrustInv)
  BY TrustInitInv, TrustNextInv, PTL
<1> QED BY <1>1, <1>2, TrustInvReal, PTL DEF CertSpec
=============================================================================
