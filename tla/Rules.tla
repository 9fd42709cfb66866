-------------------------------- MODULE Rules --------------------------------
(***************************************************************************)
(* The traffic rules: how a pattern matches (rules.rs glob_match), and how *)
(* the rule list and its file change (commands.rs set_rules, src-tauri     *)
(* mcp.rs set_rule and delete_rule, state.rs persist_rules, lib.rs).       *)
(*                                                                         *)
(* The page replaces the list from the main thread and agents edit it from *)
(* tasks of their own; each then writes the whole file, with no lock over  *)
(* the edit and the write.  fs::write empties the file and then fills it.  *)
(***************************************************************************)
EXTENDS Integers, Sequences, SequencesExt, FiniteSetsExt, Functions

CONSTANTS Letters,      \* characters of texts; a pattern has "*" besides
          Lower,        \* to_ascii_lowercase, on Letters and "*"
          MaxPattern,   \* bound: characters of a pattern
          MaxText,      \* bound: characters of a text
          RuleIds,      \* ids of rules
          Contents,     \* what a rule may say
          Agents,       \* MCP requests in flight at once
          MaxEdits,     \* bound: edits of the list
          MaxExits,     \* bound: times the app ends
          MaxRefusals   \* bound: writes the disk refuses

ASSUME RulesAssumption ==
  /\ "*" \notin Letters /\ Lower["*"] = "*" /\ "main" \notin Agents
  /\ {MaxPattern, MaxText, MaxEdits, MaxExits, MaxRefusals} \subseteq Nat

VARIABLES
  sample,    \* a pattern and a text to match
  rules,     \* the live list: id -> content
  shownRules,  \* the page's copy
  rulesFile, \* rules.json: [is, rules]; is tells "whole", "empty" and "garbled"
  writer,    \* per task the list it is about to write: [at, rules]
  contended, \* history: the last edit met another write, or its own failed
  edits, exits, refusals   \* counters of what the bounds limit

rulesVars == <<sample, rules, shownRules, rulesFile, writer, contended, edits, exits, refusals>>

------------------------------------------------------------------------------
(* glob_match *)

UpTo(n, S)  == UNION {[1..k -> S] : k \in 0..n}
Folded(s)   == [n \in DOMAIN s |-> Lower[s[n]]]
Rest(t, n)  == SubSeq(t, n + 1, Len(t))

(* str::split at every star. *)
Segments(p) ==
  LET parts[n \in 0..Len(p)] ==
        IF n = 0 THEN << <<>> >>
        ELSE IF p[n] = "*" THEN Append(parts[n - 1], <<>>)
        ELSE [parts[n - 1] EXCEPT ![Len(parts[n - 1])] = Append(@, p[n])]
  IN parts[Len(p)]

NotFound == -1

(* Mutant: the last segment is looked for in the whole text. *)
AfterAnywhere(parts, t, i, pos) ==
  LET seg == parts[i]
      at  == {n \in pos..Len(t) : IsPrefix(seg, Rest(t, n))}
  IN IF pos = NotFound \/ seg = <<>> THEN pos
     ELSE IF i = 1 THEN (IF IsPrefix(seg, t) THEN Len(seg) ELSE NotFound)
     ELSE IF i = Len(parts) THEN (IF IsSuffix(seg, t) THEN pos ELSE NotFound)
     ELSE IF at = {} THEN NotFound ELSE Min(at) + Len(seg)

(* Where the text is read on after segment i: the first is a prefix, the   *)
(* last a suffix of what is left, the others go where they first fit.      *)
After(parts, t, i, pos) ==
  LET seg == parts[i]
      at  == {n \in pos..Len(t) : IsPrefix(seg, Rest(t, n))}
  IN IF pos = NotFound \/ seg = <<>> THEN pos
     ELSE IF i = 1 THEN (IF IsPrefix(seg, t) THEN Len(seg) ELSE NotFound)
     ELSE IF i = Len(parts) THEN (IF IsSuffix(seg, Rest(t, pos)) THEN pos ELSE NotFound)
     ELSE IF at = {} THEN NotFound ELSE Min(at) + Len(seg)

GlobMatch(pattern, text) ==
  LET parts == Segments(Folded(pattern))
      t     == Folded(text)
      pos[i \in 0..Len(parts)] == IF i = 0 THEN 0 ELSE After(parts, t, i, pos[i - 1])
  IN IF Len(parts) = 1 THEN Folded(pattern) = t ELSE pos[Len(parts)] # NotFound

(* What a glob says: a star stands for any run of characters.  How far the *)
(* text may be read when the first n characters of the pattern are.        *)
IsGlobOf(pattern, text) ==
  LET p == Folded(pattern)
      t == Folded(text)
      reached[n \in 0..Len(p)] ==
        IF n = 0 THEN {0}
        ELSE IF p[n] = "*" THEN {q \in 0..Len(t) : \E r \in reached[n - 1] : r <= q}
        ELSE {q \in 1..Len(t) : q - 1 \in reached[n - 1] /\ p[n] = t[q]}
  IN Len(t) \in reached[Len(p)]

------------------------------------------------------------------------------
(* The list and its file. *)

NoRules   == [r \in {} |-> 0]
AtHome    == [at |-> "idle", rules |-> NoRules]
Whole(rs) == [is |-> "whole", rules |-> rs]
Spoilt(how) == [is |-> how, rules |-> NoRules]
RuleTasks == Agents \union {"main"}
AtRest    == \A t \in RuleTasks : writer[t].at = "idle"

RulesInit ==
  /\ sample \in UpTo(MaxPattern, Letters \union {"*"}) \X UpTo(MaxText, Letters)
  /\ rules = NoRules /\ shownRules = NoRules
  /\ rulesFile = Spoilt("empty")
  /\ writer = [t \in RuleTasks |-> AtHome]
  /\ contended = FALSE
  /\ edits = 0 /\ exits = 0 /\ refusals = 0

With(rs, r, c)  == [x \in DOMAIN rs \union {r} |-> IF x = r THEN c ELSE rs[x]]
Without(rs, r)  == [x \in DOMAIN rs \ {r} |-> rs[x]]

(* Mutant: what is written is the list as it was before the edit. *)
EditStale(t, rs) ==
  /\ writer[t].at = "idle"
  /\ edits < MaxEdits
  /\ edits' = edits + 1
  /\ rules' = rs
  /\ writer' = [writer EXCEPT ![t] = [at |-> "empty", rules |-> rules]]
  /\ contended' = ~AtRest
  /\ UNCHANGED <<sample, rulesFile, exits, refusals>>

(* The live list changes, and a copy of it is to be written. *)
Edit(t, rs) ==
  /\ writer[t].at = "idle"
  /\ edits < MaxEdits
  /\ edits' = edits + 1
  /\ rules' = rs
  /\ writer' = [writer EXCEPT ![t] = [at |-> "empty", rules |-> rs]]
  /\ contended' = ~AtRest
  /\ UNCHANGED <<sample, rulesFile, exits, refusals>>

(* The page edits its copy and set_rules puts that in the list's place. *)
SetRules ==
  /\ \E r \in RuleIds : \/ \E c \in Contents : shownRules' = With(shownRules, r, c)
                        \/ r \in DOMAIN shownRules /\ shownRules' = Without(shownRules, r)
  /\ Edit("main", shownRules')

(* set_rule and delete_rule of an agent change one rule of the list. *)
SetRule(a, r, c) == Edit(a, With(rules, r, c)) /\ UNCHANGED shownRules

DeleteRule(a, r) == /\ r \in DOMAIN rules
                    /\ Edit(a, Without(rules, r))
                    /\ UNCHANGED shownRules

(* persist_rules: the file is opened, and emptied by that... *)
EmptyFile(t) ==
  /\ writer[t].at = "empty"
  /\ rulesFile' = Spoilt("empty")
  /\ writer' = [writer EXCEPT ![t].at = "fill"]
  /\ UNCHANGED <<sample, rules, shownRules, contended, edits, exits, refusals>>

(* ...or cannot be, and the list stays changed... *)
RefuseFile(t) ==
  /\ writer[t].at = "empty"
  /\ refusals < MaxRefusals
  /\ refusals' = refusals + 1
  /\ contended' = TRUE
  /\ writer' = [writer EXCEPT ![t] = AtHome]
  /\ UNCHANGED <<sample, rules, shownRules, rulesFile, edits, exits>>

(* ...and filled.  Over a text another writer left the end may stay.       *)
FillFile(t) ==
  /\ writer[t].at = "fill"
  /\ rulesFile' \in {Whole(writer[t].rules)}
                    \union (IF rulesFile.is = "empty" THEN {} ELSE {Spoilt("garbled")})
  /\ writer' = [writer EXCEPT ![t] = AtHome]
  /\ UNCHANGED <<sample, rules, shownRules, contended, edits, exits, refusals>>

(* The app ends and is started again: a file it cannot read is no rules.   *)
(* The page reads the list as it loads.                                    *)
ExitAndLaunch ==
  /\ exits < MaxExits
  /\ exits' = exits + 1
  /\ rules' = rulesFile.rules
  /\ shownRules' = rules'
  /\ writer' = [t \in RuleTasks |-> AtHome]
  /\ contended' = (rulesFile.is # "whole")
  /\ UNCHANGED <<sample, rulesFile, edits, refusals>>

RulesNext ==
  \/ SetRules \/ ExitAndLaunch
  \/ \E a \in Agents, r \in RuleIds : DeleteRule(a, r) \/ \E c \in Contents : SetRule(a, r, c)
  \/ \E t \in RuleTasks : EmptyFile(t) \/ RefuseFile(t) \/ FillFile(t)

RulesSpec == RulesInit /\ [][RulesNext]_rulesVars

------------------------------------------------------------------------------
(* Matching by segments, each where it first fits, is matching the glob:   *)
(* no choice of places the code passes over would have matched (rules.rs   *)
(* glob_match, which decides rules and what TLS is intercepted).           *)
GlobIsGlob == GlobMatch(sample[1], sample[2]) = IsGlobOf(sample[1], sample[2])

(* Between edits the file holds the list that is live, so that a restart   *)
(* changes no rule, through edits by the page and by agents and exits in   *)
(* the middle of a write.  After a refused write, or an edit that came     *)
(* while another was being written, that is so again once the next edit    *)
(* has been written on its own (commands.rs set_rules, mcp.rs set_rule).   *)
RulesFileIsLive ==
  AtRest /\ ~contended /\ (edits > 0 \/ exits > 0) => rulesFile = Whole(rules)
==============================================================================
