---------------------------- MODULE Certificates ----------------------------
(***************************************************************************)
(* The root certificate: the pair of files it lives in (ca.rs), the stores *)
(* of the three platforms and the commands run on them (trust.rs), and the *)
(* install, uninstall and regenerate commands (commands.rs).  A command of *)
(* the page and a regeneration may overlap; the app may die between any    *)
(* two steps, and the user may turn any prompt down.                       *)
(*                                                                         *)
(* A certificate, its key and its digests are the number of its            *)
(* generation; they all carry the same common name.  The certificate       *)
(* databases of the user's browsers on Linux are taken as one.             *)
(***************************************************************************)
EXTENDS Integers, Sequences, FiniteSets

CONSTANTS Platforms,      \* a subset of {"macos", "windows", "linux"}
          MaxGenerations, \* bound: certificates generated
          MaxFaults,      \* bound: crashes and failed file operations
          MaxRefused      \* bound: steps of plans that fail or are turned down

ASSUME CertificatesAssumption ==
  /\ Platforms \subseteq {"macos", "windows", "linux"}
  /\ {MaxGenerations, MaxFaults, MaxRefused} \subseteq Nat

Domains == {"user", "system"}
Absent  == 0
Ripped  == -1     \* a file a write was interrupted in

VARIABLES
  platform,
  pem, key,   \* ca.pem and ca.key: a generation, Absent or Ripped
  ca,         \* AppState.ca: [cert, key], 0 and 0 for none
  engine,     \* the authority the running engine signs with, likewise
  held,       \* per domain the certificates in the store, or the anchor
  honoured,   \* per domain the trust settings (macOS) or the bundle (Linux)
  task,       \* "page" and "regen": [at, op, id, plans]
  made,       \* certificates generated so far
  partly,     \* history: domains where a step of a plan has failed
  faults, refused   \* counters of what the bounds limit

certVars == <<platform, pem, key, ca, engine, held, honoured, task, made, partly,
              faults, refused>>
files  == <<pem, key, made>>
stores == <<held, honoured>>

NoPair == [cert |-> 0, key |-> 0]
Done   == [at |-> "idle", op |-> "none", id |-> 0, plans |-> <<>>]

CertInit ==
  /\ platform \in Platforms
  /\ pem = Absent /\ key = Absent
  /\ ca = NoPair /\ engine = NoPair
  /\ held = [d \in Domains |-> {}] /\ honoured = [d \in Domains |-> {}]
  /\ task = [t \in {"page", "regen"} |-> Done]
  /\ made = 0
  /\ partly = {}
  /\ faults = 0 /\ refused = 0

------------------------------------------------------------------------------
(* The three platforms: how each installs and uninstalls, what a step does *)
(* to what a store holds and what is honoured of it (its outcomes, none if *)
(* it must fail), and when it is taken to trust a certificate.             *)

Becomes(h, s) == [h |-> h, s |-> s]
OnFile      == IF pem > 0 THEN {pem} ELSE {}    \* the steps that are given ca.pem

(* macOS: a keychain, and trust settings beside it.  A deletion names the  *)
(* certificate and is refused when several bear the name; so do the trust  *)
(* settings that are read back.                                            *)
MacSteps == [install |-> <<"add-trusted">>, uninstall |-> <<"remove-trusted", "delete">>]

MacOutcomes(step, d) ==
  CASE step = "add-trusted"    -> {Becomes(held[d] \union {f}, honoured[d] \union {f}) : f \in OnFile}
    [] step = "remove-trusted" -> {Becomes(held[d], honoured[d] \ {f}) : f \in OnFile}
    [] step = "delete"         -> {Becomes({}, honoured[d]) : x \in {y \in held[d] : held[d] = {y}}}

MacTrusts(id, d)   == id \in held[d] /\ honoured[d] # {}
MacVerifies(id, d) == id \in held[d] /\ id \in honoured[d]

(* Windows: to be in the ROOT store is to be trusted; a deletion names the *)
(* thumbprint.                                                             *)
WindowsSteps == [install |-> <<"add">>, uninstall |-> <<"delete">>]

WindowsOutcomes(step, d, id) ==
  IF step = "add" THEN {Becomes(held[d] \union {f}, {}) : f \in OnFile}
  ELSE {Becomes(held[d] \ {id}, {})}

WindowsTrusts(id, d) == id \in held[d]

(* Linux: for the system one anchor file, which our certificate takes over *)
(* or leaves, and the bundle that is rebuilt from it; for the user the     *)
(* databases of the browsers, where a deletion takes one of that name.     *)
LinuxSteps(d) ==
  IF d = "system"
    THEN [install |-> <<"anchor", "rebuild">>, uninstall |-> <<"unanchor", "rebuild">>]
    ELSE [install |-> <<"add">>, uninstall |-> <<"delete">>]

LinuxOutcomes(step, d) ==
  CASE step = "anchor"   -> {Becomes({f}, honoured[d]) : f \in OnFile}
    [] step = "unanchor" -> {Becomes({}, honoured[d])}
    [] step = "rebuild"  -> {Becomes(held[d], held[d])}
    [] step = "add"      -> {Becomes(held[d] \union {f}, {}) : f \in OnFile}
    [] step = "delete"   -> {Becomes(held[d] \ {x}, {}) : x \in held[d]}

LinuxTrusts(id, d)   == id \in held[d]
LinuxVerifies(id, d) == id \in IF d = "system" THEN honoured[d] ELSE held[d]

------------------------------------------------------------------------------
(* install_plan and uninstall_plan, with the plans every step of which is  *)
(* run whatever fails.                                                     *)
PlanFor(op, d) ==
  LET steps == CASE platform = "macos"   -> MacSteps
                 [] platform = "windows" -> WindowsSteps
                 [] platform = "linux"   -> LinuxSteps(d)
  IN [d |-> d, steps |-> steps[op],
      bestEffort |-> \/ platform # "windows" /\ op = "uninstall"
                     \/ platform = "linux" /\ d = "user"]

Outcomes(step, d, id) ==
  CASE platform = "macos"   -> MacOutcomes(step, d)
    [] platform = "windows" -> WindowsOutcomes(step, d, id)
    [] platform = "linux"   -> LinuxOutcomes(step, d)

(* Mutant: a certificate of that name will do. *)
ReportedByName(id, d) == held[d] # {} /\ (platform = "macos" => honoured[d] # {})

(* trust_state *)
Reported(id, d) ==
  CASE platform = "macos"   -> MacTrusts(id, d)
    [] platform = "windows" -> WindowsTrusts(id, d)
    [] platform = "linux"   -> LinuxTrusts(id, d)

(* A handshake with a leaf of this certificate succeeds. *)
Verifies(id, d) ==
  CASE platform = "macos"   -> MacVerifies(id, d)
    [] platform = "windows" -> WindowsTrusts(id, d)
    [] platform = "linux"   -> LinuxVerifies(id, d)

------------------------------------------------------------------------------
(* Commands. *)

Running(t) == task[t].at = "plan" /\ task[t].plans # <<>>
Plan(t)    == Head(task[t].plans)

Start(t, op, plans) ==
  /\ ca # NoPair
  /\ task[t] = Done
  /\ task' = [task EXCEPT ![t] = [at |-> "plan", op |-> op, id |-> ca.cert, plans |-> plans]]
  /\ UNCHANGED <<platform, files, stores, ca, engine, partly, faults, refused>>

(* install: one plan, for the identity the app has loaded. *)
Install(d) == Start("page", "install", <<PlanFor("install", d)>>)

(* uninstall: a plan for each domain that holds the certificate. *)
Clearing(id) == LET plan(d) == IF id \in held[d] THEN <<PlanFor("uninstall", d)>> ELSE <<>>
                IN plan("user") \o plan("system")

Uninstall  == Start("page", "uninstall", Clearing(ca.cert))

Regenerate == Start("regen", "regenerate", Clearing(ca.cert))

(* The plan without its first step, and without the plan when it is over. *)
Onward(t, failed) ==
  LET p    == Plan(t)
      over == Len(p.steps) = 1 \/ (failed /\ ~p.bestEffort)
  IN task' = [task EXCEPT ![t].plans =
                IF over THEN Tail(@)
                ELSE <<[p EXCEPT !.steps = Tail(@)]>> \o Tail(@)]

StepRuns(t) ==
  /\ Running(t)
  /\ \E o \in Outcomes(Head(Plan(t).steps), Plan(t).d, task[t].id) :
       /\ held' = [held EXCEPT ![Plan(t).d] = o.h]
       /\ honoured' = [honoured EXCEPT ![Plan(t).d] = o.s]
  /\ Onward(t, FALSE)
  /\ UNCHANGED <<platform, files, ca, engine, partly, faults, refused>>

(* A step fails: the prompt is turned down, or it has nothing to act on.   *)
(* On macOS the certificate may be in the keychain by then, not trusted.   *)
StepFails(t) ==
  /\ Running(t)
  /\ IF Outcomes(Head(Plan(t).steps), Plan(t).d, task[t].id) = {}
       THEN UNCHANGED refused
       ELSE refused < MaxRefused /\ refused' = refused + 1
  /\ partly' = partly \union {Plan(t).d}
  /\ held' \in {held} \union (IF Head(Plan(t).steps) = "add-trusted" /\ pem > 0
                             THEN {[held EXCEPT ![Plan(t).d] = @ \union {pem}]} ELSE {})
  /\ Onward(t, TRUE)
  /\ UNCHANGED <<platform, files, honoured, ca, engine, faults>>

(* The end of an install or uninstall: confirm only decides what is said.  *)
Confirm ==
  /\ task["page"].at = "plan" /\ task["page"].plans = <<>>
  /\ task' = [task EXCEPT !["page"] = Done]
  /\ UNCHANGED <<platform, files, stores, ca, engine, partly, faults, refused>>

(* regenerate_ca goes on, whatever came of the uninstall. *)
At(t, now, next) == task[t].at = now /\ task' = [task EXCEPT ![t].at = next]

(* Mutant: the files are overwritten in place. *)
LeavePem ==
  /\ task["regen"].plans = <<>>
  /\ At("regen", "plan", "writePem")
  /\ UNCHANGED <<platform, pem, key, made, stores, ca, engine, partly, faults, refused>>

RemovePem ==
  /\ task["regen"].plans = <<>>
  /\ At("regen", "plan", "removeKey")
  /\ pem' = Absent
  /\ UNCHANGED <<platform, key, made, stores, ca, engine, partly, faults, refused>>

RemoveKey ==
  /\ At("regen", "removeKey", "load")
  /\ key' = Absent
  /\ UNCHANGED <<platform, pem, made, stores, ca, engine, partly, faults, refused>>

(* A removal that fails is passed over. *)
RemoveFails ==
  /\ faults < MaxFaults
  /\ faults' = faults + 1
  /\ \/ task["regen"].plans = <<>> /\ At("regen", "plan", "removeKey")
     \/ At("regen", "removeKey", "load")
  /\ UNCHANGED <<platform, files, stores, ca, engine, partly, refused>>

(* load_or_create, at launch and to regenerate: both files, as they are... *)
Load ==
  /\ task["regen"].at = "load"
  /\ pem # Absent /\ key # Absent
  /\ ca' = [cert |-> pem, key |-> key]
  /\ task' = [task EXCEPT !["regen"] = Done]
  /\ UNCHANGED <<platform, files, stores, engine, partly, faults, refused>>

Create ==
  /\ pem = Absent \/ key = Absent
  /\ At("regen", "load", "writePem")
  /\ UNCHANGED <<platform, files, stores, ca, engine, partly, faults, refused>>

(* ...or a new pair, the certificate first. *)
WritePem ==
  /\ made < MaxGenerations
  /\ At("regen", "writePem", "writeKey")
  /\ made' = made + 1
  /\ pem' = made'
  /\ UNCHANGED <<platform, key, stores, ca, engine, partly, faults, refused>>

WriteKey ==
  /\ task["regen"].at = "writeKey"
  /\ key' = made
  /\ ca' = [cert |-> made, key |-> made]
  /\ task' = [task EXCEPT !["regen"] = Done]
  /\ UNCHANGED <<platform, pem, made, stores, engine, partly, faults, refused>>

(* A write that fails ends the command with what was loaded before. *)
WriteFails ==
  /\ faults < MaxFaults
  /\ faults' = faults + 1
  /\ \/ task["regen"].at = "writePem" /\ pem' \in {pem, Ripped} /\ UNCHANGED key
     \/ task["regen"].at = "writeKey" /\ key' \in {key, Ripped} /\ UNCHANGED pem
  /\ task' = [task EXCEPT !["regen"] = Done]
  /\ UNCHANGED <<platform, made, stores, ca, engine, partly, refused>>

------------------------------------------------------------------------------
(* ensure_engine: the authority is made of the pair that is loaded, if it  *)
(* parses, and stays with the engine.                                      *)
StartEngine ==
  /\ engine = NoPair
  /\ ca.cert > 0 /\ ca.key > 0
  /\ engine' = ca
  /\ UNCHANGED <<platform, files, stores, ca, task, partly, faults, refused>>

(* lib.rs setup *)
LoadAtLaunch ==
  /\ ca = NoPair
  /\ task["regen"] = Done
  /\ task' = [task EXCEPT !["regen"] = [Done EXCEPT !.at = "load", !.op = "launch"]]
  /\ UNCHANGED <<platform, files, stores, ca, engine, partly, faults, refused>>

(* The app dies, perhaps in the middle of a write; what runs of a plan is  *)
(* cut off with it.                                                        *)
CertCrash ==
  /\ faults < MaxFaults
  /\ faults' = faults + 1
  /\ ca' = NoPair /\ engine' = NoPair
  /\ task' = [t \in DOMAIN task |-> Done]
  /\ partly' = partly \union {Plan(t).d : t \in {u \in DOMAIN task : Running(u)}}
  /\ pem' \in {pem} \union (IF task["regen"].at = "writePem" THEN {Ripped} ELSE {})
  /\ key' \in {key} \union (IF task["regen"].at = "writeKey" THEN {Ripped} ELSE {})
  /\ UNCHANGED <<platform, made, stores, refused>>

CertNext ==
  \/ \E d \in Domains : Install(d)
  \/ Uninstall \/ Regenerate
  \/ \E t \in DOMAIN task : StepRuns(t) \/ StepFails(t)
  \/ Confirm
  \/ RemovePem \/ RemoveKey \/ RemoveFails \/ Load \/ Create \/ WritePem \/ WriteKey \/ WriteFails
  \/ LoadAtLaunch \/ StartEngine \/ CertCrash

CertSpec == CertInit /\ [][CertNext]_certVars

------------------------------------------------------------------------------
(* The engine never signs with a key that is not its certificate's: one    *)
(* crash or failed file operation, at any step of a regeneration or of the *)
(* launch after it, leaves a pair that belongs together, or one that does  *)
(* not parse and stops the engine from starting (ca.rs load_or_create      *)
(* looks at no more than that both files exist).  Two can break it.        *)
KeyFitsCertificate == faults <= 1 => engine.cert = engine.key

(* A certificate is reported as trusted exactly where a handshake with it  *)
(* succeeds, though stores hold leftovers of its name from earlier         *)
(* generations and a regeneration runs beside an install.  It is not       *)
(* claimed where a plan is running or a step of one has failed, be it that *)
(* several certificates bear the name it deletes by (trust.rs trust_state, *)
(* commands.rs ca_status_inner).                                           *)
ReportedTrustIsReal ==
  ca # NoPair => \A d \in Domains \ partly :
    (\A t \in DOMAIN task : Running(t) => Plan(t).d # d)
      => (Reported(ca.cert, d) <=> Verifies(ca.cert, d))
==============================================================================
