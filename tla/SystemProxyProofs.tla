------------------------- MODULE SystemProxyProofs -------------------------
(***************************************************************************)
(* What the user is owed while NovaProxy has the machine's settings, for   *)
(* every plan, platform and number of crashes and failures, where commands *)
(* and the launch's restore do not overlap (Serial).                       *)
(***************************************************************************)
EXTENDS SystemProxy, TLAPS

Values == Settings \cup {"ours"}

(* A snapshot of some of the slots. *)
Snapshots == UNION {[D -> Values] : D \in SUBSET Slots}

Goals    == {"none", "enable", "restore"}
Ways     == {"none", "direct", "helper", "admin"}
Sweeps   == {s \in [goal : Goals, via : Ways, bk : Snapshots, left : SUBSET Slots,
                     failed : SUBSET Slots] : s.left \subseteq DOMAIN s.bk}
Commands == {"idle", "enable", "disable", "restore", "update", "launch", "quit", "signin", "orphan"}
Stages   == {"idle", "read", "truncate", "write", "apply", "sweep", "ok", "err", "skip"}
Jobs     == [cmd : Commands, pc : Stages, sweep : Sweeps]

Types ==
  /\ present \subseteq Slots
  /\ own \in [Slots -> Settings] /\ machine \in [Slots -> Values]
  /\ file \in {"none", "torn", "whole"} /\ saved \in Snapshots
  /\ job \in [Owners -> Jobs]
  /\ {failures, crashes} \subseteq Nat
  /\ platform # "macos" => present = Slots

Sweeping(o) == job[o].pc = "sweep"
Busy(o)     == job[o].cmd # "idle"

(* What a command does at each of its stages, and who else is at work. *)
CommandsOf(o) == CASE o = "command" -> {"idle", "enable", "disable", "restore", "update"}
                   [] o = "main"    -> {"idle", "launch", "quit", "signin"}
                   [] o = "orphan"  -> {"idle", "orphan"}

StageFits(o) ==
  /\ job[o].cmd \in CommandsOf(o)
  /\ job[o].pc = "idle" <=> ~Busy(o)
  /\ job[o].cmd = "orphan" => Sweeping(o)
  /\ job[o].pc \in {"read", "truncate", "write"} => job[o].cmd = "enable"
  /\ job[o].pc = "skip" => job[o].cmd = "update"
  /\ Sweeping(o) => /\ job[o].sweep.goal \in {"enable", "restore"}
                    /\ o # "orphan" => (job[o].sweep.goal = "enable" <=> job[o].cmd = "enable")

(* Beside a task at work there is at most a sweep it has given up on. *)
Alone(t, o) ==
  Busy(t) /\ Busy(o) => o = "orphan" /\ job[t].pc = "err" /\ failures > 0

Control ==
  /\ \A o \in Owners : StageFits(o)
  /\ \A t \in Tasks : \A o \in Owners \ {t} : Alone(t, o)
  /\ phase = "off" => \A t \in Tasks : ~Busy(t)
  /\ job["main"].cmd = "signin" => lastExit = "crash"

(* No setting of the machine is ours, but what an elevated restore left. *)
GivenBack == \A s \in present \ givenUp : machine[s] # "ours"

(* What a command has in hand is what the user chose. *)
InHand(o) ==
  LET s == job[o].sweep IN
  /\ job[o].pc \in {"truncate", "write"} =>
       /\ ~Readable
       /\ present \ givenUp \subseteq DOMAIN s.bk
       /\ \A x \in DOMAIN s.bk \ givenUp : s.bk[x] = own[x]
  /\ job[o].pc = "apply" => Readable /\ s.bk = saved
  /\ Sweeping(o) =>
       /\ Readable
       /\ \A x \in DOMAIN s.bk \ givenUp : x \in DOMAIN saved /\ s.bk[x] = saved[x]
       /\ s.goal = "restore" =>
            /\ (DOMAIN saved \cap present) \ givenUp \subseteq DOMAIN s.bk
            /\ \A x \in DOMAIN s.bk \cap present :
                 x \in s.left \/ x \in s.failed \/ machine[x] = s.bk[x]
  /\ job[o].pc = "ok" /\ job[o].cmd # "enable" => GivenBack

(* Windows: a backup leaves out only what could not be read. *)
Recorded == platform = "windows" /\ Readable => Slots \ givenUp \subseteq DOMAIN saved

Held ==
  /\ UserSettingsHeld /\ Recorded
  /\ \A s \in present \ givenUp : machine[s] \in {own[s], "ours"}
  /\ \A o \in Owners : InHand(o)

(* What is known while no step has failed. *)
Flawless ==
  failures = 0 =>
    /\ givenUp = {}
    /\ \A o \in Owners : Sweeping(o) => job[o].sweep.failed = {}
    /\ \A o \in Owners : job[o].pc = "err" /\ job[o].cmd # "enable" => GivenBack
    /\ phase = "off" /\ lastExit = "quit" => ~Busy("orphan")
    /\ phase = "off" /\ lastExit = "quit" /\ Silent => GivenBack

(* An update goes on without a restore where there is none to make. *)
SkipIsRight == job["command"].pc = "skip" => file = "none" \/ ~Silent

(* Windows: what takes settings has armed the next sign-in. *)
TakingIsArmed ==
  platform = "windows" /\ crashes = 0 =>
    \A o \in Owners : Sweeping(o) /\ job[o].sweep.goal = "enable" => armed

ProxyInv == Types /\ Control /\ Held /\ Flawless /\ SkipIsRight
               /\ TakingIsArmed /\ SignInWillRestore

------------------------------------------------------------------------------
(* Types. *)

LEMMA SnapshotFacts ==
  ASSUME NEW b \in Snapshots
  PROVE  DOMAIN b \subseteq Slots /\ \A x \in DOMAIN b : b[x] \in Values
BY DEF Snapshots

LEMMA SnapshotMade ==
  ASSUME NEW D \in SUBSET Slots, NEW b \in [D -> Values]
  PROVE  b \in Snapshots
BY DEF Snapshots

LEMMA NoSnapshot == <<>> \in Snapshots
<1>1. <<>> \in [{} -> Values]
  OBVIOUS
<1> QED BY <1>1, SnapshotMade

LEMMA IdleIsJob == Idle \in Jobs /\ NoSweep \in Sweeps
BY NoSnapshot DEF Idle, NoSweep, Jobs, Sweeps, Commands, Stages, Goals, Ways

(* A sweep is made of the part of a snapshot that the machine still has. *)
LEMMA RestrictionMade ==
  ASSUME NEW b \in Snapshots, NEW D \in SUBSET DOMAIN b
  PROVE  /\ Restrict(b, D) \in Snapshots
         /\ DOMAIN Restrict(b, D) = D
         /\ \A x \in D : Restrict(b, D)[x] = b[x]
BY SnapshotFacts, SnapshotMade DEF Restrict

LEMMA InitTypes == Init => Types
BY SystemProxyAssumption, NoSnapshot, IdleIsJob DEF Init, Types, Values, Settings

LEMMA TypesNext == Types /\ [Next]_vars => Types'
<1> SUFFICES ASSUME Types, [Next]_vars PROVE Types'
  OBVIOUS
<1> USE DEF Types, os, backup, app, Tasks, Owners
<1>0. ASSUME NEW t \in Tasks, NEW c \in Commands, NEW pc \in Stages, Begin(t, c, pc)
      PROVE  job' \in [Owners -> Jobs]
  BY <1>0, IdleIsJob DEF Begin, Jobs, Idle
<1>1. ASSUME NEW s \in Slots, Edit(s) PROVE Types'
  BY <1>1 DEF Edit, Settings, Values
<1>2. ASSUME NEW s \in Slots, Vanish(s) PROVE Types'
  BY <1>2 DEF Vanish
<1>3. CASE ChangeHelper
  BY <1>3 DEF ChangeHelper
<1>4. CASE Enable
  BY <1>0, <1>4 DEF Enable, Commands, Stages
<1>5. CASE ReadBackup
  BY <1>5, IdleIsJob, SnapshotMade DEF ReadBackup, Prepare, Jobs, Stages, Sweeps, NoSweep
<1>6. CASE Truncate
  BY <1>6, NoSnapshot DEF Truncate, Goto, Jobs, Stages
<1>7. CASE WriteBackup
  BY <1>7, NoSnapshot DEF WriteBackup, Goto, Jobs, Stages, Sweeps
<1>8. CASE Disable
  <2>1. CASE Readable
    BY <1>8, <2>1, IdleIsJob DEF Disable, Jobs, Commands, Stages, Sweeps, NoSweep
  <2>2. CASE ~Readable
    BY <1>0, <1>8, <2>2 DEF Disable, Commands, Stages
  <2> QED BY <2>1, <2>2
<1>9. ASSUME NEW t \in Tasks, NEW c \in Commands, RestoreFromBackup(t, c)
      PROVE  job' \in [Owners -> Jobs]
  BY <1>9, IdleIsJob DEF RestoreFromBackup, Jobs, Stages, Sweeps, Idle, NoSweep
<1>10. CASE Restore
  BY <1>9, <1>10 DEF Restore, Commands
<1>11. CASE Update
  <2>1. CASE Releasable
    BY <1>9, <1>11, <2>1 DEF Update, Commands
  <2>2. CASE ~Releasable
    BY <1>0, <1>11, <2>2 DEF Update, Commands, Stages
  <2> QED BY <2>1, <2>2
<1>12. ASSUME NEW t \in Tasks, StartSweep(t) PROVE Types'
  BY <1>12, RestrictionMade, SnapshotFacts DEF StartSweep, Goto, Jobs, Stages, Sweeps, Goals, Ways
<1>13. ASSUME NEW t \in Tasks, Refuse(t) PROVE Types'
  BY <1>13 DEF Refuse, Goto, Jobs, Stages
<1>14. ASSUME NEW t \in Owners, Write(t) PROVE Types'
  <2>1. PICK x \in Foremost(job[t].sweep.left) \cap present :
          /\ machine' = [machine EXCEPT ![x] = IF job[t].sweep.goal = "enable" THEN "ours"
                                                ELSE job[t].sweep.bk[x]]
          /\ job' = [job EXCEPT ![t].sweep.left = @ \ {x}]
    BY <1>14 DEF Write
  <2>2. job[t].sweep \in Sweeps /\ x \in job[t].sweep.left
    BY DEF Jobs, Foremost
  <2>3. job[t].sweep.bk[x] \in Values
    BY <2>2, SnapshotFacts DEF Sweeps
  <2>4. machine' \in [Slots -> Values]
    BY <2>1, <2>3 DEF Values
  <2>5. job' \in [Owners -> Jobs]
    BY <2>1, <2>2 DEF Jobs, Sweeps
  <2> QED BY <1>14, <2>4, <2>5 DEF Write
<1>15. ASSUME NEW t \in Owners, WriteFails(t) PROVE Types'
  <2>1. PICK x \in Foremost(job[t].sweep.left) :
          job' = [job EXCEPT ![t].sweep.failed = @ \cup {x},
                             ![t].sweep.left = IF FailFast(job[t].sweep) THEN {} ELSE @ \ {x}]
    BY <1>15 DEF WriteFails
  <2>2. job[t] \in Jobs /\ x \in job[t].sweep.left
    BY DEF Foremost
  <2> DEFINE left == IF FailFast(job[t].sweep) THEN {} ELSE job[t].sweep.left \ {x}
  <2>3. left \subseteq job[t].sweep.left
    OBVIOUS
  <2>4. job' = [job EXCEPT ![t].sweep.failed = @ \cup {x}, ![t].sweep.left = left]
    BY <2>1
  <2> HIDE DEF left
  <2>5. [job[t].sweep EXCEPT !.failed = job[t].sweep.failed \cup {x}, !.left = left] \in Sweeps
    BY <2>2, <2>3 DEF Jobs, Sweeps
  <2>6. job' = [job EXCEPT ![t] = [job[t] EXCEPT !.sweep =
                  [job[t].sweep EXCEPT !.failed = job[t].sweep.failed \cup {x}, !.left = left]]]
    BY <2>2, <2>4 DEF Jobs, Sweeps
  <2>7. job' \in [Owners -> Jobs]
    BY <2>2, <2>5, <2>6 DEF Jobs
  <2> QED BY <1>15, <2>7 DEF WriteFails
<1>16. ASSUME NEW t \in Owners, EndSweep(t) PROVE Types'
  BY <1>16, IdleIsJob DEF EndSweep, Jobs, Stages
<1>17. ASSUME NEW t \in Tasks, Timeout(t) PROVE Types'
  BY <1>17 DEF Timeout, Jobs, Stages, Commands
<1>18. ASSUME NEW t \in Owners, NEW cs, NEW pc, Finish(t, cs, pc) PROVE job' \in [Owners -> Jobs]
  BY <1>18, IdleIsJob DEF Finish
<1>19. CASE EnableDone \/ DisableDone \/ CommandFails \/ LaunchRestoreFails \/ InstallFails
  BY <1>18, <1>19, NoSnapshot
  DEF EnableDone, DisableDone, CommandFails, LaunchRestoreFails, InstallFails, Removed
<1>20. ASSUME NEW t \in Tasks, RestoreDone(t) PROVE Types'
  BY <1>18, <1>20, NoSnapshot DEF RestoreDone, Removed
<1>21. ASSUME job' = Abandoned PROVE job' \in [Owners -> Jobs]
  BY <1>21, IdleIsJob DEF Abandoned, Jobs, Commands, Stages
<1>22. ASSUME NEW t \in Tasks, Exits(t) PROVE Types'
  BY <1>21, <1>22, NoSnapshot DEF Exits, Leave, Removed
<1>23. CASE Launch
  BY <1>9, <1>23 DEF Launch, Commands
<1>24. CASE Quit
  BY <1>9, <1>21, <1>24 DEF Quit, Leave, Commands
<1>25. CASE Crash
  BY <1>21, <1>25 DEF Crash, Leave
<1>26. CASE Restart
  BY <1>21, <1>26, IdleIsJob DEF Restart, Leave, Jobs, Commands, Stages, Sweeps, NoSweep
<1>27. CASE UNCHANGED vars
  BY <1>27 DEF vars
<1> QED
  BY <1>1, <1>2, <1>3, <1>4, <1>5, <1>6, <1>7, <1>8, <1>10, <1>11, <1>12, <1>13, <1>14, <1>15,
     <1>16, <1>17, <1>19, <1>20, <1>22, <1>23, <1>24, <1>25, <1>26, <1>27 DEF Next

------------------------------------------------------------------------------
(* What a step does to the tasks. *)

OnlyMoves(t) == \A o \in Owners \ {t} : job'[o] = job[o]

LEMMA JobIsAFunction ==
  ASSUME Types
  PROVE  job = [o \in Owners |-> job[o]] /\ \A o \in Owners : job[o] \in Jobs
BY DEF Types

LEMMA TaskNames ==
  /\ Tasks = {"command", "main"} /\ Owners = {"command", "main", "orphan"}
  /\ \A t \in Tasks : t \in Owners /\ t # "orphan"
BY DEF Tasks, Owners

LEMMA Goes ==
  ASSUME Types, NEW t \in Owners, NEW pc, Goto(t, pc)
  PROVE  /\ job'[t].pc = pc /\ job'[t].cmd = job[t].cmd /\ job'[t].sweep = job[t].sweep
         /\ OnlyMoves(t)
BY JobIsAFunction DEF Goto, Jobs, OnlyMoves

LEMMA Begins ==
  ASSUME Types, NEW t \in Owners, NEW c, NEW pc, Begin(t, c, pc)
  PROVE  job'[t].pc = pc /\ job'[t].cmd = c /\ OnlyMoves(t)
BY JobIsAFunction DEF Begin, Idle, OnlyMoves

LEMMA Finishes ==
  ASSUME Types, NEW t \in Owners, NEW cs, NEW pc, Finish(t, cs, pc)
  PROVE  /\ job'[t] = Idle /\ job[t].cmd \in cs /\ job[t].pc = pc
         /\ OnlyMoves(t)
BY JobIsAFunction DEF Finish, OnlyMoves

LEMMA Replays ==
  ASSUME Types, NEW t \in Owners, NEW c, RestoreFromBackup(t, c)
  PROVE  /\ job'[t].cmd = c /\ job'[t].sweep.bk = saved
         /\ job'[t].pc = IF file = "none" THEN "ok" ELSE IF file = "torn" THEN "err" ELSE "apply"
         /\ OnlyMoves(t)
<1>1. job'[t].cmd = c /\ job'[t].sweep.bk = saved /\ OnlyMoves(t)
  BY JobIsAFunction DEF RestoreFromBackup, NoSweep, OnlyMoves
<1>2. CASE file = "none"
  BY <1>1, <1>2, JobIsAFunction DEF RestoreFromBackup
<1>3. CASE file = "torn"
  BY <1>1, <1>3, JobIsAFunction DEF RestoreFromBackup
<1>4. CASE file = "whole"
  BY <1>1, <1>4, JobIsAFunction DEF RestoreFromBackup
<1> QED BY <1>1, <1>2, <1>3, <1>4 DEF Types

LEMMA ReadingFacts ==
  ASSUME Types, NEW bk \in Readings \cup {Truth}
  PROVE  bk \in Snapshots /\ DOMAIN bk \subseteq present
<1>1. present \subseteq Slots /\ \A x \in Slots : machine[x] \in Values
  BY DEF Types
<1>2. "direct" \in Values
  BY DEF Values, Settings
<1>3. Truth \in [present -> Values]
  BY <1>1 DEF Truth
<1>4. ASSUME NEW R \in SUBSET present
      PROVE  Snapshot(R) \in [R -> Values] \/ Snapshot(R) \in [present -> Values]
  BY <1>1, <1>2 DEF Snapshot
<1>5. CASE bk = Truth
  BY <1>1, <1>3, <1>5, SnapshotMade
<1>6. CASE bk = <<>>
  BY <1>6, NoSnapshot
<1>7. ASSUME NEW R \in SUBSET present, bk = Snapshot(R)
      PROVE  bk \in Snapshots /\ DOMAIN bk \subseteq present
  BY <1>1, <1>4, <1>7, SnapshotMade
<1> QED BY <1>5, <1>6, <1>7 DEF Readings

LEMMA Prepares ==
  ASSUME Types, ReadBackup
  PROVE  LET bk == job'["command"].sweep.bk
         IN  /\ job["command"].pc = "read" /\ job["command"].cmd = "enable"
             /\ job'["command"].cmd = "enable"
             /\ Readable => job'["command"].pc = "apply" /\ bk = saved
             /\ ~Readable => /\ job'["command"].pc = "truncate" /\ DOMAIN bk \subseteq present
                             /\ \A s \in present \ givenUp' : s \in DOMAIN bk /\ bk[s] = machine[s]
             /\ job' \in [Owners -> Jobs]
             /\ givenUp \subseteq givenUp' /\ failures' \in {failures, failures + 1}
             /\ failures' = failures => givenUp' = givenUp
             /\ OnlyMoves("command")
<1>1. ASSUME NEW pc \in Stages, NEW bk \in Snapshots, Prepare("command", pc, bk)
      PROVE  /\ job'["command"].pc = pc /\ job'["command"].sweep.bk = bk
             /\ job'["command"].cmd = job["command"].cmd /\ OnlyMoves("command")
             /\ job' \in [Owners -> Jobs]
  <2>1. job' = [job EXCEPT !["command"].pc = pc, !["command"].sweep = [NoSweep EXCEPT !.bk = bk]]
    BY <1>1 DEF Prepare
  <2>2. [NoSweep EXCEPT !.bk = bk] \in Sweeps /\ [NoSweep EXCEPT !.bk = bk].bk = bk
    BY IdleIsJob DEF NoSweep, Sweeps
  <2> HIDE DEF NoSweep
  <2> QED BY <2>1, <2>2, JobIsAFunction, TaskNames DEF Jobs, OnlyMoves
<1>2. job["command"].pc = "read" /\ job["command"].cmd = "enable"
  BY DEF ReadBackup
<1>3. CASE Readable /\ Prepare("command", "apply", saved) /\ UNCHANGED <<failures, givenUp>>
  BY <1>1, <1>2, <1>3 DEF Types, Stages
<1>4. CASE ~Readable /\ Prepare("command", "truncate", Truth) /\ UNCHANGED <<failures, givenUp>>
  <2>1. Truth \in Snapshots /\ DOMAIN Truth = present /\ \A s \in present : Truth[s] = machine[s]
    BY ReadingFacts DEF Truth
  <2> QED BY <1>1, <1>2, <1>4, <2>1 DEF Stages
<1>5. ASSUME ~Readable, failures' = failures + 1,
             NEW bk \in Readings, Prepare("command", "truncate", bk),
             givenUp' = givenUp \cup {s \in present : s \notin DOMAIN bk \/ bk[s] # machine[s]}
      PROVE  /\ job'["command"].pc = "truncate" /\ job'["command"].sweep.bk = bk
             /\ job'["command"].cmd = "enable" /\ OnlyMoves("command")
             /\ job' \in [Owners -> Jobs]
             /\ DOMAIN bk \subseteq present /\ givenUp \subseteq givenUp'
             /\ \A s \in present \ givenUp' : s \in DOMAIN bk /\ bk[s] = machine[s]
             /\ failures' # failures
  <2>1. bk \in Snapshots /\ DOMAIN bk \subseteq present
    BY <1>5, ReadingFacts
  <2>2. failures' # failures
    BY <1>5 DEF Types
  <2>3. \A s \in present \ givenUp' : s \in DOMAIN bk /\ bk[s] = machine[s]
    BY <1>5
  <2> QED BY <1>1, <1>2, <1>5, <2>1, <2>2, <2>3 DEF Stages
<1>6. \/ Readable /\ Prepare("command", "apply", saved) /\ UNCHANGED <<failures, givenUp>>
      \/ ~Readable /\ Prepare("command", "truncate", Truth) /\ UNCHANGED <<failures, givenUp>>
      \/ /\ ~Readable /\ failures' = failures + 1
         /\ \E bk \in Readings :
              /\ Prepare("command", "truncate", bk)
              /\ givenUp' = givenUp \cup {s \in present : s \notin DOMAIN bk \/ bk[s] # machine[s]}
  BY DEF ReadBackup
<1> QED BY <1>2, <1>3, <1>4, <1>5, <1>6

LEMMA Disables ==
  ASSUME Types, Disable
  PROVE  /\ Free("command") /\ phase = "running" /\ job'["command"].cmd = "disable"
         /\ Readable => job'["command"].pc = "apply" /\ job'["command"].sweep.bk = saved
         /\ ~Readable => job'["command"].pc = "ok"
         /\ OnlyMoves("command")
<1>1. Free("command") /\ phase = "running"
  BY DEF Disable
<1>2. CASE Readable
  BY <1>1, <1>2, JobIsAFunction, TaskNames DEF Disable, NoSweep, OnlyMoves
<1>3. CASE ~Readable
  BY <1>1, <1>3, Begins, TaskNames DEF Disable
<1> QED BY <1>2, <1>3

(* What a sweep goes through is part of the snapshot, or the LAN for none. *)
LEMMA TargetFacts ==
  ASSUME Types, NEW bk \in Snapshots, NEW listed \in SUBSET present
  PROVE  LET to == Targets(bk, listed)
         IN  /\ to \in Snapshots
             /\ \A x \in DOMAIN to : \/ x \in DOMAIN bk /\ to[x] = bk[x]
                                     \/ platform = "windows" /\ DOMAIN bk = {}
             /\ DOMAIN bk \cap listed \subseteq DOMAIN to
             /\ platform = "macos" => DOMAIN to = DOMAIN bk \cap listed
             /\ platform # "macos" => DOMAIN bk \subseteq DOMAIN to
<1> DEFINE to == Targets(bk, listed)
<1>1. CASE platform = "macos"
  <2>1. to = Restrict(bk, DOMAIN bk \cap listed)
    BY <1>1 DEF Targets
  <2> QED BY <1>1, <2>1, RestrictionMade
<1>2. CASE platform = "windows" /\ bk = <<>>
  <2>1. to = [s \in {Head(Plan)} |-> "direct"]
    BY <1>2 DEF Targets
  <2>2. Head(Plan) \in Slots
    BY SystemProxyAssumption DEF Slots, ToSet
  <2>3. to \in [{Head(Plan)} -> Values]
    BY <2>1 DEF Values, Settings
  <2>4. to \in Snapshots
    BY <2>2, <2>3, SnapshotMade
  <2>5. DOMAIN bk = {}
    BY <1>2
  <2> QED BY <1>2, <2>4, <2>5
<1>3. CASE platform # "macos" /\ ~(platform = "windows" /\ bk = <<>>)
  <2>1. to = bk
    BY <1>3 DEF Targets
  <2> QED BY <1>3, <2>1
<1> QED BY <1>1, <1>2, <1>3

LEMMA StartsSweep ==
  ASSUME Types, NEW t \in Tasks, StartSweep(t)
  PROVE  LET old == job[t].sweep.bk
             bk  == job'[t].sweep.bk
         IN  /\ job[t].pc = "apply" /\ job'[t].cmd = job[t].cmd
             /\ \/ /\ job'[t].pc = "err"
                   /\ failures' = failures => platform = "macos" /\ DOMAIN old \cap present = {}
                \/ /\ job'[t].pc = "sweep" /\ job'[t].sweep.left = DOMAIN bk
                   /\ \A x \in DOMAIN bk : \/ x \in DOMAIN old /\ bk[x] = old[x]
                                           \/ platform = "windows" /\ DOMAIN old = {}
                   /\ job[t].cmd # "enable" => (DOMAIN old \cap present) \ givenUp' \subseteq DOMAIN bk
                   /\ job'[t].sweep.goal = IF job[t].cmd = "enable" THEN "enable" ELSE "restore"
                   /\ job'[t].sweep.failed = {}
                   /\ platform = "windows" /\ job[t].cmd = "enable" => armed'
             /\ job' \in [Owners -> Jobs]
             /\ givenUp \subseteq givenUp' /\ failures' \in {failures, failures + 1}
             /\ failures' = failures => givenUp' = givenUp
             /\ OnlyMoves(t)
<1> DEFINE old  == job[t].sweep.bk
           goal == IF job[t].cmd = "enable" THEN "enable" ELSE "restore"
           via  == IF platform # "macos" THEN "direct" ELSE IF helper THEN "helper" ELSE "admin"
<1>1. PICK listed \in {present, {}} :
        /\ IF listed = present THEN UNCHANGED failures
           ELSE platform = "macos" /\ failures < MaxFailures /\ failures' = failures + 1
        /\ IF via = "helper" /\ DOMAIN Targets(old, listed) = {}
             THEN /\ Goto(t, "err") /\ UNCHANGED <<armed, givenUp>>
             ELSE /\ job' = [job EXCEPT ![t].pc = "sweep",
                       ![t].sweep = [goal |-> goal, via |-> via, bk |-> Targets(old, listed),
                                     failed |-> {}, left |-> DOMAIN Targets(old, listed)]]
                  /\ armed' = (armed \/ (platform = "windows" /\ goal = "enable"))
                  /\ givenUp' = IF goal = "enable" THEN givenUp
                                ELSE givenUp \cup ((DOMAIN old \cap present) \ listed)
  BY DEF StartSweep
<1>2. job[t].pc = "apply" /\ t \in Owners
  BY TaskNames DEF StartSweep
<1> DEFINE bk == Targets(old, listed)
<1>3. old \in Snapshots /\ listed \in SUBSET present
  BY <1>2, JobIsAFunction DEF Jobs, Sweeps
<1>4. /\ bk \in Snapshots
      /\ \A x \in DOMAIN bk : \/ x \in DOMAIN old /\ bk[x] = old[x]
                              \/ platform = "windows" /\ DOMAIN old = {}
      /\ DOMAIN old \cap listed \subseteq DOMAIN bk
      /\ platform = "macos" => DOMAIN bk = DOMAIN old \cap listed
      /\ platform # "macos" => DOMAIN old \subseteq DOMAIN bk
  BY <1>3, TargetFacts
<1>5. /\ failures' \in {failures, failures + 1}
      /\ failures' = failures => listed = present
  BY <1>1 DEF Types
<1>6. via = "helper" => platform = "macos"
  OBVIOUS
<1>7. /\ goal \in Goals /\ via \in Ways
      /\ platform = "windows" /\ job[t].cmd = "enable" => platform = "windows" /\ goal = "enable"
      /\ job[t].cmd # "enable" <=> goal # "enable"
  BY DEF Goals, Ways
<1> HIDE DEF bk, via, goal, old
<1>8. CASE via = "helper" /\ DOMAIN bk = {}
  <2>1. Goto(t, "err") /\ UNCHANGED <<armed, givenUp>>
    BY <1>1, <1>8 DEF bk
  <2>2. job'[t].pc = "err" /\ job'[t].cmd = job[t].cmd /\ OnlyMoves(t)
    BY <1>2, <2>1, Goes
  <2>3. job' \in [Owners -> Jobs]
    BY <1>2, <2>1, JobIsAFunction DEF Goto, Jobs, Stages
  <2>4. failures' = failures => platform = "macos" /\ DOMAIN old \cap present = {}
    BY <1>4, <1>5, <1>6, <1>8
  <2> QED BY <1>2, <1>5, <2>1, <2>2, <2>3, <2>4 DEF old
<1>9. CASE ~(via = "helper" /\ DOMAIN bk = {})
  <2> DEFINE s == [goal |-> goal, via |-> via, bk |-> bk, failed |-> {}, left |-> DOMAIN bk]
  <2>1. /\ job' = [job EXCEPT ![t].pc = "sweep", ![t].sweep = s]
        /\ armed' = (armed \/ (platform = "windows" /\ goal = "enable"))
        /\ givenUp' = IF goal = "enable" THEN givenUp
                      ELSE givenUp \cup ((DOMAIN old \cap present) \ listed)
    BY <1>1, <1>9 DEF bk
  <2>2. /\ s \in Sweeps /\ s.goal = goal /\ s.bk = bk /\ s.failed = {} /\ s.left = DOMAIN bk
    BY <1>4, <1>7, SnapshotFacts DEF Sweeps
  <2> HIDE DEF s
  <2>3. /\ job'[t].cmd = job[t].cmd /\ job'[t].pc = "sweep" /\ job'[t].sweep = s
        /\ OnlyMoves(t) /\ job' \in [Owners -> Jobs]
    BY <1>2, <2>1, <2>2, JobIsAFunction DEF Jobs, Stages, OnlyMoves
  <2>4. job[t].cmd # "enable" => (DOMAIN old \cap present) \ givenUp' \subseteq DOMAIN bk
    BY <1>4, <1>7, <2>1
  <2>5. givenUp \subseteq givenUp' /\ (failures' = failures => givenUp' = givenUp)
    BY <1>5, <2>1
  <2>6. platform = "windows" /\ job[t].cmd = "enable" => armed'
    BY <1>7, <2>1
  <2>7. goal = IF job[t].cmd = "enable" THEN "enable" ELSE "restore"
    BY DEF goal
  <2> QED BY <1>2, <1>4, <1>5, <2>2, <2>3, <2>4, <2>5, <2>6, <2>7 DEF old
<1> QED BY <1>8, <1>9

(* A sweep keeps its goal and its snapshot. *)
Same(t) == /\ Sweeping(t) /\ job'[t].pc = "sweep" /\ job'[t].cmd = job[t].cmd
           /\ job'[t].sweep.goal = job[t].sweep.goal /\ job'[t].sweep.bk = job[t].sweep.bk
           /\ OnlyMoves(t)

LEMMA Writes ==
  ASSUME Types, NEW t \in Owners, Write(t)
  PROVE  /\ Same(t)
         /\ job'[t].sweep.failed = job[t].sweep.failed
         /\ \E x \in job[t].sweep.left \cap present :
              /\ machine' = [machine EXCEPT ![x] = IF job[t].sweep.goal = "enable" THEN "ours"
                                                   ELSE job[t].sweep.bk[x]]
              /\ job'[t].sweep.left = job[t].sweep.left \ {x}
<1>1. PICK x \in Foremost(job[t].sweep.left) \cap present :
        /\ machine' = [machine EXCEPT ![x] = IF job[t].sweep.goal = "enable" THEN "ours"
                                             ELSE job[t].sweep.bk[x]]
        /\ job' = [job EXCEPT ![t].sweep.left = @ \ {x}]
  BY DEF Write
<1>2. Sweeping(t) /\ x \in job[t].sweep.left \cap present
  BY DEF Write, Sweeping, Foremost
<1>3. job[t].sweep \in Sweeps
  BY JobIsAFunction DEF Jobs
<1>4. /\ job'[t].pc = job[t].pc /\ job'[t].cmd = job[t].cmd
      /\ job'[t].sweep = [job[t].sweep EXCEPT !.left = job[t].sweep.left \ {x}]
      /\ OnlyMoves(t)
  BY <1>1, JobIsAFunction DEF Jobs, OnlyMoves
<1>5. /\ job'[t].sweep.left = job[t].sweep.left \ {x}
      /\ job'[t].sweep.goal = job[t].sweep.goal /\ job'[t].sweep.bk = job[t].sweep.bk
      /\ job'[t].sweep.failed = job[t].sweep.failed
  BY <1>3, <1>4 DEF Sweeps
<1> QED BY <1>1, <1>2, <1>4, <1>5 DEF Sweeping, Same

LEMMA WritesFail ==
  ASSUME Types, NEW t \in Owners, WriteFails(t)
  PROVE  /\ Same(t)
         /\ \E x \in job[t].sweep.left :
              /\ job'[t].sweep.failed = job[t].sweep.failed \cup {x}
              /\ job'[t].sweep.left = IF FailFast(job[t].sweep) THEN {} ELSE job[t].sweep.left \ {x}
<1>1. PICK x \in Foremost(job[t].sweep.left) :
        job' = [job EXCEPT ![t].sweep.failed = @ \cup {x},
                           ![t].sweep.left = IF FailFast(job[t].sweep) THEN {} ELSE @ \ {x}]
  BY DEF WriteFails
<1>2. Sweeping(t) /\ x \in job[t].sweep.left
  BY DEF WriteFails, Sweeping, Foremost
<1>3. job[t].sweep \in Sweeps
  BY JobIsAFunction DEF Jobs
<1> DEFINE left == IF FailFast(job[t].sweep) THEN {} ELSE job[t].sweep.left \ {x}
<1>4. job' = [job EXCEPT ![t].sweep.failed = @ \cup {x}, ![t].sweep.left = left]
  BY <1>1
<1>5. left = IF FailFast(job[t].sweep) THEN {} ELSE job[t].sweep.left \ {x}
  OBVIOUS
<1> HIDE DEF left
<1>6. /\ job'[t].pc = job[t].pc /\ job'[t].cmd = job[t].cmd
      /\ job'[t].sweep = [job[t].sweep EXCEPT !.failed = job[t].sweep.failed \cup {x}, !.left = left]
      /\ OnlyMoves(t)
  BY <1>3, <1>4, JobIsAFunction DEF Jobs, Sweeps, OnlyMoves
<1>7. /\ job'[t].sweep.left = left /\ job'[t].sweep.failed = job[t].sweep.failed \cup {x}
      /\ job'[t].sweep.goal = job[t].sweep.goal /\ job'[t].sweep.bk = job[t].sweep.bk
  BY <1>3, <1>6 DEF Sweeps
<1> QED BY <1>2, <1>5, <1>6, <1>7 DEF Sweeping, Same

LEMMA EndsSweep ==
  ASSUME Types, NEW t \in Owners, EndSweep(t)
  PROVE  /\ Sweeping(t) /\ job[t].sweep.left = {}
         /\ t = "orphan" => job'[t] = Idle
         /\ t # "orphan" => /\ job'[t].pc = IF Succeeded(job[t].sweep) THEN "ok" ELSE "err"
                            /\ job'[t].cmd = job[t].cmd
         /\ OnlyMoves(t)
BY JobIsAFunction DEF EndSweep, Sweeping, Jobs, OnlyMoves

LEMMA TimesOut ==
  ASSUME Types, NEW t \in Tasks, Timeout(t)
  PROVE  /\ Sweeping(t) /\ failures' = failures + 1
         /\ job'[t].pc = "err" /\ job'[t].cmd = job[t].cmd
         /\ job'["orphan"] = [cmd |-> "orphan", pc |-> "sweep", sweep |-> job[t].sweep]
         /\ \A o \in Tasks \ {t} : job'[o] = job[o]
<1>1. /\ Sweeping(t) /\ failures' = failures + 1
      /\ job' = [job EXCEPT !["orphan"] = [cmd |-> "orphan", pc |-> "sweep", sweep |-> job[t].sweep],
                            ![t].pc = "err"]
  BY DEF Timeout, Sweeping
<1> QED BY <1>1, JobIsAFunction, TaskNames DEF Jobs

(* What a dying process leaves is idle or a sweep that was under way. *)
LEMMA WhatIsLeft ==
  ASSUME Types, NEW o \in Owners, job' = Abandoned
  PROVE  \/ job'[o] = Idle
         \/ o = "orphan" /\ job'[o] = job[o]
         \/ /\ o = "orphan" /\ job'[o].cmd = "orphan" /\ job'[o].pc = "sweep"
            /\ \E t \in Tasks : Sweeping(t) /\ job'[o].sweep = job[t].sweep
BY DEF Abandoned, Outlives, Owners, Tasks, Sweeping

LEMMA SignsIn ==
  ASSUME Types, Restart
  PROVE  \/ job' = Abandoned /\ phase' = "off" /\ lastExit' = "crash"
         \/ /\ Readable /\ phase' = "signin" /\ lastExit' = "crash"
            /\ job'["main"].cmd = "signin" /\ job'["main"].pc = "apply" /\ job'["main"].sweep.bk = saved
            /\ \A o \in Owners \ {"main"} : job'[o] = Idle
<1>1. CASE armed /\ Readable
  BY <1>1, TaskNames DEF Restart, NoSweep
<1>2. CASE ~(armed /\ Readable)
  BY <1>2 DEF Restart, Leave
<1> QED BY <1>1, <1>2

------------------------------------------------------------------------------
(* Who is at work. *)

LEMMA InitControl == Init => Control
BY DEF Init, Control, StageFits, Alone, Busy, Sweeping, CommandsOf, Idle, Owners, Tasks

(* A task that goes on, and one that begins where nobody works. *)
LEMMA GoesOn ==
  ASSUME Types, Control, NEW t \in Owners, OnlyMoves(t), StageFits(t)', Busy(t)' => Busy(t),
         job[t].pc = "err" => job'[t].pc \in {"err", "idle"}, failures' \in {failures, failures + 1},
         phase' = phase, lastExit' = lastExit, job'[t].cmd \in {"idle", job[t].cmd}
  PROVE  Control'
<1> USE TaskNames DEF Types, Control, StageFits, Alone, Busy, Sweeping, CommandsOf, OnlyMoves
<1>1. \A o \in Owners : StageFits(o)'
  OBVIOUS
<1>2. ASSUME NEW u \in Tasks, NEW o \in Owners \ {u} PROVE Alone(u, o)'
  BY <1>2
<1> QED BY <1>1, <1>2

LEMMA BeginsAlone ==
  ASSUME Types, Control, NEW t \in Tasks, OnlyMoves(t), StageFits(t)', Quiet, phase' # "off",
         job'[t].cmd # "signin"
  PROVE  Control'
BY TaskNames DEF Types, Control, StageFits, Alone, Busy, Sweeping, CommandsOf, OnlyMoves, Quiet

LEMMA LeavesControl ==
  ASSUME Types, Control, job' = Abandoned
  PROVE  Control'
<1> USE TaskNames DEF Control, StageFits, Alone, Busy, Sweeping, CommandsOf
<1>1. \A t \in Tasks : job'[t] = Idle
  BY DEF Abandoned
<1>2. \/ job'["orphan"] = Idle
      \/ job'["orphan"] = job["orphan"]
      \/ /\ job'["orphan"].cmd = "orphan" /\ job'["orphan"].pc = "sweep"
         /\ \E t \in Tasks : Sweeping(t) /\ job'["orphan"].sweep = job[t].sweep
  BY WhatIsLeft
<1>3. StageFits("orphan")'
  BY <1>2 DEF Idle
<1> QED BY <1>1, <1>3 DEF Idle

LEMMA ControlNext == Serial /\ Types /\ Control /\ [Next]_vars => Control'
<1> SUFFICES ASSUME Serial, Types, Control, [Next]_vars PROVE Control'
  OBVIOUS
<1> USE TaskNames DEF os, backup, app
<1>a. \A t \in Owners : StageFits(t)
  BY DEF Control
<1>b. ASSUME UNCHANGED <<job, phase, lastExit, failures>> PROVE Control'
  BY <1>b DEF Control, StageFits, Alone, Busy, Sweeping, CommandsOf
<1>c. ASSUME NEW t \in Tasks, NEW cs, NEW pc, Finish(t, cs, pc),
             failures' \in {failures, failures + 1}, phase' = phase, lastExit' = lastExit
      PROVE  Control'
  <2>1. job'[t] = Idle /\ OnlyMoves(t)
    BY <1>c, Finishes
  <2>2. StageFits(t)' /\ ~Busy(t)'
    BY <2>1 DEF StageFits, Busy, Sweeping, CommandsOf, Idle
  <2> QED BY <1>c, <2>1, <2>2, GoesOn DEF Idle
<1>d. ASSUME NEW t \in Tasks, NEW c \in CommandsOf(t) \ {"idle", "enable", "signin"},
             RestoreFromBackup(t, c), Quiet, phase' # "off"
      PROVE  Control'
  <2>1. job'[t].cmd = c /\ job'[t].pc \in {"ok", "err", "apply"} /\ OnlyMoves(t)
    BY <1>d, Replays
  <2>2. StageFits(t)'
    BY <1>d, <2>1 DEF StageFits, Busy, Sweeping, CommandsOf
  <2> QED BY <1>d, <2>1, <2>2, BeginsAlone
<1>1. ASSUME NEW s \in Slots, Edit(s) \/ Vanish(s) PROVE Control'
  BY <1>1, <1>b DEF Edit, Vanish
<1>2. CASE ChangeHelper \/ UNCHANGED vars
  BY <1>2, <1>b DEF ChangeHelper, vars
<1>3. CASE Enable
  <2>1. job'["command"].pc = "read" /\ job'["command"].cmd = "enable" /\ OnlyMoves("command")
    BY <1>3, Begins DEF Enable
  <2>2. StageFits("command")'
    BY <2>1 DEF StageFits, Busy, Sweeping, CommandsOf
  <2> QED BY <1>3, <2>1, <2>2, BeginsAlone DEF Enable, Free
<1>4. CASE ReadBackup
  <2>1. /\ job["command"].pc = "read" /\ job["command"].cmd = "enable" /\ job'["command"].cmd = "enable"
        /\ job'["command"].pc \in {"apply", "truncate"} /\ OnlyMoves("command")
    BY <1>4, Prepares
  <2>2. StageFits("command")'
    BY <2>1 DEF StageFits, Busy, Sweeping, CommandsOf
  <2> QED BY <1>4, <2>1, <2>2, GoesOn DEF ReadBackup, Busy
<1>5. CASE Truncate \/ WriteBackup
  <2>1. PICK pc \in {"write", "apply", "err"} : Goto("command", pc)
    BY <1>5 DEF Truncate, WriteBackup
  <2>2. job["command"].pc \in {"truncate", "write"} /\ phase' = phase /\ lastExit' = lastExit
        /\ failures' \in {failures, failures + 1}
    BY <1>5 DEF Truncate, WriteBackup
  <2>3. job'["command"].pc = pc /\ job'["command"].cmd = job["command"].cmd /\ OnlyMoves("command")
    BY <2>1, Goes
  <2>4. StageFits("command")'
    BY <1>a, <2>2, <2>3 DEF StageFits, Busy, Sweeping, CommandsOf
  <2> QED BY <2>2, <2>3, <2>4, GoesOn DEF Busy
<1>6. CASE Disable
  <2>1. /\ Quiet /\ phase' # "off" /\ job'["command"].cmd = "disable"
        /\ job'["command"].pc \in {"apply", "ok"} /\ OnlyMoves("command")
    BY <1>6, Disables DEF Disable, Free
  <2>2. StageFits("command")'
    BY <2>1 DEF StageFits, Busy, Sweeping, CommandsOf
  <2> QED BY <2>1, <2>2, BeginsAlone
<1>7. CASE Restore
  BY <1>7, <1>d DEF Restore, Free, CommandsOf
<1>8. CASE Update
  <2>1. CASE Releasable
    BY <1>8, <1>d, <2>1 DEF Update, Free, CommandsOf
  <2>2. CASE ~Releasable
    <3>1. Begin("command", "update", "skip") /\ Quiet /\ phase' # "off"
      BY <1>8, <2>2 DEF Update, Free
    <3>2. job'["command"].pc = "skip" /\ job'["command"].cmd = "update" /\ OnlyMoves("command")
      BY <3>1, Begins
    <3>3. StageFits("command")'
      BY <3>2 DEF StageFits, Busy, Sweeping, CommandsOf
    <3> QED BY <3>1, <3>2, <3>3, BeginsAlone
  <2> QED BY <2>1, <2>2
<1>9. ASSUME NEW t \in Tasks, StartSweep(t) PROVE Control'
  <2>1. /\ job[t].pc = "apply" /\ job'[t].cmd = job[t].cmd /\ OnlyMoves(t)
        /\ \/ job'[t].pc = "err"
           \/ /\ job'[t].pc = "sweep"
              /\ job'[t].sweep.goal = IF job[t].cmd = "enable" THEN "enable" ELSE "restore"
    BY <1>9, StartsSweep
  <2>2. StageFits(t)'
    BY <1>a, <2>1 DEF StageFits, Busy, Sweeping, CommandsOf
  <2> QED BY <1>9, <2>1, <2>2, GoesOn DEF StartSweep, Busy
<1>10. ASSUME NEW t \in Tasks, Refuse(t) PROVE Control'
  <2>1. /\ job[t].pc = "apply" /\ job'[t].pc = "err" /\ job'[t].cmd = job[t].cmd /\ OnlyMoves(t)
    BY <1>10, Goes DEF Refuse
  <2>2. StageFits(t)'
    BY <1>a, <2>1 DEF StageFits, Busy, Sweeping, CommandsOf
  <2> QED BY <1>10, <2>1, <2>2, GoesOn DEF Refuse, Busy
<1>11. ASSUME NEW t \in Owners, Write(t) \/ WriteFails(t) PROVE Control'
  <2>1. Same(t)
    BY <1>11, Writes, WritesFail
  <2>2. StageFits(t)'
    BY <1>a, <2>1 DEF StageFits, Busy, Sweeping, CommandsOf, Same
  <2> QED BY <1>11, <2>1, <2>2, GoesOn DEF Write, WriteFails, Busy, Sweeping, Same
<1>12. ASSUME NEW t \in Owners, EndSweep(t) PROVE Control'
  <2>1. /\ Sweeping(t) /\ OnlyMoves(t)
        /\ job'[t] = Idle \/ (t # "orphan" /\ job'[t].pc \in {"ok", "err"} /\ job'[t].cmd = job[t].cmd)
    BY <1>12, EndsSweep
  <2>2. StageFits(t)' /\ Busy(t)
    BY <1>a, <2>1 DEF StageFits, Busy, Sweeping, CommandsOf, Idle
  <2> QED BY <1>12, <2>1, <2>2, GoesOn DEF EndSweep, Busy, Sweeping, Idle
<1>13. ASSUME NEW t \in Tasks, Timeout(t) PROVE Control'
  <2>1. /\ Sweeping(t) /\ failures' = failures + 1
        /\ job'[t].pc = "err" /\ job'[t].cmd = job[t].cmd
        /\ job'["orphan"] = [cmd |-> "orphan", pc |-> "sweep", sweep |-> job[t].sweep]
        /\ \A o \in Tasks \ {t} : job'[o] = job[o]
    BY <1>13, TimesOut
  <2>2. phase' = phase /\ lastExit' = lastExit
    BY <1>13 DEF Timeout
  <2>3. Busy(t)
    BY <1>a, <2>1 DEF StageFits, Busy, Sweeping
  <2>4. \A o \in Owners : StageFits(o)'
    BY <1>a, <2>1, <2>3 DEF StageFits, Busy, Sweeping, CommandsOf
  <2>5. \A u \in Tasks : \A o \in Owners \ {u} : Alone(u, o)'
    BY <2>1, <2>3 DEF Control, Alone, Busy, Types, Sweeping
  <2> QED BY <2>1, <2>2, <2>3, <2>4, <2>5 DEF Control, Busy
<1>14. CASE EnableDone \/ DisableDone \/ CommandFails \/ LaunchRestoreFails
  BY <1>14, <1>c DEF EnableDone, DisableDone, CommandFails, LaunchRestoreFails
<1>15. CASE InstallFails
  BY <1>15, <1>c DEF InstallFails
<1>16. ASSUME NEW t \in Tasks, RestoreDone(t) PROVE Control'
  BY <1>16, <1>c DEF RestoreDone
<1>17. ASSUME NEW t \in Tasks, Exits(t) PROVE Control'
  BY <1>17, LeavesControl DEF Exits, Leave
<1>18. CASE Launch
  <2>1. CASE Releasable
    BY <1>18, <1>d, <2>1 DEF Launch, Free, CommandsOf
  <2>2. CASE ~Releasable
    BY <1>18, <2>2 DEF Launch, Control, StageFits, Alone, Busy, Sweeping, CommandsOf
  <2> QED BY <2>1, <2>2
<1>19. CASE Quit
  <2>1. CASE Releasable
    BY <1>19, <1>d, <2>1 DEF Quit, Free, CommandsOf
  <2>2. CASE ~Releasable
    BY <1>19, <2>2, LeavesControl DEF Quit, Leave
  <2> QED BY <2>1, <2>2
<1>20. CASE Crash
  BY <1>20, LeavesControl DEF Crash, Leave
<1>21. CASE Restart
  <2>1. CASE job' = Abandoned
    BY <2>1, LeavesControl
  <2>2. CASE /\ phase' = "signin" /\ lastExit' = "crash" /\ job'["main"].cmd = "signin"
             /\ job'["main"].pc = "apply" /\ \A o \in Owners \ {"main"} : job'[o] = Idle
    BY <2>2 DEF Control, StageFits, Alone, Busy, Sweeping, CommandsOf, Idle
  <2> QED BY <1>21, <2>1, <2>2, SignsIn
<1> QED
  BY <1>1, <1>2, <1>3, <1>4, <1>5, <1>6, <1>7, <1>8, <1>9, <1>10, <1>11, <1>12, <1>13, <1>14, <1>15,
     <1>16, <1>17, <1>18, <1>19, <1>20, <1>21 DEF Next

(* Nobody works beside a task that has not failed, nor a task beside a sweep. *)
LEMMA AtWorkAlone ==
  ASSUME Control, NEW t \in Owners, job[t].pc \notin {"idle", "err"}, NEW o \in Owners \ {t}
  PROVE  job[o].pc \in {"idle", "err"} /\ (t # "orphan" => job[o].pc = "idle")
BY DEF Control, StageFits, Alone, Busy, CommandsOf, Owners, Tasks

(* Nobody works where every command is idle. *)
LEMMA QuietIsIdle ==
  ASSUME Control, Quiet, NEW o \in Owners
  PROVE  job[o].pc = "idle"
BY DEF Control, StageFits, Busy, Quiet

------------------------------------------------------------------------------
(* The user's settings. *)

LEMMA InitHeld == Init => Held
BY DEF Init, Held, UserSettingsHeld, Recorded, InHand, Sweeping, Readable, Idle, Settings

LEMMA NothingInHand ==
  ASSUME NEW o \in Owners, job[o].pc \in {"idle", "read", "err", "skip"}
  PROVE  InHand(o)
BY DEF InHand, Sweeping

(* A step that touches neither the machine nor the backup is judged by what *)
(* the tasks it moves have in hand.                                         *)
LEMMA HeldWhereItWas ==
  ASSUME Held, UNCHANGED <<platform, present, own, machine, file, saved>>, givenUp \subseteq givenUp'
  PROVE  /\ (\A o \in Owners : job'[o] = job[o] \/ InHand(o)') => Held'
         /\ GivenBack => GivenBack'
<1>1. ASSUME NEW o \in Owners, job'[o] = job[o] PROVE InHand(o)'
  <2>1. InHand(o)
    BY DEF Held
  <2> QED BY <1>1, <2>1 DEF InHand, Sweeping, Readable, GivenBack
<1>2. /\ UserSettingsHeld' /\ Recorded'
      /\ \A s \in present' \ givenUp' : machine'[s] \in {own'[s], "ours"}
  BY DEF Held, UserSettingsHeld, Recorded, Readable
<1>3. GivenBack => GivenBack'
  BY DEF GivenBack
<1> QED BY <1>1, <1>2, <1>3 DEF Held

(* With no backup to read there is nothing to give back. *)
LEMMA NothingTaken == ASSUME UserSettingsHeld, ~Readable PROVE GivenBack
BY DEF UserSettingsHeld, GivenBack

(* A restore that is over has put back all it did not fail to. *)
LEMMA SweepGivesBack ==
  ASSUME Types, Held, NEW t \in Owners, Sweeping(t), job[t].sweep.goal = "restore",
         job[t].sweep.left = {}, NEW s \in present \ givenUp, s \notin job[t].sweep.failed
  PROVE  machine[s] # "ours"
<1>1. SUFFICES ASSUME machine[s] = "ours" PROVE FALSE
  OBVIOUS
<1>2. Readable /\ s \in DOMAIN saved /\ saved[s] = own[s]
  BY <1>1 DEF Held, UserSettingsHeld
<1>3. s \in DOMAIN job[t].sweep.bk /\ job[t].sweep.bk[s] = own[s]
  BY <1>2 DEF Held, InHand
<1>4. machine[s] = own[s]
  BY <1>3 DEF Held, InHand
<1> QED BY <1>1, <1>4 DEF Types, Settings

LEMMA RemovedHeld ==
  ASSUME Held, GivenBack, Removed, UNCHANGED <<present, own, machine, givenUp>>,
         \A o \in Owners : job'[o].pc \in {"idle", "err"}
  PROVE  Held' /\ GivenBack'
<1>1. \A o \in Owners : InHand(o)'
  BY DEF InHand, Sweeping
<1> QED BY <1>1 DEF Held, UserSettingsHeld, Recorded, GivenBack, Removed, Readable

LEMMA LeftHeld ==
  ASSUME Types, Held, job' = Abandoned, UNCHANGED <<platform, present, own, machine, file, saved, givenUp>>
  PROVE  Held'
<1>1. SUFFICES ASSUME NEW o \in Owners, job'[o] # job[o] PROVE InHand(o)'
  BY HeldWhereItWas
<1>2. CASE job'[o] = Idle
  BY <1>2 DEF InHand, Sweeping, Idle
<1>3. CASE o = "orphan" /\ job'[o].pc = "sweep" /\ \E t \in Tasks : Sweeping(t) /\ job'[o].sweep = job[t].sweep
  BY <1>3 DEF InHand, Sweeping, Readable, Held, Owners
<1> QED BY <1>1, <1>2, <1>3, WhatIsLeft

LEMMA ReplayHeld ==
  ASSUME Types, Held, UNCHANGED <<platform, present, own, machine, file, saved, givenUp>>,
         NEW t \in Tasks, NEW c, RestoreFromBackup(t, c)
  PROVE  Held'
<1>1. /\ job'[t].sweep.bk = saved
      /\ job'[t].pc = IF file = "none" THEN "ok" ELSE IF file = "torn" THEN "err" ELSE "apply"
      /\ \A o \in Owners \ {t} : job'[o] = job[o]
  BY Replays, TaskNames DEF OnlyMoves
<1>2. file = "none" => GivenBack'
  BY NothingTaken DEF Held, Readable, GivenBack
<1>3. InHand(t)'
  BY <1>1, <1>2 DEF InHand, Sweeping, Readable, Types
<1> QED BY <1>1, <1>3, HeldWhereItWas

(* A step of one task that leaves it with nothing in hand. *)
LEMMA EmptyHandedHeld ==
  ASSUME Held, NEW t \in Owners, OnlyMoves(t), job'[t].pc \in {"idle", "read", "err", "skip"},
         UNCHANGED <<platform, present, own, machine, file, saved, givenUp>>
  PROVE  Held'
<1>1. InHand(t)'
  BY DEF InHand, Sweeping
<1> QED BY <1>1, HeldWhereItWas DEF OnlyMoves

LEMMA HeldNext == Serial /\ Types /\ Control /\ Held /\ [Next]_vars => Held'
<1> SUFFICES ASSUME Serial, Types, Control, Held, [Next]_vars PROVE Held'
  OBVIOUS
<1> USE TaskNames DEF os, backup, app
<1>a. \A o \in Owners : InHand(o)
  BY DEF Held
<1>b. ASSUME NEW t \in Tasks, NEW cs, NEW pc, Finish(t, cs, pc),
             UNCHANGED <<platform, present, own, machine, file, saved, givenUp>>
      PROVE  Held'
  BY <1>b, Finishes, EmptyHandedHeld DEF Idle
<1>c. ASSUME NEW t \in Tasks, NEW cs, Finish(t, cs, "ok"), Removed, job[t].cmd # "enable",
             UNCHANGED <<present, own, machine, givenUp>>
      PROVE  Held'
  <2>1. job'[t] = Idle /\ job[t].pc = "ok" /\ OnlyMoves(t)
    BY <1>c, Finishes
  <2>2. GivenBack
    BY <1>a, <1>c, <2>1 DEF InHand
  <2>3. \A o \in Owners : job'[o].pc \in {"idle", "err"}
    BY <2>1, AtWorkAlone DEF OnlyMoves, Idle
  <2> QED BY <1>c, <2>2, <2>3, RemovedHeld
<1>d. ASSUME Quiet, UNCHANGED job PROVE \A o \in Owners : InHand(o)'
  BY <1>d, QuietIsIdle DEF InHand, Sweeping
<1>1. ASSUME NEW s \in Slots, Edit(s) PROVE Held'
  <2>1. PICK v \in Settings : /\ own' = [own EXCEPT ![s] = v]
                              /\ machine' = [machine EXCEPT ![s] = v]
    BY <1>1 DEF Edit
  <2>2. /\ file = "none" /\ file' = file /\ present' = present /\ s \in present
        /\ \A x \in present : machine[x] # "ours"
    BY <1>1 DEF Edit
  <2>3. \A x \in present \ givenUp' : machine'[x] = own'[x]
    <3> SUFFICES ASSUME NEW x \in present \ givenUp' PROVE machine'[x] = own'[x]
      OBVIOUS
    <3>1. CASE x = s
      BY <2>1, <3>1 DEF Types
    <3>2. CASE x # s
      <4>1. x \notin givenUp
        BY <1>1, <3>2 DEF Edit
      <4>2. machine[x] = own[x]
        BY <2>2, <4>1 DEF Held
      <4> QED BY <2>1, <3>2, <4>2 DEF Types
    <3> QED BY <3>1, <3>2
  <2>4. \A x \in present' \ givenUp' : machine'[x] = own'[x] /\ machine'[x] # "ours"
    <3>1. \A x \in Slots : own'[x] # "ours"
      BY <2>1 DEF Types, Settings
    <3> QED BY <2>2, <2>3, <3>1 DEF Types
  <2>5. UserSettingsHeld' /\ Recorded'
    BY <2>2, <2>4 DEF UserSettingsHeld, Recorded, Readable
  <2>6. \A o \in Owners : InHand(o)'
    BY <1>1, <1>d DEF Edit
  <2> QED BY <2>4, <2>5, <2>6 DEF Held
<1>2. ASSUME NEW s \in Slots, Vanish(s) PROVE Held'
  <2>1. /\ platform = "macos" /\ platform' = platform
        /\ present' \subseteq present /\ UNCHANGED <<own, machine, file, saved, givenUp>>
    BY <1>2 DEF Vanish
  <2>2. \A o \in Owners : InHand(o)'
    BY <1>2, <1>d DEF Vanish
  <2> QED BY <2>1, <2>2 DEF Held, UserSettingsHeld, Recorded, Readable
<1>3. CASE ChangeHelper \/ UNCHANGED vars
  BY <1>3, HeldWhereItWas DEF ChangeHelper, vars
<1>4. CASE Enable
  BY <1>4, Begins, EmptyHandedHeld DEF Enable
<1>5. CASE ReadBackup
  <2>1. UNCHANGED <<platform, present, own, machine, file, saved>>
    BY <1>5 DEF ReadBackup
  <2>2. /\ Readable => job'["command"].pc = "apply" /\ job'["command"].sweep.bk = saved
        /\ ~Readable => /\ job'["command"].pc = "truncate"
                        /\ DOMAIN job'["command"].sweep.bk \subseteq present
                        /\ \A s \in present \ givenUp' :
                             s \in DOMAIN job'["command"].sweep.bk
                             /\ job'["command"].sweep.bk[s] = machine[s]
        /\ givenUp \subseteq givenUp' /\ OnlyMoves("command")
    BY <1>5, Prepares
  <2>3. \A x \in present \ givenUp : ~Readable => machine[x] = own[x]
    BY NothingTaken DEF Held, GivenBack
  <2>4. InHand("command")'
    <3>1. CASE Readable
      BY <2>1, <2>2, <3>1 DEF InHand, Sweeping, Readable
    <3>2. CASE ~Readable
      BY <2>1, <2>2, <2>3, <3>2 DEF InHand, Sweeping, Readable
    <3> QED BY <3>1, <3>2
  <2> QED BY <2>1, <2>2, <2>4, HeldWhereItWas DEF OnlyMoves
<1>6. CASE Truncate \/ WriteBackup
  <2>1. /\ job["command"].pc \in {"truncate", "write"}
        /\ UNCHANGED <<platform, present, own, machine, givenUp>>
    BY <1>6 DEF Truncate, WriteBackup
  <2>2. /\ ~Readable
        /\ present \ givenUp \subseteq DOMAIN job["command"].sweep.bk
        /\ \A x \in DOMAIN job["command"].sweep.bk \ givenUp : job["command"].sweep.bk[x] = own[x]
    BY <1>a, <2>1 DEF InHand
  <2>3. \A o \in Owners \ {"command"} : job[o].pc = "idle"
    BY <2>1, AtWorkAlone
  <2>4. CASE Truncate
    <3>1. Goto("command", "write") /\ file' = "torn"
      BY <2>4 DEF Truncate
    <3>2. /\ job'["command"].pc = "write" /\ job'["command"].sweep = job["command"].sweep
          /\ OnlyMoves("command")
      BY <3>1, Goes
    <3>3. \A o \in Owners : InHand(o)'
      BY <2>1, <2>2, <2>3, <3>1, <3>2 DEF InHand, Sweeping, Readable, OnlyMoves
    <3> QED BY <2>1, <2>2, <3>1, <3>3 DEF Held, UserSettingsHeld, Recorded, Readable
  <2>5. CASE /\ file' = "whole" /\ saved' = job["command"].sweep.bk
             /\ Goto("command", "apply")
    <3>1. /\ job'["command"].pc = "apply" /\ job'["command"].sweep = job["command"].sweep
          /\ OnlyMoves("command")
      BY <2>5, Goes
    <3>2. \A o \in Owners : InHand(o)'
      BY <2>3, <2>5, <3>1 DEF InHand, Sweeping, Readable, OnlyMoves
    <3>3. Recorded'
      BY <2>1, <2>2, <2>5 DEF Recorded, Types
    <3>4. UserSettingsHeld'
      BY <2>1, <2>2, <2>5 DEF Held, UserSettingsHeld, Readable
    <3> QED BY <2>1, <3>2, <3>3, <3>4 DEF Held
  <2>6. CASE UNCHANGED backup /\ Goto("command", "err")
    BY <2>1, <2>6, Goes, EmptyHandedHeld
  <2> QED BY <1>6, <2>4, <2>5, <2>6 DEF WriteBackup
<1>7. CASE Disable
  <2>1. UNCHANGED <<platform, present, own, machine, file, saved, givenUp>>
    BY <1>7 DEF Disable
  <2>2. ~Readable => GivenBack'
    BY <2>1, NothingTaken, HeldWhereItWas DEF Held
  <2>3. InHand("command")'
    <3>1. CASE Readable
      BY <1>7, <2>1, <3>1, Disables DEF InHand, Sweeping, Readable
    <3>2. CASE ~Readable
      BY <1>7, <2>2, <3>2, Disables DEF InHand, Sweeping
    <3> QED BY <3>1, <3>2
  <2> QED BY <1>7, <2>1, <2>3, Disables, HeldWhereItWas DEF OnlyMoves
<1>8. CASE Restore
  BY <1>8, ReplayHeld DEF Restore
<1>9. CASE Update
  <2>1. CASE Releasable
    BY <1>9, <2>1, ReplayHeld DEF Update
  <2>2. CASE ~Releasable
    BY <1>9, <2>2, Begins, EmptyHandedHeld DEF Update
  <2> QED BY <2>1, <2>2
<1>10. ASSUME NEW t \in Tasks, StartSweep(t) PROVE Held'
  <2> DEFINE bk == job'[t].sweep.bk
  <2>1. /\ Readable /\ job[t].sweep.bk = saved
        /\ UNCHANGED <<platform, present, own, machine, file, saved>>
    BY <1>10, <1>a DEF StartSweep, InHand
  <2>2. /\ \/ job'[t].pc = "err"
           \/ /\ job'[t].pc = "sweep" /\ job'[t].sweep.left = DOMAIN bk
              /\ \A x \in DOMAIN bk : \/ x \in DOMAIN saved /\ bk[x] = saved[x]
                                      \/ platform = "windows" /\ DOMAIN saved = {}
              /\ job[t].cmd # "enable" => (DOMAIN saved \cap present) \ givenUp' \subseteq DOMAIN bk
              /\ job'[t].sweep.goal = IF job[t].cmd = "enable" THEN "enable" ELSE "restore"
        /\ job' \in [Owners -> Jobs]
        /\ givenUp \subseteq givenUp' /\ OnlyMoves(t)
    BY <1>10, <2>1, StartsSweep
  <2>3. platform = "windows" /\ DOMAIN saved = {} => Slots \subseteq givenUp'
    BY <2>1, <2>2 DEF Held, Recorded
  <2>4. DOMAIN bk \subseteq Slots
    BY <2>2, SnapshotFacts DEF Jobs, Sweeps
  <2>5. InHand(t)'
    <3>1. CASE job'[t].pc = "err"
      BY <3>1 DEF InHand, Sweeping
    <3>2. CASE job'[t].pc = "sweep"
      <4>1. \A x \in DOMAIN bk \ givenUp' : x \in DOMAIN saved /\ bk[x] = saved[x]
        BY <2>2, <2>3, <2>4, <3>2
      <4>2. job'[t].sweep.goal = "restore" => (DOMAIN saved \cap present) \ givenUp' \subseteq DOMAIN bk
        BY <2>2, <3>2
      <4> QED BY <2>1, <2>2, <3>2, <4>1, <4>2 DEF InHand, Sweeping, Readable
    <3> QED BY <2>2, <3>1, <3>2
  <2> QED BY <2>1, <2>2, <2>5, HeldWhereItWas DEF OnlyMoves
<1>11. ASSUME NEW t \in Tasks, Refuse(t) PROVE Held'
  BY <1>11, Goes, EmptyHandedHeld DEF Refuse
<1>12. ASSUME NEW t \in Owners, Write(t) PROVE Held'
  <2> DEFINE s == job[t].sweep
  <2>1. PICK x \in s.left \cap present :
          /\ machine' = [machine EXCEPT ![x] = IF s.goal = "enable" THEN "ours" ELSE s.bk[x]]
          /\ job'[t].sweep.left = s.left \ {x}
    BY <1>12, Writes
  <2>2. Same(t) /\ Sweeping(t) /\ job'[t].sweep.failed = s.failed /\ InHand(t)
    BY <1>12, <1>a, Writes DEF Same
  <2>3. x \in DOMAIN s.bk /\ x \in Slots
    BY <2>1 DEF Types, Jobs, Sweeps
  <2>4. Readable /\ (x \notin givenUp => x \in DOMAIN saved /\ s.bk[x] = saved[x])
    BY <2>2, <2>3 DEF InHand
  <2>5. /\ machine'[x] = (IF s.goal = "enable" THEN "ours" ELSE s.bk[x])
        /\ \A y \in Slots \ {x} : machine'[y] = machine[y]
    BY <2>1, <2>3 DEF Types
  <2>6. UNCHANGED <<platform, present, own, file, saved, givenUp>>
    BY <1>12 DEF Write
  <2>7. UserSettingsHeld' /\ Recorded'
    BY <2>4, <2>5, <2>6 DEF Held, UserSettingsHeld, Recorded, Readable, Types
  <2>8. \A y \in present' \ givenUp' : machine'[y] \in {own'[y], "ours"}
    BY <2>4, <2>5, <2>6 DEF Held, UserSettingsHeld, Types
  <2>9. \A o \in Owners \ {t} : InHand(o)'
    BY <2>2, AtWorkAlone DEF Same, OnlyMoves, InHand, Sweeping
  <2>10. ASSUME s.goal = "restore", NEW y \in DOMAIN s.bk \cap present
         PROVE  y \in s.left \ {x} \/ y \in s.failed \/ machine'[y] = s.bk[y]
    <3>1. y \in s.left \/ y \in s.failed \/ machine[y] = s.bk[y]
      BY <2>2, <2>10 DEF InHand
    <3> QED BY <2>5, <2>10, <3>1 DEF Types
  <2>11. InHand(t)'
    BY <2>1, <2>2, <2>6, <2>10 DEF InHand, Sweeping, Readable, Same
  <2> QED BY <2>7, <2>8, <2>9, <2>11 DEF Held
<1>13. ASSUME NEW t \in Owners, WriteFails(t) PROVE Held'
  <2>1. PICK x \in job[t].sweep.left :
          /\ job'[t].sweep.failed = job[t].sweep.failed \cup {x}
          /\ job'[t].sweep.left = IF FailFast(job[t].sweep) THEN {} ELSE job[t].sweep.left \ {x}
    BY <1>13, WritesFail
  <2>2. Same(t) /\ UNCHANGED <<platform, present, own, machine, file, saved, givenUp>>
    BY <1>13, WritesFail DEF WriteFails
  <2>3. job[t].sweep.goal = "restore" => ~FailFast(job[t].sweep)
    BY DEF FailFast
  <2>4. InHand(t)'
    BY <1>a, <2>1, <2>2, <2>3 DEF InHand, Sweeping, Readable, Same
  <2> QED BY <2>2, <2>4, HeldWhereItWas DEF Same, OnlyMoves
<1>14. ASSUME NEW t \in Owners, EndSweep(t) PROVE Held'
  <2>1. /\ Sweeping(t) /\ job[t].sweep.left = {} /\ OnlyMoves(t)
        /\ UNCHANGED <<platform, present, own, machine, file, saved>> /\ givenUp \subseteq givenUp'
    BY <1>14, EndsSweep DEF EndSweep
  <2>2. ASSUME t # "orphan", Succeeded(job[t].sweep), job[t].cmd # "enable" PROVE GivenBack'
    <3>1. job[t].sweep.goal = "restore"
      BY <2>1, <2>2 DEF Control, StageFits
    <3>2. givenUp' = givenUp \cup job[t].sweep.failed
      BY <1>14, <2>2, <3>1 DEF EndSweep
    <3> QED BY <2>1, <3>1, <3>2, SweepGivesBack DEF GivenBack
  <2>3. \/ job'[t].pc \in {"idle", "err"}
        \/ /\ t # "orphan" /\ Succeeded(job[t].sweep)
           /\ job'[t].pc = "ok" /\ job'[t].cmd = job[t].cmd
    BY <1>14, EndsSweep DEF Idle
  <2>4. InHand(t)'
    BY <2>2, <2>3 DEF InHand, Sweeping
  <2> QED BY <2>1, <2>4, HeldWhereItWas DEF OnlyMoves
<1>15. ASSUME NEW t \in Tasks, Timeout(t) PROVE Held'
  <2>1. UNCHANGED <<platform, present, own, machine, file, saved, givenUp>>
    BY <1>15 DEF Timeout
  <2>2. /\ Sweeping(t) /\ job'[t].pc = "err"
        /\ job'["orphan"].pc = "sweep" /\ job'["orphan"].sweep = job[t].sweep
        /\ \A o \in Tasks \ {t} : job'[o] = job[o]
    BY <1>15, TimesOut
  <2>3. InHand("orphan")'
    BY <1>a, <2>1, <2>2 DEF InHand, Sweeping, Readable
  <2>4. InHand(t)'
    BY <2>2 DEF InHand, Sweeping
  <2> QED BY <2>1, <2>2, <2>3, <2>4, HeldWhereItWas
<1>16. CASE EnableDone \/ CommandFails \/ LaunchRestoreFails
  BY <1>16, <1>b DEF EnableDone, CommandFails, LaunchRestoreFails
<1>17. CASE DisableDone
  BY <1>17, <1>c DEF DisableDone, Finish
<1>18. ASSUME NEW t \in Tasks, RestoreDone(t) PROVE Held'
  BY <1>18, <1>c DEF RestoreDone, Finish
<1>19. CASE InstallFails
  <2>1. PICK pc \in {"ok", "err", "skip"} : Finish("command", {"update"}, pc)
    BY <1>19 DEF InstallFails
  <2>2. CASE pc = "ok"
    BY <1>19, <1>c, <2>1, <2>2 DEF InstallFails, Finish
  <2>3. CASE pc # "ok"
    BY <1>19, <1>b, <2>1, <2>3 DEF InstallFails, Finish
  <2> QED BY <2>2, <2>3
<1>20. ASSUME NEW t \in Tasks, Exits(t) PROVE Held'
  <2>1. CASE job[t].pc = "ok"
    <3>1. GivenBack
      BY <1>20, <1>a, <2>1 DEF Exits, InHand
    <3>2. \A o \in Owners : job[o].pc # "sweep"
      BY <2>1, AtWorkAlone
    <3>3. \A o \in Owners : job'[o] = Idle \/ job'[o] = job["orphan"]
      BY <1>20, <3>2, WhatIsLeft DEF Exits, Leave, Sweeping
    <3>4. job["orphan"].pc \in {"idle", "err"}
      BY <2>1, AtWorkAlone
    <3>5. \A o \in Owners : job'[o].pc \in {"idle", "err"}
      BY <3>3, <3>4 DEF Idle
    <3> QED BY <1>20, <2>1, <3>1, <3>5, RemovedHeld DEF Exits
  <2>2. CASE job[t].pc # "ok"
    BY <1>20, <2>2, LeftHeld DEF Exits, Leave
  <2> QED BY <2>1, <2>2
<1>21. CASE Launch
  <2>1. CASE Releasable
    BY <1>21, <2>1, ReplayHeld DEF Launch
  <2>2. CASE ~Releasable
    BY <1>21, <2>2, HeldWhereItWas DEF Launch
  <2> QED BY <2>1, <2>2
<1>22. CASE Quit
  <2>1. CASE Releasable
    BY <1>22, <2>1, ReplayHeld DEF Quit
  <2>2. CASE ~Releasable
    BY <1>22, <2>2, LeftHeld DEF Quit, Leave
  <2> QED BY <2>1, <2>2
<1>23. CASE Crash
  BY <1>23, LeftHeld DEF Crash, Leave
<1>24. CASE Restart
  <2>1. UNCHANGED <<platform, present, own, machine, file, saved, givenUp>>
    BY <1>24 DEF Restart
  <2>2. CASE job' = Abandoned
    BY <2>1, <2>2, LeftHeld
  <2>3. CASE /\ Readable /\ job'["main"].pc = "apply" /\ job'["main"].sweep.bk = saved
             /\ \A o \in Owners \ {"main"} : job'[o] = Idle
    <3>1. \A o \in Owners : InHand(o)'
      BY <2>1, <2>3 DEF InHand, Sweeping, Readable, Idle
    <3> QED BY <2>1, <3>1, HeldWhereItWas
  <2> QED BY <1>24, <2>2, <2>3, SignsIn
<1> QED
  BY <1>1, <1>2, <1>3, <1>4, <1>5, <1>6, <1>7, <1>8, <1>9, <1>10, <1>11, <1>12, <1>13, <1>14, <1>15,
     <1>16, <1>17, <1>18, <1>19, <1>20, <1>21, <1>22, <1>23, <1>24 DEF Next

------------------------------------------------------------------------------
(* What a session without a failed step gives back. *)

(* How a task comes to skip, to sweep or to fail. *)
Cause(o) ==
  \/ job'[o] = job[o]
  \/ job'[o].pc \in {"idle", "read", "truncate", "write", "apply", "ok"}
  \/ job'[o].pc = "skip" /\ Update /\ ~Releasable
  \/ job'[o].pc = "sweep" /\ \/ o \in Tasks /\ StartSweep(o)
                             \/ Write(o) \/ WriteFails(o)
                             \/ \E t \in Tasks : Sweeping(t) /\ job'[o].sweep = job[t].sweep
  \/ job'[o].pc = "err" /\ \/ failures' = failures + 1
                           \/ o \in Tasks /\ StartSweep(o)
                           \/ file = "torn" /\ UNCHANGED <<machine, present>>
                           \/ EndSweep(o) /\ ~Succeeded(job[o].sweep)

LEMMA StagesHaveCauses ==
  ASSUME Types, [Next]_vars, NEW o \in Owners
  PROVE  Cause(o)
<1> USE TaskNames DEF os, backup, app
<1>a. ASSUME NEW t \in Owners, OnlyMoves(t), Cause(t) PROVE Cause(o)
  BY <1>a DEF OnlyMoves, Cause
<1>b. ASSUME NEW t \in Owners, OnlyMoves(t), job'[t].pc \in {"idle", "read", "truncate", "write", "apply", "ok"}
      PROVE  Cause(o)
  BY <1>a, <1>b DEF Cause
<1>c. ASSUME UNCHANGED job PROVE Cause(o)
  BY <1>c DEF Cause
<1>d. ASSUME NEW t \in Tasks, NEW cs, NEW pc, Finish(t, cs, pc) PROVE Cause(o)
  BY <1>b, <1>d, Finishes DEF Idle
<1>e. ASSUME NEW t \in Tasks, NEW c, RestoreFromBackup(t, c), UNCHANGED <<machine, present>>
      PROVE  Cause(o)
  <2>1. /\ OnlyMoves(t)
        /\ job'[t].pc = IF file = "none" THEN "ok" ELSE IF file = "torn" THEN "err" ELSE "apply"
    BY <1>e, Replays
  <2>2. CASE file = "torn"
    BY <1>a, <1>e, <2>1, <2>2 DEF Cause
  <2>3. CASE file # "torn"
    BY <1>b, <2>1, <2>3
  <2> QED BY <2>2, <2>3
<1>f. ASSUME job' = Abandoned PROVE Cause(o)
  BY <1>f, WhatIsLeft DEF Cause, Idle
<1>g. ASSUME NEW t \in Tasks, NEW pc \in {"write", "apply", "err"}, Goto(t, pc),
             pc = "err" => failures' = failures + 1
      PROVE  Cause(o)
  <2>1. job'[t].pc = pc /\ OnlyMoves(t)
    BY <1>g, Goes
  <2>2. CASE pc = "err"
    BY <1>a, <1>g, <2>1, <2>2 DEF Cause
  <2>3. CASE pc # "err"
    BY <1>b, <2>1, <2>3
  <2> QED BY <2>2, <2>3
<1>1. ASSUME NEW s \in Slots, Edit(s) \/ Vanish(s) PROVE Cause(o)
  BY <1>1, <1>c DEF Edit, Vanish
<1>2. CASE ChangeHelper \/ UNCHANGED vars
  BY <1>2, <1>c DEF ChangeHelper, vars
<1>3. CASE Enable
  BY <1>3, <1>b, Begins DEF Enable
<1>4. CASE ReadBackup
  BY <1>4, <1>b, Prepares
<1>5. CASE Truncate \/ WriteBackup
  BY <1>5, <1>g DEF Truncate, WriteBackup
<1>6. CASE Disable
  BY <1>6, <1>b, Disables
<1>7. CASE Restore
  BY <1>7, <1>e DEF Restore
<1>8. CASE Update
  <2>1. CASE Releasable
    BY <1>8, <1>e, <2>1 DEF Update
  <2>2. CASE ~Releasable
    <3>1. job'["command"].pc = "skip" /\ OnlyMoves("command")
      BY <1>8, <2>2, Begins DEF Update
    <3> QED BY <1>8, <1>a, <2>2, <3>1 DEF Cause
  <2> QED BY <2>1, <2>2
<1>9. ASSUME NEW t \in Tasks, StartSweep(t) PROVE Cause(o)
  <2>1. OnlyMoves(t) /\ job'[t].pc \in {"err", "sweep"}
    BY <1>9, StartsSweep
  <2> QED BY <1>9, <1>a, <2>1 DEF Cause
<1>10. ASSUME NEW t \in Tasks, Refuse(t) PROVE Cause(o)
  BY <1>10, <1>g DEF Refuse
<1>11. ASSUME NEW t \in Owners, Write(t) \/ WriteFails(t) PROVE Cause(o)
  <2>1. Same(t)
    BY <1>11, Writes, WritesFail
  <2> QED BY <1>11, <1>a, <2>1 DEF Cause, Same
<1>12. ASSUME NEW t \in Owners, EndSweep(t) PROVE Cause(o)
  <2>1. OnlyMoves(t)
    BY <1>12, EndsSweep
  <2>2. job'[t].pc \in {"idle", "ok"} \/ (job'[t].pc = "err" /\ ~Succeeded(job[t].sweep))
    BY <1>12, EndsSweep DEF Idle
  <2> QED BY <1>12, <1>a, <2>1, <2>2 DEF Cause
<1>13. ASSUME NEW t \in Tasks, Timeout(t) PROVE Cause(o)
  BY <1>13, TimesOut DEF Cause
<1>14. CASE EnableDone \/ DisableDone \/ CommandFails \/ LaunchRestoreFails \/ InstallFails
  BY <1>14, <1>d DEF EnableDone, DisableDone, CommandFails, LaunchRestoreFails, InstallFails
<1>15. ASSUME NEW t \in Tasks, RestoreDone(t) PROVE Cause(o)
  BY <1>15, <1>d DEF RestoreDone
<1>16. ASSUME NEW t \in Tasks, Exits(t) PROVE Cause(o)
  BY <1>16, <1>f DEF Exits, Leave
<1>17. CASE Launch
  BY <1>17, <1>c, <1>e DEF Launch
<1>18. CASE Quit
  BY <1>18, <1>e, <1>f DEF Quit, Leave
<1>19. CASE Crash
  BY <1>19, <1>f DEF Crash, Leave
<1>20. CASE Restart
  BY <1>20, <1>f, SignsIn DEF Cause, Idle
<1> QED
  BY <1>1, <1>2, <1>3, <1>4, <1>5, <1>6, <1>7, <1>8, <1>9, <1>10, <1>11, <1>12, <1>13, <1>14,
     <1>15, <1>16, <1>17, <1>18, <1>19, <1>20 DEF Next

LEMMA SkipNext == Serial /\ Types /\ Control /\ SkipIsRight /\ [Next]_vars => SkipIsRight'
<1> SUFFICES ASSUME Serial, Types, Control, SkipIsRight, [Next]_vars, job'["command"].pc = "skip"
             PROVE  file' = "none" \/ ~Silent'
  BY DEF SkipIsRight
<1> USE TaskNames DEF os, backup, app, Silent
<1>1. CASE Update /\ ~Releasable
  BY <1>1 DEF Update, Releasable
<1>2. CASE job'["command"] = job["command"]
  <2>1. /\ job["command"].pc = "skip" /\ ~Quiet
        /\ \A o \in Owners \ {"command"} : job[o].pc = "idle"
    BY <1>2, AtWorkAlone DEF Control, StageFits, Busy, Quiet
  <2>2. ASSUME NEW t \in Tasks, NEW cs, NEW pc, Finish(t, cs, pc) PROVE t # "command"
    BY <1>2, <2>1, <2>2, Finishes DEF Idle
  <2>3. ASSUME NEW t \in Tasks, Exits(t) PROVE FALSE
    BY <1>2, <2>1, <2>3 DEF Exits, Leave, Abandoned, Idle
  <2>4. ASSUME DisableDone \/ InstallFails \/ RestoreDone("command") \/ RestoreDone("main") PROVE FALSE
    BY <2>1, <2>2, <2>4 DEF DisableDone, InstallFails, RestoreDone, Finish
  <2>5. file' = file /\ helper' = helper /\ platform' = platform
    BY <2>1, <2>3, <2>4
    DEF Next, vars, Edit, Vanish, ChangeHelper, Enable, ReadBackup, Truncate, WriteBackup, Disable,
        Restore, Update, StartSweep, Refuse, Write, WriteFails, EndSweep, Timeout, EnableDone,
        CommandFails, LaunchRestoreFails, Launch, Quit, Crash, Restart
  <2> QED BY <2>1, <2>5 DEF SkipIsRight
<1> QED BY <1>1, <1>2, StagesHaveCauses DEF Cause

(* The platform is the platform, and what has failed has failed. *)
LEMMA CountsGrow ==
  ASSUME Types, [Next]_vars
  PROVE  platform' = platform /\ failures' >= failures /\ crashes' >= crashes
<1> USE DEF os, app, Types
<1>1. ASSUME NEW s \in Slots, Edit(s) \/ Vanish(s)
      PROVE  UNCHANGED <<platform, failures, crashes>>
  BY <1>1 DEF Edit, Vanish
<1>2. ASSUME \/ ChangeHelper \/ Enable \/ Truncate \/ Disable \/ Restore \/ Update
             \/ EnableDone \/ DisableDone \/ CommandFails \/ LaunchRestoreFails \/ Launch \/ Quit
      PROVE  UNCHANGED <<platform, failures, crashes>>
  BY <1>2 DEF ChangeHelper, Enable, Truncate, Disable, Restore, Update, EnableDone, DisableDone,
               CommandFails, LaunchRestoreFails, Launch, Quit
<1>3. ASSUME NEW t \in Tasks, RestoreDone(t) \/ Exits(t)
      PROVE  UNCHANGED <<platform, failures, crashes>>
  BY <1>3 DEF RestoreDone, Exits
<1>4. ASSUME NEW t \in Owners, Write(t) \/ EndSweep(t)
      PROVE  UNCHANGED <<platform, failures, crashes>>
  BY <1>4 DEF Write, EndSweep
<1>5. ASSUME NEW t \in Owners, Timeout(t) \/ Refuse(t) \/ WriteFails(t)
      PROVE  UNCHANGED <<platform, crashes>> /\ failures' = failures + 1
  BY <1>5 DEF Timeout, Refuse, WriteFails
<1>6. ASSUME WriteBackup \/ InstallFails
      PROVE  UNCHANGED <<platform, crashes>> /\ failures' \in {failures, failures + 1}
  BY <1>6 DEF WriteBackup, InstallFails
<1>7. ASSUME Crash \/ Restart
      PROVE  UNCHANGED <<platform, failures>> /\ crashes' = crashes + 1
  BY <1>7 DEF Crash, Restart
<1>8. ASSUME UNCHANGED vars PROVE UNCHANGED <<platform, failures, crashes>>
  BY <1>8 DEF vars
<1>9. ASSUME NEW t \in Tasks, StartSweep(t)
      PROVE  UNCHANGED <<platform, crashes>> /\ failures' \in {failures, failures + 1}
  BY <1>9, StartsSweep DEF StartSweep
<1>10. ASSUME ReadBackup
       PROVE  UNCHANGED <<platform, crashes>> /\ failures' \in {failures, failures + 1}
  BY <1>10, Prepares DEF ReadBackup
<1> QED BY <1>1, <1>2, <1>3, <1>4, <1>5, <1>6, <1>7, <1>8, <1>9, <1>10 DEF Next, Owners

(* A sweep under way is one that was, perhaps another's, or one that begins. *)
LEMMA SweepsComeFrom ==
  ASSUME Types, [Next]_vars, NEW o \in Owners, Sweeping(o)'
  PROVE  \/ \E t \in Owners : /\ Sweeping(t)
                              /\ job'[o].sweep.goal = job[t].sweep.goal
                              /\ failures' = failures => job'[o].sweep.failed = job[t].sweep.failed
         \/ o \in Tasks /\ StartSweep(o) /\ job'[o].sweep.failed = {}
<1> USE TaskNames
<1>1. CASE job'[o] = job[o]
  BY <1>1 DEF Sweeping
<1>2. CASE o \in Tasks /\ StartSweep(o)
  BY <1>2, StartsSweep DEF Sweeping
<1>3. CASE Write(o)
  BY <1>3, Writes DEF Same
<1>4. CASE WriteFails(o)
  <2>1. failures' # failures
    BY <1>4 DEF WriteFails, Types
  <2> QED BY <1>4, <2>1, WritesFail DEF Same
<1>5. CASE \E t \in Tasks : Sweeping(t) /\ job'[o].sweep = job[t].sweep
  BY <1>5
<1> QED BY <1>1, <1>2, <1>3, <1>4, <1>5, StagesHaveCauses DEF Cause, Sweeping

(* The entry goes when a restore went through, or with a restart. *)
LEMMA ArmedUntil ==
  ASSUME Types, [Next]_vars, armed, ~armed'
  PROVE  \/ crashes' = crashes + 1
         \/ \E t \in Owners : EndSweep(t) /\ job[t].sweep.goal = "restore" /\ Succeeded(job[t].sweep)
<1> USE DEF os, backup, app
<1>1. ASSUME NEW s \in Slots, Edit(s) \/ Vanish(s) PROVE FALSE
  BY <1>1 DEF Edit, Vanish
<1>2. ASSUME \/ ChangeHelper \/ Enable \/ ReadBackup \/ Truncate \/ WriteBackup \/ Disable \/ Restore
             \/ Update \/ EnableDone \/ DisableDone \/ CommandFails \/ LaunchRestoreFails
             \/ InstallFails \/ Launch \/ Quit \/ Crash \/ UNCHANGED vars
      PROVE  FALSE
  BY <1>2
  DEF ChangeHelper, Enable, ReadBackup, Truncate, WriteBackup, Disable, Restore, Update, EnableDone,
      DisableDone, CommandFails, LaunchRestoreFails, InstallFails, Launch, Quit, Crash, vars
<1>3. ASSUME NEW t \in Tasks, Refuse(t) \/ Timeout(t) \/ RestoreDone(t) \/ Exits(t) PROVE FALSE
  BY <1>3 DEF Refuse, Timeout, RestoreDone, Exits
<1>4. ASSUME NEW t \in Tasks, StartSweep(t) PROVE FALSE
  BY <1>4 DEF StartSweep
<1>5. ASSUME NEW t \in Owners, Write(t) \/ WriteFails(t) PROVE FALSE
  BY <1>5 DEF Write, WriteFails
<1>6. ASSUME NEW t \in Owners, EndSweep(t)
      PROVE  job[t].sweep.goal = "restore" /\ Succeeded(job[t].sweep)
  BY <1>6 DEF EndSweep, Disarms
<1>7. ASSUME Restart PROVE crashes' = crashes + 1
  BY <1>7 DEF Restart
<1> QED BY <1>1, <1>2, <1>3, <1>4, <1>5, <1>6, <1>7 DEF Next

LEMMA TakingNext ==
  Serial /\ Types /\ Control /\ TakingIsArmed /\ [Next]_vars => TakingIsArmed'
<1> SUFFICES ASSUME Serial, Types, Control, TakingIsArmed, [Next]_vars,
                    platform' = "windows", crashes' = 0,
                    NEW o \in Owners, Sweeping(o)', job'[o].sweep.goal = "enable"
             PROVE  armed'
  BY DEF TakingIsArmed, Sweeping
<1>1. platform = "windows" /\ crashes = 0
  BY CountsGrow DEF Types
<1>2. CASE \E t \in Owners : Sweeping(t) /\ job'[o].sweep.goal = job[t].sweep.goal
  <2>1. PICK t \in Owners : Sweeping(t) /\ job'[o].sweep.goal = job[t].sweep.goal
    BY <1>2
  <2>2. armed /\ job[t].sweep.goal = "enable"
    BY <1>1, <2>1 DEF TakingIsArmed
  <2>3. ASSUME NEW u \in Owners, EndSweep(u), job[u].sweep.goal = "restore" PROVE FALSE
    <3>1. job[u].pc = "sweep" /\ u # t
      BY <2>2, <2>3 DEF EndSweep
    <3> QED BY <2>1, <3>1, AtWorkAlone DEF Sweeping
  <2> QED BY <1>1, <2>2, <2>3, ArmedUntil
<1>3. CASE o \in Tasks /\ StartSweep(o)
  <2>1. job'[o].pc = "sweep" /\ job'[o].sweep.goal = "enable"
    BY DEF Sweeping
  <2> QED BY <1>1, <1>3, <2>1, StartsSweep
<1> QED BY <1>2, <1>3, SweepsComeFrom

(* A setting becomes ours by an enabling sweep alone, while a backup holds. *)
LEMMA OursComesFrom ==
  ASSUME Types, Held, [Next]_vars, givenUp = {}, NEW x \in Slots, machine'[x] = "ours"
  PROVE  \/ machine[x] = "ours"
         \/ \E t \in Owners : Sweeping(t) /\ job[t].sweep.goal = "enable"
<1> USE DEF os, backup, app
<1>1. ASSUME NEW s \in Slots, Edit(s) PROVE machine[x] = "ours"
  BY <1>1 DEF Edit, Settings, Types
<1>2. ASSUME NEW t \in Owners, Write(t)
      PROVE  machine[x] = "ours" \/ (Sweeping(t) /\ job[t].sweep.goal = "enable")
  <2>1. PICK y \in Foremost(job[t].sweep.left) \cap present :
          machine' = [machine EXCEPT ![y] = IF job[t].sweep.goal = "enable" THEN "ours"
                                            ELSE job[t].sweep.bk[y]]
    BY <1>2 DEF Write
  <2>2. Sweeping(t) /\ InHand(t)
    BY <1>2 DEF Write, Sweeping, Held
  <2>3. y \in Slots /\ y \in DOMAIN job[t].sweep.bk
    BY <2>1 DEF Foremost, Types, Jobs, Sweeps
  <2>4. job[t].sweep.bk[y] = own[y]
    BY <2>2, <2>3 DEF InHand, Held, UserSettingsHeld
  <2> QED BY <2>1, <2>2, <2>3, <2>4 DEF Types, Settings
<1>3. ASSUME NEW s \in Slots, Vanish(s) PROVE machine' = machine
  BY <1>3 DEF Vanish
<1>4. ASSUME \/ ChangeHelper \/ Enable \/ ReadBackup \/ Truncate \/ WriteBackup \/ Disable \/ Restore
             \/ Update \/ EnableDone \/ DisableDone \/ CommandFails \/ LaunchRestoreFails
             \/ InstallFails \/ Launch \/ Quit \/ Crash \/ Restart \/ UNCHANGED vars
      PROVE  machine' = machine
  BY <1>4
  DEF ChangeHelper, Enable, ReadBackup, Truncate, WriteBackup, Disable, Restore, Update, EnableDone,
      DisableDone, CommandFails, LaunchRestoreFails, InstallFails, Launch, Quit, Crash, Restart, vars
<1>5. ASSUME NEW t \in Tasks, \/ StartSweep(t) \/ Refuse(t) \/ Timeout(t) \/ RestoreDone(t) \/ Exits(t)
      PROVE  machine' = machine
  BY <1>5 DEF StartSweep, Refuse, Timeout, RestoreDone, Exits
<1>6. ASSUME NEW t \in Owners, WriteFails(t) \/ EndSweep(t) PROVE machine' = machine
  BY <1>6 DEF WriteFails, EndSweep
<1> QED BY <1>1, <1>2, <1>3, <1>4, <1>5, <1>6 DEF Next

LEMMA SignInNext ==
  /\ Serial /\ Types /\ Control /\ Held /\ Flawless /\ TakingIsArmed /\ SignInWillRestore
  /\ Types' /\ [Next]_vars
  => SignInWillRestore'
<1> SUFFICES ASSUME Serial, Types, Control, Held, Flawless, TakingIsArmed, SignInWillRestore, Types',
                    [Next]_vars, platform' = "windows", failures' = 0, crashes' = 0,
                    NEW x \in Slots, machine'[x] = "ours"
             PROVE  armed'
  BY DEF SignInWillRestore
<1>1. platform = "windows" /\ failures = 0 /\ crashes = 0
  BY CountsGrow DEF Types
<1>2. givenUp = {} /\ \A o \in Owners : Sweeping(o) => job[o].sweep.failed = {}
  BY <1>1 DEF Flawless
<1>3. armed
  BY <1>1, <1>2, OursComesFrom DEF SignInWillRestore, TakingIsArmed
<1>4. ASSUME NEW t \in Owners, EndSweep(t), job[t].sweep.goal = "restore" PROVE FALSE
  <2>1. Sweeping(t) /\ job[t].sweep.left = {} /\ machine' = machine
    BY <1>4 DEF EndSweep, Sweeping
  <2>2. x \in present \ givenUp /\ x \notin job[t].sweep.failed
    BY <1>1, <1>2, <2>1 DEF Types
  <2> QED BY <1>4, <2>1, <2>2, SweepGivesBack
<1> QED BY <1>1, <1>3, <1>4, ArmedUntil

(* Unless a step fails, an error is what it was, or found nothing to replay, *)
(* or a sweep that reported its failure.                                     *)
LEMMA ErrorsComeFrom ==
  ASSUME Types, Held, Control, Control', [Next]_vars, failures' = failures, NEW o \in Owners,
         job'[o].pc = "err", job'[o].cmd # "enable"
  PROVE  \/ job[o].pc = "err" /\ job[o].cmd # "enable"
         \/ GivenBack /\ UNCHANGED <<machine, present>>
         \/ EndSweep(o) /\ ~Succeeded(job[o].sweep)
<1> USE TaskNames
<1>1. CASE job'[o] = job[o]
  BY <1>1
<1>2. CASE o \in Tasks /\ StartSweep(o)
  <2>1. /\ job[o].sweep.bk = saved /\ UNCHANGED <<machine, present>>
    BY <1>2 DEF StartSweep, Held, InHand, os
  <2>2. DOMAIN saved \cap present = {}
    BY <1>2, <2>1, StartsSweep
  <2> QED BY <2>1, <2>2 DEF Held, UserSettingsHeld, GivenBack
<1>3. CASE file = "torn" /\ UNCHANGED <<machine, present>>
  BY <1>3, NothingTaken DEF Held, Readable
<1>4. failures' # failures + 1
  BY DEF Types
<1> QED BY <1>1, <1>2, <1>3, <1>4, StagesHaveCauses DEF Cause

(* A session that ended well was quit, or left by its last task. *)
LEMMA EndsComeFrom ==
  ASSUME Serial, Types, Control, [Next]_vars, phase' = "off", lastExit' = "quit"
  PROVE  /\ helper' = helper
         /\ \/ phase = "off" /\ lastExit = "quit"
            \/ \E t \in Tasks : /\ job[t].cmd \in {"quit", "update"} /\ job[t].pc \in {"ok", "err", "skip"}
                                /\ machine' = machine /\ present' = present
            \/ Quiet /\ ~Releasable /\ machine' = machine /\ present' = present
<1> USE DEF os, backup, app
<1>1. ASSUME NEW s \in Slots, Edit(s) \/ Vanish(s)
      PROVE  helper' = helper /\ phase = "off" /\ lastExit = "quit"
  BY <1>1 DEF Edit, Vanish
<1>2. ASSUME \/ Enable \/ ReadBackup \/ Truncate \/ WriteBackup \/ Disable \/ Restore \/ Update
             \/ EnableDone \/ DisableDone \/ CommandFails \/ LaunchRestoreFails \/ InstallFails
             \/ UNCHANGED vars
      PROVE  helper' = helper /\ phase = "off" /\ lastExit = "quit"
  BY <1>2
  DEF Enable, ReadBackup, Truncate, WriteBackup, Disable, Restore, Update, EnableDone, DisableDone,
      CommandFails, LaunchRestoreFails, InstallFails, vars
<1>3. ASSUME NEW t \in Tasks, StartSweep(t) \/ Refuse(t) \/ Timeout(t) \/ RestoreDone(t)
      PROVE  helper' = helper /\ phase = "off" /\ lastExit = "quit"
  BY <1>3 DEF StartSweep, Refuse, Timeout, RestoreDone
<1>4. ASSUME NEW t \in Owners, Write(t) \/ WriteFails(t) \/ EndSweep(t)
      PROVE  helper' = helper /\ phase = "off" /\ lastExit = "quit"
  BY <1>4 DEF Write, WriteFails, EndSweep
<1>5. ASSUME ChangeHelper \/ Launch \/ Crash \/ Restart PROVE FALSE
  BY <1>5 DEF ChangeHelper, Launch, Crash, Restart, Leave
<1>6. ASSUME NEW t \in Tasks, Exits(t)
      PROVE  /\ job[t].cmd \in {"quit", "update"} /\ job[t].pc \in {"ok", "err", "skip"}
             /\ helper' = helper /\ machine' = machine /\ present' = present
  BY <1>6 DEF Exits, Leave, Control, StageFits, CommandsOf, Tasks, Owners
<1>7. ASSUME Quit
      PROVE  Quiet /\ ~Releasable /\ helper' = helper /\ machine' = machine /\ present' = present
  <2>1. CASE Releasable
    BY <1>7, <2>1 DEF Quit
  <2>2. CASE ~Releasable
    BY <1>7, <2>2 DEF Quit, Free
  <2> QED BY <2>1, <2>2
<1> QED BY <1>1, <1>2, <1>3, <1>4, <1>5, <1>6, <1>7 DEF Next

(* What is given back stays so until a sweep takes again. *)
LEMMA GivenBackStays ==
  ASSUME Types, Types', Held, [Next]_vars, givenUp = {}, givenUp' = {}, GivenBack,
         \A o \in Owners : Sweeping(o) => job[o].sweep.goal # "enable"
  PROVE  GivenBack'
<1>1. ASSUME NEW s \in Slots, s \in present', machine'[s] = "ours", s \in present PROVE FALSE
  BY <1>1, OursComesFrom DEF GivenBack
<1>2. present' \subseteq present
  BY DEF Next, vars, os, Edit, Vanish, ChangeHelper, Enable, ReadBackup, Truncate, WriteBackup, Disable,
      Restore, Update, StartSweep, Refuse, Write, WriteFails, EndSweep, Timeout, EnableDone,
      DisableDone, RestoreDone, CommandFails, LaunchRestoreFails, InstallFails, Exits, Launch, Quit,
      Crash, Restart
<1> QED BY <1>1, <1>2 DEF GivenBack, Types

LEMMA InitFlawless == Init => Flawless /\ SkipIsRight /\ TakingIsArmed /\ SignInWillRestore
BY DEF Init, Flawless, SkipIsRight, TakingIsArmed, SignInWillRestore, Sweeping, Idle, Owners, Settings

LEMMA FlawlessNext ==
  /\ Serial /\ Types /\ Control /\ Held /\ Flawless /\ SkipIsRight
  /\ Types' /\ Control' /\ [Next]_vars
  => Flawless'
<1> SUFFICES ASSUME Serial, Types, Control, Held, Flawless, SkipIsRight, Types', Control', [Next]_vars,
                    failures' = 0
             PROVE  Flawless'
  BY DEF Flawless
<1>1. failures = 0
  BY CountsGrow DEF Types
<1>2. /\ givenUp = {}
      /\ \A o \in Owners : Sweeping(o) => job[o].sweep.failed = {}
      /\ \A o \in Owners : job[o].pc = "err" /\ job[o].cmd # "enable" => GivenBack
      /\ phase = "off" /\ lastExit = "quit" => ~Busy("orphan")
      /\ phase = "off" /\ lastExit = "quit" /\ Silent => GivenBack
  BY <1>1 DEF Flawless
<1>3. \A o \in Owners : Sweeping(o)' => job'[o].sweep.failed = {}
  BY <1>1, <1>2, SweepsComeFrom
<1>4. givenUp' = {}
  <2>1. ASSUME NEW t \in Owners, EndSweep(t) PROVE givenUp' = {}
    BY <1>2, <2>1 DEF EndSweep, Sweeping
  <2>2. ASSUME NEW s \in Slots, Edit(s) \/ Vanish(s) PROVE givenUp' \subseteq givenUp
    BY <2>2 DEF Edit, Vanish
  <2>3. ASSUME \/ ChangeHelper \/ Enable \/ Truncate \/ WriteBackup \/ Disable \/ Restore
               \/ Update \/ EnableDone \/ DisableDone \/ CommandFails \/ LaunchRestoreFails
               \/ InstallFails \/ Launch \/ Quit \/ Crash \/ Restart \/ UNCHANGED vars
        PROVE  givenUp' = givenUp
    BY <2>3
    DEF ChangeHelper, Enable, Truncate, WriteBackup, Disable, Restore, Update, EnableDone,
        DisableDone, CommandFails, LaunchRestoreFails, InstallFails, Launch, Quit, Crash, Restart, vars
  <2>4. ASSUME NEW t \in Tasks, Refuse(t) \/ Timeout(t) \/ RestoreDone(t) \/ Exits(t)
        PROVE  givenUp' = givenUp
    BY <2>4 DEF Refuse, Timeout, RestoreDone, Exits
  <2>5. ASSUME NEW t \in Owners, Write(t) \/ WriteFails(t) PROVE givenUp' = givenUp
    BY <2>5 DEF Write, WriteFails
  <2>6. ASSUME NEW t \in Tasks, StartSweep(t) PROVE givenUp' = givenUp
    BY <1>1, <2>6, StartsSweep
  <2>7. ASSUME ReadBackup PROVE givenUp' = givenUp
    BY <1>1, <2>7, Prepares
  <2> QED BY <1>2, <2>1, <2>2, <2>3, <2>4, <2>5, <2>6, <2>7 DEF Next
<1>5. ASSUME GivenBack, UNCHANGED <<machine, present>> PROVE GivenBack'
  BY <1>2, <1>4, <1>5 DEF GivenBack
<1>6. ASSUME NEW t \in Tasks, job[t].pc \in {"ok", "err", "skip"}
      PROVE  \A o \in Owners : ~Sweeping(o)
  BY <1>1, <1>6 DEF Control, StageFits, Alone, Busy, Sweeping, Owners, Tasks
<1>7. ASSUME NEW o \in Owners, job'[o].pc = "err", job'[o].cmd # "enable" PROVE GivenBack'
  <2>1. CASE job[o].pc = "err" /\ job[o].cmd # "enable"
    <3>1. o \in Tasks
      BY <2>1 DEF Control, StageFits, CommandsOf, Busy, Sweeping, Owners, Tasks
    <3>2. \A u \in Owners : ~Sweeping(u)
      BY <1>6, <2>1, <3>1
    <3> QED BY <1>2, <1>4, <2>1, <3>2, GivenBackStays
  <2>2. CASE EndSweep(o) /\ ~Succeeded(job[o].sweep)
    <3>1. job[o].sweep.failed = {}
      BY <1>2, <2>2 DEF EndSweep, Sweeping
    <3> QED BY <2>2, <3>1 DEF Succeeded
  <2> QED BY <1>1, <1>5, <1>7, <2>1, <2>2, ErrorsComeFrom
<1>8. ASSUME phase = "off", lastExit = "quit" PROVE \A o \in Owners : ~Sweeping(o)
  BY <1>2, <1>8 DEF Control, StageFits, Busy, Sweeping, Owners
<1>9. ASSUME Quiet PROVE \A o \in Owners : ~Sweeping(o)
  BY <1>9, QuietIsIdle DEF Sweeping
<1>10. ASSUME phase' = "off", lastExit' = "quit" PROVE ~Busy("orphan")'
  <2>1. \A o \in Owners : ~Sweeping(o)
    BY <1>6, <1>8, <1>9, <1>10, EndsComeFrom
  <2>2. ~Sweeping("orphan")'
    BY <2>1, SweepsComeFrom DEF Owners, Tasks
  <2> QED BY <2>2 DEF Control, StageFits, CommandsOf, Busy, Sweeping, Owners, Tasks
<1>11. ASSUME phase' = "off", lastExit' = "quit", Silent' PROVE GivenBack'
  <2>1. Silent
    BY <1>11, EndsComeFrom, CountsGrow DEF Silent
  <2>2. ASSUME file = "none" PROVE GivenBack
    BY <2>2, NothingTaken DEF Held, Readable
  <2>3. CASE phase = "off" /\ lastExit = "quit"
    BY <1>2, <1>4, <1>8, <2>1, <2>3, GivenBackStays
  <2>4. CASE Quiet /\ ~Releasable /\ UNCHANGED <<machine, present>>
    BY <1>5, <2>1, <2>2, <2>4 DEF Releasable
  <2>5. ASSUME NEW t \in Tasks, job[t].cmd \in {"quit", "update"}, job[t].pc \in {"ok", "err", "skip"},
               UNCHANGED <<machine, present>>
        PROVE  GivenBack'
    <3>1. CASE job[t].pc = "ok"
      BY <1>5, <2>5, <3>1 DEF Held, InHand, Owners
    <3>2. CASE job[t].pc = "err"
      BY <1>2, <1>5, <2>5, <3>2 DEF Owners
    <3>3. CASE job[t].pc = "skip"
      <4>1. t = "command"
        BY <2>5, <3>3 DEF Control, StageFits, CommandsOf, Owners, Tasks
      <4> QED BY <1>5, <2>1, <2>2, <2>5, <3>3, <4>1 DEF SkipIsRight
    <3> QED BY <2>5, <3>1, <3>2, <3>3
  <2> QED BY <1>11, <2>3, <2>4, <2>5, EndsComeFrom
<1> QED BY <1>3, <1>4, <1>7, <1>10, <1>11 DEF Flawless

------------------------------------------------------------------------------
(* The theorems. *)

LEMMA ProxyInvariant == ASSUME Serial PROVE Spec => []ProxyInv
<1>1. Init => ProxyInv
  BY InitTypes, InitControl, InitHeld, InitFlawless DEF ProxyInv
<1>2. ProxyInv /\ [Next]_vars => ProxyInv'
  BY TypesNext, ControlNext, HeldNext, FlawlessNext, SkipNext, TakingNext, SignInNext DEF ProxyInv
<1> QED BY <1>1, <1>2, PTL DEF Spec

(* Where commands and the launch's restore do not overlap, no crash, torn    *)
(* backup, vanished service or failed step ever loses what the user had      *)
(* chosen for a setting that is ours, nor makes our own proxy the state to   *)
(* return to: sysproxy.rs and set_system_proxy record before they take.      *)
(* Left out are the settings in givenUp, where a step failed and the code    *)
(* went on: a setting that could not be read for the snapshot (recorded as   *)
(* off, or not at all), a service that could not be listed for the restore,  *)
(* a step before the last of an elevated restore.                            *)
THEOREM UserSettingsAreHeld == ASSUME Serial PROVE Spec => []UserSettingsHeld
<1>1. ProxyInv => UserSettingsHeld
  BY DEF ProxyInv, Held
<1> QED BY <1>1, ProxyInvariant, PTL

(* A session without a failed step gives every setting back when it is quit *)
(* or updated, wherever that asks nobody for a password.                    *)
THEOREM QuitGivesBack == ASSUME Serial PROVE Spec => []QuitReleases
<1>1. ProxyInv => QuitReleases
  BY DEF ProxyInv, Held, Flawless, GivenBack, QuitReleases, Types
<1> QED BY <1>1, ProxyInvariant, PTL

(* On Windows, up to the first failed step and the first crash or restart,  *)
(* the next sign-in is armed to restore for as long as a setting is ours,   *)
(* and disarmed only by a restore that put everything back.                 *)
THEOREM SignInIsArmed == ASSUME Serial PROVE Spec => []SignInWillRestore
<1>1. ProxyInv => SignInWillRestore
  BY DEF ProxyInv
<1> QED BY <1>1, ProxyInvariant, PTL
=============================================================================
