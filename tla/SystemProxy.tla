---------------------------- MODULE SystemProxy ----------------------------
(***************************************************************************)
(* How NovaProxy borrows the machine's proxy settings and gives them back. *)
(* Turning the proxy on takes a snapshot, writes it to the backup file and *)
(* only then points every connection of the machine at the proxy; turning  *)
(* it off, quitting, updating, the next launch after a crash and (Windows) *)
(* the next sign-in all replay that file and remove it.  Settings are set  *)
(* one command at a time by the plan of the platform; any step may fail,   *)
(* the app may die between two steps, and a sweep another process carries  *)
(* out (the privileged helper, or osascript's shell) outlives the app.     *)
(*                                                                         *)
(* A slot is one thing a plan step writes: a network service (macOS), a    *)
(* WinINet connection, LAN first (Windows), or a gsettings key (Linux).    *)
(***************************************************************************)
EXTENDS Naturals, Sequences, FiniteSets, SequencesExt

CONSTANTS
  Plan,         \* the slots, in the order the plans visit them
  Platforms,    \* a subset of {"macos", "windows", "linux"}
  Serial,       \* TRUE when no two of: a command, the launch restore, a sweep left behind, overlap
  MaxFailures,  \* steps and calls that fail
  MaxCrashes,   \* crashes, kills and restarts
  MaxVanished   \* services the machine loses

ASSUME SystemProxyAssumption ==
  /\ Platforms \subseteq {"macos", "windows", "linux"}
  /\ Plan \in Seq(ToSet(Plan)) /\ Plan # <<>> /\ IsInjective(Plan)
  /\ {MaxFailures, MaxCrashes, MaxVanished} \subseteq Nat

Slots == ToSet(Plan)
Tasks == {"command", "main"}   \* a Tauri command; the launch thread, the exit hook or the sign-in
Owners == Tasks \cup {"orphan"} \* and a sweep whose caller is gone
Settings == {"direct", "user"}

VARIABLES
  platform,   \* fixed by Init
  helper,     \* macOS: a helper of our protocol version answers pings
  present,    \* the slots the machine still has
  own,        \* what the user last chose for each slot
  machine,    \* what each slot says now
  file,       \* the backup file: "none", "torn" or "whole"
  saved,      \* what a whole one records
  armed,      \* Windows: the RunOnce value is in the registry
  phase,      \* "off", "running", "quitting" or "signin"
  lastExit,   \* how the last session ended
  job,        \* what each task is doing
  sysproxy,   \* AppState::system_proxy
  pending,    \* AppState::pending_restore
  failures, crashes,
  givenUp     \* history: slots a read or a restore failed for and nobody was told,
              \* until the user sets them again

os == <<platform, helper, present, own>>
backup == <<file, saved>>
app == <<sysproxy, pending>>
vars == <<platform, helper, present, own, machine, file, saved, armed, phase, lastExit,
          job, sysproxy, pending, failures, crashes, givenUp>>

NoSweep == [goal |-> "none", via |-> "none", bk |-> <<>>, left |-> {}, failed |-> {}]
Idle == [cmd |-> "idle", pc |-> "idle", sweep |-> NoSweep]

Readable == file = "whole"
Quiet == \A t \in Owners : job[t].cmd = "idle"

\* sysproxy::restore_is_silent
Silent == platform # "macos" \/ helper

(* Mutant: only what this session took is given back. *)
ReleasableIfOn == sysproxy /\ file # "none" /\ Silent

\* What a quit, an update and a launch ask before they restore.
Releasable == file # "none" /\ Silent

\* Steps are built in the order of the plan, for the slots a snapshot has.
Before(x, y) == \E i, j \in DOMAIN Plan : i < j /\ Plan[i] = x /\ Plan[j] = y
Foremost(S) == {x \in S : \A y \in S : ~Before(y, x)}
Hindmost(S) == {x \in S : \A y \in S : ~Before(x, y)}

\* oscmd::Plan: what a sweep reports once every step has run or been given up.
\* Elevated best-effort steps are one shell line joined by `;`, whose status
\* is the last command's; inet::enable forgives every connection but the LAN.
Succeeded(s) ==
  IF s.via = "admin" /\ s.goal = "restore" THEN Hindmost(DOMAIN s.bk) \cap s.failed = {}
  ELSE IF platform = "windows" /\ s.goal = "enable" THEN Head(Plan) \notin s.failed
  ELSE s.failed = {}

\* Plan::new stops at the first failed step, Plan::best_effort and the loop
\* over WinINet connections never do.
FailFast(s) == s.goal = "enable" /\ platform # "windows"

Init ==
  /\ platform \in Platforms
  /\ helper \in (IF platform = "macos" THEN BOOLEAN ELSE {FALSE})
  /\ present = Slots
  /\ own \in [Slots -> Settings]
  /\ machine = own
  /\ file = "none" /\ saved = <<>> /\ armed = FALSE
  /\ phase = "off" /\ lastExit = "none"
  /\ job = [t \in Owners |-> Idle]
  /\ sysproxy = FALSE /\ pending = FALSE
  /\ failures = 0 /\ crashes = 0 /\ givenUp = {}

-----------------------------------------------------------------------------
(* The machine and its user. *)

\* The user edits a setting in the OS, with nothing of theirs in our hands.
Edit(s) ==
  /\ Quiet /\ phase = "off" /\ file = "none" /\ s \in present
  /\ \A x \in present : machine[x] # "ours"
  /\ \E v \in Settings \ {own[s]} :
       own' = [own EXCEPT ![s] = v] /\ machine' = [machine EXCEPT ![s] = v]
  /\ givenUp' = givenUp \ {s}
  /\ UNCHANGED <<platform, helper, present, backup, armed, phase, lastExit, job,
                 sysproxy, pending, failures, crashes>>

\* A VPN client removes its service when a profile is deleted.
Vanish(s) ==
  /\ platform = "macos" /\ s \in present /\ Quiet
  /\ Cardinality(Slots \ present) < MaxVanished
  /\ present' = present \ {s}
  /\ UNCHANGED <<platform, helper, own, machine, backup, armed, phase, lastExit, job,
                 sysproxy, pending, failures, crashes, givenUp>>

\* commands::install_helper and uninstall_helper, judged by ping alone.
ChangeHelper ==
  /\ platform = "macos" /\ phase = "running" /\ Quiet
  /\ helper' = ~helper
  /\ UNCHANGED <<platform, present, own, machine, backup, armed, phase, lastExit, job,
                 sysproxy, pending, failures, crashes, givenUp>>

-----------------------------------------------------------------------------
(* Commands. *)

Free(t) ==
  /\ job[t].cmd = "idle"
  /\ Serial => Quiet

Begin(t, cmd, pc) == job' = [job EXCEPT ![t] = [Idle EXCEPT !.cmd = cmd, !.pc = pc]]
Goto(t, pc) == job' = [job EXCEPT ![t].pc = pc]

\* set_system_proxy(true): ensure_engine, then the backup a crash left behind
\* is kept, or a snapshot is taken.
Enable ==
  /\ phase = "running" /\ Free("command") /\ ~sysproxy
  /\ Begin("command", "enable", "read")
  /\ UNCHANGED <<os, machine, backup, armed, phase, lastExit, app, failures, crashes, givenUp>>

Prepare(t, pc, bk) ==
  job' = [job EXCEPT ![t].pc = pc, ![t].sweep = [NoSweep EXCEPT !.bk = bk]]

Truth == [s \in present |-> machine[s]]

(* Mutant: an enable always records the settings it finds. *)
Resnapshot ==
  /\ job["command"].pc = "read"
  /\ Prepare("command", "truncate", Truth)
  /\ UNCHANGED <<os, machine, backup, armed, phase, lastExit, app, failures, crashes, givenUp>>

\* sysproxy::snapshot where only the slots of R can be read: a service or a key
\* that cannot is recorded as off, a WinINet connection is left out.
Snapshot(R) ==
  IF platform = "windows" THEN [s \in R |-> machine[s]]
  ELSE [s \in present |-> IF s \in R THEN machine[s] ELSE "direct"]

\* And with no list of services there is nothing to read.
Readings == {Snapshot(R) : R \in SUBSET present} \cup (IF platform = "macos" THEN {<<>>} ELSE {})

ReadBackup ==
  /\ job["command"].pc = "read" /\ job["command"].cmd = "enable"
  /\ \/ /\ Readable /\ Prepare("command", "apply", saved)
        /\ UNCHANGED <<failures, givenUp>>
     \/ /\ ~Readable /\ Prepare("command", "truncate", Truth)
        /\ UNCHANGED <<failures, givenUp>>
     \/ /\ ~Readable /\ failures < MaxFailures /\ failures' = failures + 1
        /\ \E bk \in Readings \ {Truth} :
             /\ Prepare("command", "truncate", bk)
             /\ givenUp' = givenUp \cup {s \in present : s \notin DOMAIN bk \/ bk[s] # machine[s]}
  /\ UNCHANGED <<os, machine, backup, armed, phase, lastExit, app, crashes>>

\* std::fs::write truncates, then writes; either half may be the last thing done.
Truncate ==
  /\ job["command"].pc = "truncate"
  /\ file' = "torn" /\ saved' = <<>> /\ Goto("command", "write")
  /\ UNCHANGED <<os, machine, armed, phase, lastExit, app, failures, crashes, givenUp>>

WriteBackup ==
  /\ job["command"].pc = "write"
  /\ \/ /\ file' = "whole" /\ saved' = job["command"].sweep.bk /\ Goto("command", "apply")
        /\ UNCHANGED failures
     \/ /\ failures < MaxFailures /\ failures' = failures + 1
        /\ Goto("command", "err") /\ UNCHANGED backup
  /\ UNCHANGED <<os, machine, armed, phase, lastExit, app, crashes, givenUp>>

\* set_system_proxy(false): with no readable backup there is nothing to put back.
Disable ==
  /\ phase = "running" /\ Free("command") /\ sysproxy
  /\ IF Readable
       THEN job' = [job EXCEPT !["command"] = [cmd |-> "disable", pc |-> "apply",
                                                sweep |-> [NoSweep EXCEPT !.bk = saved]]]
       ELSE Begin("command", "disable", "ok")
  /\ UNCHANGED <<os, machine, backup, armed, phase, lastExit, app,
                 failures, crashes, givenUp>>

\* restore_from_backup, which the Restore button, the launch thread, a quit
\* and an update share.
RestoreFromBackup(t, cmd) ==
  job' = [job EXCEPT ![t] =
    [cmd |-> cmd,
     pc |-> CASE file = "none" -> "ok" [] file = "torn" -> "err" [] OTHER -> "apply",
     sweep |-> [NoSweep EXCEPT !.bk = saved]]]

Restore ==
  /\ phase = "running" /\ pending /\ Free("command")
  /\ RestoreFromBackup("command", "restore")
  /\ UNCHANGED <<os, machine, backup, armed, phase, lastExit, app,
                 failures, crashes, givenUp>>

\* install_update releases the proxy once the bytes are here.
Update ==
  /\ phase = "running" /\ Free("command")
  /\ IF Releasable THEN RestoreFromBackup("command", "update")
     ELSE Begin("command", "update", "skip")
  /\ UNCHANGED <<os, machine, backup, armed, phase, lastExit, app,
                 failures, crashes, givenUp>>

-----------------------------------------------------------------------------
(* Sweeps. *)

\* What a sweep goes through for a snapshot: on macOS the services that are
\* listed still, on Windows the LAN, off, if the snapshot is empty.
Targets(bk, listed) ==
  CASE platform = "macos"                  -> Restrict(bk, DOMAIN bk \cap listed)
    [] platform = "windows" /\ bk = <<>>   -> [s \in {Head(Plan)} |-> "direct"]
    [] OTHER                               -> bk

\* sysproxy::enable and disable: the helper is preferred to a password prompt,
\* and Windows arms the sign-in restore before it changes anything.  A list of
\* services that cannot be read is an empty one.
StartSweep(t) ==
  /\ job[t].pc = "apply"
  /\ \E listed \in {present, {}} :
       LET goal == IF job[t].cmd = "enable" THEN "enable" ELSE "restore"
           bk   == Targets(job[t].sweep.bk, listed)
           via  == IF platform # "macos" THEN "direct" ELSE IF helper THEN "helper" ELSE "admin"
       IN
       /\ IF listed = present THEN UNCHANGED failures
          ELSE platform = "macos" /\ failures < MaxFailures /\ failures' = failures + 1
       /\ via = "helper" =>                     \* the daemon serves one request at a time
            \A o \in Owners \ {t} : job[o].pc = "sweep" => job[o].sweep.via # "helper"
       /\ IF via = "helper" /\ DOMAIN bk = {}    \* validate_backup refuses an empty snapshot
            THEN /\ Goto(t, "err") /\ UNCHANGED <<armed, givenUp>>
            ELSE /\ job' = [job EXCEPT ![t].pc = "sweep",
                      ![t].sweep = [goal |-> goal, via |-> via, bk |-> bk, failed |-> {},
                                    left |-> DOMAIN bk]]
                 /\ armed' = (armed \/ (platform = "windows" /\ goal = "enable"))
                 /\ givenUp' = IF goal = "enable" THEN givenUp
                               ELSE givenUp \cup ((DOMAIN job[t].sweep.bk \cap present) \ listed)
  /\ UNCHANGED <<os, machine, backup, phase, lastExit, app, crashes>>

\* A cancelled prompt, a refusing helper, a desktop with no gsettings or, where
\* no connection could be read, a LAN that still cannot be: an error before any
\* setting changed.
Refuse(t) ==
  /\ job[t].pc = "apply"
  /\ platform = "windows" => job[t].cmd = "enable" /\ job[t].sweep.bk = <<>>
  /\ failures < MaxFailures /\ failures' = failures + 1
  /\ armed' = (armed \/ platform = "windows")
  /\ Goto(t, "err")
  /\ UNCHANGED <<os, machine, backup, phase, lastExit, app, crashes, givenUp>>

Write(t) ==
  LET s == job[t].sweep IN
  /\ job[t].pc = "sweep"
  /\ \E x \in Foremost(s.left) \cap present :
       /\ machine' = [machine EXCEPT ![x] = IF s.goal = "enable" THEN "ours" ELSE s.bk[x]]
       /\ job' = [job EXCEPT ![t].sweep.left = @ \ {x}]
  /\ UNCHANGED <<os, backup, armed, phase, lastExit, app, failures, crashes, givenUp>>

WriteFails(t) ==
  LET s == job[t].sweep IN
  /\ job[t].pc = "sweep" /\ failures < MaxFailures
  /\ failures' = failures + 1
  /\ \E x \in Foremost(s.left) :
       job' = [job EXCEPT ![t].sweep.failed = @ \cup {x},
                          ![t].sweep.left = IF FailFast(s) THEN {} ELSE @ \ {x}]
  /\ UNCHANGED <<os, machine, backup, armed, phase, lastExit, app, crashes, givenUp>>

(* Mutant: the sign-in entry goes with every sweep. *)
DisarmsAlways(s) == TRUE

Disarms(s) == s.goal = "restore" /\ Succeeded(s)

\* The sweep is over: a restore that went through disarms the sign-in entry.
EndSweep(t) ==
  LET s == job[t].sweep IN
  /\ job[t].pc = "sweep" /\ s.left = {}
  /\ job' = IF t = "orphan" THEN [job EXCEPT ![t] = Idle]
            ELSE [job EXCEPT ![t].pc = IF Succeeded(s) THEN "ok" ELSE "err"]
  /\ armed' = (armed /\ ~Disarms(s))
  /\ givenUp' = IF s.goal = "restore" /\ Succeeded(s) THEN givenUp \cup s.failed ELSE givenUp
  /\ UNCHANGED <<os, machine, backup, phase, lastExit, app, failures, crashes>>

\* The client gives up after IO_TIMEOUT; the daemon carries on.
Timeout(t) ==
  /\ t \in Tasks /\ job[t].pc = "sweep" /\ job[t].sweep.via = "helper"
  /\ failures < MaxFailures /\ failures' = failures + 1
  /\ job' = [job EXCEPT !["orphan"] = [cmd |-> "orphan", pc |-> "sweep", sweep |-> job[t].sweep],
                        ![t].pc = "err"]
  /\ UNCHANGED <<os, machine, backup, armed, phase, lastExit, app, crashes, givenUp>>

-----------------------------------------------------------------------------
(* What each command does with the outcome. *)

Finish(t, cmds, pc) == job[t].cmd \in cmds /\ job[t].pc = pc /\ job' = [job EXCEPT ![t] = Idle]

Removed == file' = "none" /\ saved' = <<>>

EnableDone ==
  /\ Finish("command", {"enable"}, "ok")
  /\ sysproxy' = TRUE /\ pending' = FALSE
  /\ UNCHANGED <<os, machine, backup, armed, phase, lastExit, failures, crashes, givenUp>>

DisableDone ==
  /\ Finish("command", {"disable"}, "ok")
  /\ Removed /\ sysproxy' = FALSE /\ pending' = FALSE
  /\ UNCHANGED <<os, machine, armed, phase, lastExit, failures, crashes, givenUp>>

\* Only the command clears `system_proxy`; the launch thread leaves it.
RestoreDone(t) ==
  /\ Finish(t, {"restore", "launch"}, "ok")
  /\ Removed /\ pending' = FALSE
  /\ sysproxy' = (sysproxy /\ job[t].cmd # "restore")
  /\ UNCHANGED <<os, machine, armed, phase, lastExit, failures, crashes, givenUp>>

\* The error reaches the UI and nothing is undone.
CommandFails ==
  /\ Finish("command", {"enable", "disable", "restore"}, "err")
  /\ UNCHANGED <<os, machine, backup, armed, phase, lastExit, app, failures, crashes, givenUp>>

(* Mutant: the failure is only logged. *)
LaunchFailsQuietly ==
  /\ Finish("main", {"launch"}, "err")
  /\ UNCHANGED <<os, machine, backup, armed, phase, lastExit, app, failures, crashes, givenUp>>

LaunchRestoreFails ==
  /\ Finish("main", {"launch"}, "err")
  /\ pending' = TRUE
  /\ UNCHANGED <<os, machine, backup, armed, phase, lastExit, sysproxy,
                 failures, crashes, givenUp>>

\* What a dying process leaves running: a request the daemon is serving, or
\* the shell osascript started.
Outlives(t) == job[t].pc = "sweep" /\ job[t].sweep.via \in {"helper", "admin"}
Abandoned ==
  [o \in Owners |->
     IF o \in Tasks THEN Idle
     ELSE IF job[o].cmd = "idle" /\ \E t \in Tasks : Outlives(t)
       THEN LET t == CHOOSE t \in Tasks : Outlives(t) IN
            [cmd |-> "orphan", pc |-> "sweep", sweep |-> job[t].sweep]
     ELSE job[o]]

Leave(how) ==
  /\ lastExit' = how /\ job' = Abandoned
  /\ sysproxy' = FALSE /\ pending' = FALSE

\* The process ends after its last task, whatever came of it.
Exits(t) ==
  /\ job[t].cmd \in {"quit", "update", "signin"} /\ job[t].pc \in {"ok", "err", "skip"}
  /\ phase' = "off" /\ Leave(IF job[t].cmd = "signin" THEN lastExit ELSE "quit")
  /\ IF job[t].pc = "ok" THEN Removed ELSE UNCHANGED backup
  /\ UNCHANGED <<os, machine, armed, failures, crashes, givenUp>>

\* The installer refused: the app goes on with the proxy released.
InstallFails ==
  /\ \E pc \in {"ok", "err", "skip"} : Finish("command", {"update"}, pc)
  /\ failures < MaxFailures /\ failures' = failures + 1
  /\ IF job["command"].pc = "ok" THEN Removed ELSE UNCHANGED backup
  /\ pending' = (pending /\ job["command"].pc # "ok")
  /\ UNCHANGED <<os, machine, armed, phase, lastExit, sysproxy, crashes, givenUp>>

-----------------------------------------------------------------------------
(* Sessions. *)

\* run: a backup left behind is replayed if that asks nobody for a password,
\* and otherwise offered.
Launch ==
  /\ phase = "off" /\ Free("main")
  /\ phase' = "running"
  /\ IF Releasable
       THEN RestoreFromBackup("main", "launch") /\ UNCHANGED pending
       ELSE pending' = (file # "none") /\ UNCHANGED job
  /\ UNCHANGED <<os, machine, backup, armed, lastExit, sysproxy, failures, crashes, givenUp>>

\* RunEvent::Exit, through release_system_proxy.
Quit ==
  /\ phase = "running" /\ Free("main")
  /\ IF Releasable
       THEN /\ RestoreFromBackup("main", "quit") /\ phase' = "quitting"
            /\ UNCHANGED <<lastExit, app>>
       ELSE phase' = "off" /\ Leave("quit")
  /\ UNCHANGED <<os, machine, backup, armed, failures, crashes, givenUp>>

Crash ==
  /\ phase # "off" /\ crashes < MaxCrashes /\ crashes' = crashes + 1
  /\ phase' = "off" /\ Leave("crash")
  /\ UNCHANGED <<os, machine, backup, armed, failures, givenUp>>

\* A restart or sign-out with the app running, or after it died: Windows runs
\* the RunOnce command at the next sign-in, having removed the value.
Restart ==
  /\ platform = "windows" /\ phase \in {"off", "running"}
  /\ crashes < MaxCrashes /\ crashes' = crashes + 1
  /\ IF armed /\ Readable
       THEN /\ phase' = "signin" /\ lastExit' = "crash"
            /\ job' = [o \in Owners |->
                 IF o = "main" THEN [cmd |-> "signin", pc |-> "apply",
                                     sweep |-> [NoSweep EXCEPT !.bk = saved]]
                 ELSE Idle]
            /\ sysproxy' = FALSE /\ pending' = FALSE
       ELSE phase' = "off" /\ Leave("crash")
  /\ armed' = FALSE
  /\ UNCHANGED <<os, machine, backup, failures, givenUp>>

Next ==
  \/ \E s \in Slots : Edit(s) \/ Vanish(s)
  \/ ChangeHelper \/ Enable \/ ReadBackup \/ Truncate \/ WriteBackup \/ Disable \/ Restore \/ Update
  \/ \E t \in Tasks : StartSweep(t) \/ Refuse(t) \/ Timeout(t) \/ RestoreDone(t) \/ Exits(t)
  \/ \E t \in Owners : Write(t) \/ WriteFails(t) \/ EndSweep(t)
  \/ EnableDone \/ DisableDone \/ CommandFails \/ LaunchRestoreFails \/ InstallFails
  \/ Launch \/ Quit \/ Crash \/ Restart

\* The threads and the daemon run; nobody has to launch, toggle or quit.
Running ==
  \/ \E t \in Tasks : StartSweep(t) \/ RestoreDone(t)
  \/ \E t \in Owners : Write(t) \/ WriteFails(t) \/ EndSweep(t)
  \/ LaunchRestoreFails
Spec == Init /\ [][Next]_vars /\ WF_vars(Running)

-----------------------------------------------------------------------------

\* While any setting of the machine is ours, the user's own is in a readable
\* backup, so that turning off, quitting or the next launch can put it back
\* (set_system_proxy persists the snapshot before it changes anything and
\* nothing removes the file before every setting is back); and no backup ever
\* records our own proxy as the state to return to (an enable after an unclean
\* exit keeps the snapshot it finds).  The exceptions to both are what the code
\* does not notice: a setting it could not read as it took the snapshot, the
\* services it could not list as it restored, and a restore behind one password
\* prompt, which reports its last step only.
UserSettingsHeld ==
  /\ \A s \in present \ givenUp : machine[s] = "ours" => Readable /\ s \in DOMAIN saved
  /\ Readable => \A s \in DOMAIN saved \ givenUp : saved[s] = own[s]

\* Quitting gives the machine back wherever that needs no password, unless
\* some step failed.
QuitReleases ==
  phase = "off" /\ lastExit = "quit" /\ Silent /\ failures = 0 =>
    \A s \in present : machine[s] = own[s]

\* Windows: while settings are ours the next sign-in is armed to restore them,
\* unless a step failed or a restart already used the entry up.
SignInWillRestore ==
  platform = "windows" /\ failures = 0 /\ crashes = 0 /\ (\E s \in Slots : machine[s] = "ours") =>
    armed

\* The machine's settings are ours or what the user chose, never a blanket "off".
\* Does not hold: a service or key that could not be read is recorded as off.
NotJustOff == \A s \in present : machine[s] \in {own[s], "ours"}

\* A connection that the snapshot leaves out is left alone.  Does not hold: if
\* it leaves out all of them, enable takes the LAN.
LeftOutIsLeftAlone ==
  platform = "windows" /\ Readable => \A s \in Slots \ DOMAIN saved : machine[s] # "ours"

\* What the launch finds to restore gets restored, or the user is told.
LaunchSettles ==
  job["main"].cmd = "launch" ~> file = "none" \/ pending \/ phase # "running"
=============================================================================
