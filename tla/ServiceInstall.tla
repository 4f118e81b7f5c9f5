--------------------------- MODULE ServiceInstall ---------------------------
(***************************************************************************)
(* The runner as a service of systemd or launchd: the commands `service    *)
(* install`, `uninstall`, `start`, `stop`, `restart` and `update`, one     *)
(* step per call that changes the host, each of which may fail or be the   *)
(* last one before the command is interrupted; beside them the service     *)
(* manager, the process it runs and an operator who edits the config       *)
(* (cmd/runner: cmd_service.go, installation.go, service_prepare.go,       *)
(* service_env.go, cmd_update.go, update_target.go).                       *)
(*                                                                         *)
(* Time is in half minutes.  Commands run one at a time: two operators at  *)
(* once are left out.                                                      *)
(***************************************************************************)
EXTENDS Integers, FiniteSets

CONSTANTS
    Managers,       \* the service managers a host may have
    DrainTimeouts,  \* the values of drain-timeout the operator uses
    Release,        \* the releases `update` may find
    MaxCommands, MaxEdits, MaxFaults   \* bounds

ServiceAssumption ==
    /\ Managers \subseteq {"systemd", "launchd"}
    /\ DrainTimeouts \subseteq Nat /\ Release \subseteq Nat \ {0}

Scope == {"system", "user"}
None == [runtime |-> "none", generation |-> "none", stop |-> 0]
Minute == 2
Cleanup == 1       \* Shutdown's own thirty seconds

VARIABLES
    manager,   \* of the host
    file,      \* scope -> the definition on disk, or None
    loaded,    \* scope -> the definition the manager has in memory, or None
    proc,      \* scope -> the process the manager runs, or NoProcess
    config,    \* scope -> drain-timeout in the config file
    binary,    \* scope -> the release at the binary path
    account,   \* the dedicated account: "none", "group", "full"
    dirs,      \* state and log directory: "none", "empty", "service", "foreign"
    command,   \* the command under way, or NoCommand
    last,      \* the result of the command that ended last
    kill,      \* the last process the manager killed during its drain
    commands, edits, faults

vars == <<manager, file, loaded, proc, config, binary, account, dirs, command, last, kill, commands,
          edits, faults>>

managed == <<loaded, proc, kill>>
host == <<account, dirs>>
bounds == <<commands, edits, faults>>

NoProcess == [def |-> None, drain |-> 0, release |-> 0]
NoKill == [given |-> 0, needed |-> 0, warned |-> FALSE, startedWith |-> 0]
\* A command; `sees` is whether the home it looks in is that of the user's service, and
\* `stuck` that its unload has failed.
NoCommand == [op |-> "none", scope |-> "user", step |-> "none", start |-> FALSE, sees |-> TRUE,
              existed |-> FALSE, stuck |-> FALSE, runtime |-> "none", stop |-> 0, release |-> 0]
NoResult == [op |-> "none", scope |-> "user", ok |-> FALSE, start |-> FALSE,
             existed |-> FALSE, stuck |-> FALSE, replaced |-> FALSE, notice |-> FALSE]

Installed(s) == file[s] # None
Running(s) == proc[s] # NoProcess

\* A mutant: the minute is taken off.
StopTimeout_Subtracts(drain) == drain - Minute

\* A mutant: no minute on top.
StopTimeout_NoMargin(drain) == drain

\* serviceStopTimeout: one minute beyond the drain.
StopTimeout(drain) == drain + Minute

\* A mutant: only the generation of the template is looked at.
Warned_GenerationOnly(def, drain) == def.generation = "old"

\* outdatedServiceWarnings, at the start of a process.
Warned(def, drain) == def.generation = "old" \/ def.stop < StopTimeout(drain)

Legacy == [runtime |-> "root", generation |-> "old", stop |-> 3]

Init ==
    /\ manager \in Managers
    /\ \E legacy \in BOOLEAN :
          /\ file = [s \in Scope |-> IF legacy /\ s = "system" THEN Legacy ELSE None]
          /\ dirs \in {"none", "empty", "foreign"}
    /\ loaded = file
    /\ proc = [s \in Scope |-> NoProcess]
    /\ config \in [Scope -> DrainTimeouts]
    /\ \E r \in Release : binary = [s \in Scope |-> r]
    /\ account = "none"
    /\ command = NoCommand /\ last = NoResult /\ kill = NoKill
    /\ commands = 0 /\ edits = 0 /\ faults = 0

-----------------------------------------------------------------------------
(* Commands: how they go on and end.                                       *)

At(op, step) == command.op = op /\ command.step = step

Step(step) == command' = [command EXCEPT !.step = step] /\ UNCHANGED last

Result(ok, replaced, notice) ==
    [op |-> command.op, scope |-> command.scope, ok |-> ok, start |-> command.start,
     existed |-> command.existed, stuck |-> command.stuck, replaced |-> replaced, notice |-> notice]

Ends(ok) == command' = NoCommand /\ last' = Result(ok, FALSE, FALSE)

Begin(c) ==
    /\ command = NoCommand /\ commands < MaxCommands
    /\ command' = c /\ last' = NoResult
    /\ commands' = commands + 1

Fault == faults < MaxFaults /\ faults' = faults + 1

\* The operator interrupts a command.
Interrupt ==
    /\ command # NoCommand /\ Fault
    /\ command' = NoCommand
    /\ UNCHANGED <<file, managed, config, binary, host, last, commands, edits>>

\* A step fails and the command returns its error.
StepFails ==
    /\ \/ command.op = "install" /\ command.step \in {"group", "user", "mkdir", "chown", "probe",
                                                     "write", "reload", "enable", "load"}
       \/ command.op = "update" /\ command.step \in {"download", "replace"}
       \/ command.op = "uninstall" /\ command.step = "remove"
    /\ Fault /\ Ends(FALSE)
    /\ UNCHANGED <<file, managed, config, binary, host, commands, edits>>

-----------------------------------------------------------------------------
(* The service manager.                                                    *)

\* What systemd goes by: the unit in memory, or the file when it has none.
Effective(s) == IF loaded[s] # None THEN loaded[s] ELSE file[s]

Ended(s) == [proc EXCEPT ![s] = NoProcess]

\* A process from definition def, if no other runner holds the lock of the host.
StartProc(s, def) ==
    proc' = IF \E other \in Scope \ {s} : Running(other) THEN Ended(s)
            ELSE [proc EXCEPT ![s] = [def |-> def, drain |-> config[s], release |-> binary[s]]]

\* The stop timeout in force.  systemd takes it from the unit as reloaded last, launchd
\* from the definition the job was loaded with.
Given(s) == loaded[s].stop

\* The process gets SIGTERM, drains and is gone: it ended in time, or was killed when what it
\* may need is more than it is given.
Stopped(s) ==
    \/ UNCHANGED kill
    \/ /\ Running(s) /\ Given(s) < proc[s].drain + Cleanup
       /\ kill' = [given |-> Given(s), needed |-> proc[s].drain + Cleanup,
                   warned |-> Warned(proc[s].def, proc[s].drain),
                   startedWith |-> proc[s].def.stop]

\* The process dies; it is started again unless it ended well.
Crash(s) ==
    /\ Running(s) /\ loaded[s] # None
    /\ \/ proc' = Ended(s)
       \/ proc' = [proc EXCEPT ![s] = [def |-> loaded[s], drain |-> config[s], release |-> binary[s]]]
    /\ UNCHANGED <<file, loaded, config, binary, host, command, last, kill, bounds>>

\* systemd drops a unit that neither runs nor is on disk.
Forget(s) ==
    /\ manager = "systemd" /\ loaded[s] # None /\ ~Running(s) /\ ~Installed(s)
    /\ loaded' = [loaded EXCEPT ![s] = None]
    /\ UNCHANGED <<file, proc, config, binary, host, command, last, kill, bounds>>

EditConfig(s) ==
    /\ edits < MaxEdits /\ edits' = edits + 1
    /\ \E d \in DrainTimeouts \ {config[s]} : config' = [config EXCEPT ![s] = d]
    /\ UNCHANGED <<file, managed, binary, host, command, last, commands, faults>>

-----------------------------------------------------------------------------
(* service install.                                                        *)

\* What discovery tells of an installation: the effective properties of the unit on
\* systemd, the plist on launchd.
Discovered(s) == IF ~Installed(s) THEN None ELSE IF manager = "systemd" THEN Effective(s) ELSE file[s]

\* A mutant: --force gets past an installation in the other scope.
MayInstall_ForceBypasses(s, force, sees) ==
    /\ Installed(s) => force
    /\ force \/ \A other \in Scope \ {s} : Installed(other) => other = "user" /\ ~sees
    /\ s = "user" => sees
    /\ manager = "launchd" => s = "user"

\* serviceCommandInstallation, runServiceInstall and refuseDarwinRoot.  The definition of
\* the user is looked for in the home of who asks; the system scope is root's to change,
\* and sudo may have given it another home.
MayInstall(s, force, sees) ==
    /\ Installed(s) => force
    /\ \A other \in Scope \ {s} : Installed(other) => other = "user" /\ ~sees
    /\ s = "user" => sees
    /\ manager = "launchd" => s = "user"

\* A mutant: a definition written anew always gets the dedicated account.
Runtime_Fresh(s) == IF s = "user" THEN "owner" ELSE "runscaler"

\* applyInstalledIdentity: an installed service keeps its runtime user.
Runtime(s) ==
    CASE s = "user" -> "owner"
      [] s = "system" /\ ~Installed(s) -> "runscaler"
      [] OTHER -> Discovered(s).runtime

\* A mutant: --force goes to the definition at once, prepared or not.
FirstStep_ForceWrites(s, force) ==
    IF Runtime(s) = "runscaler" /\ ~force THEN "audit" ELSE "write"

\* installService: a dedicated account is prepared before anything is written.
FirstStep(s, force) == IF Runtime(s) = "runscaler" THEN "audit" ELSE "write"

Install(s, force, start, sees) ==
    /\ MayInstall(s, force, sees)
    /\ Begin([op |-> "install", scope |-> s, step |-> FirstStep(s, force), start |-> start,
              sees |-> sees, existed |-> Installed(s), stuck |-> FALSE, runtime |-> Runtime(s),
              stop |-> StopTimeout(config[s]), release |-> 0])
    /\ UNCHANGED <<file, managed, config, binary, host, edits, faults>>

\* A mutant: whatever is there is taken over.
Audit_Skipped ==
    /\ At("install", "audit")
    /\ Step(CASE account = "none" -> "group" [] account = "group" -> "user" [] OTHER -> "mkdir")
    /\ UNCHANGED <<file, managed, config, binary, host, bounds>>

\* auditServiceTree: a populated tree of somebody else stops the preparation.
Audit ==
    /\ At("install", "audit")
    /\ IF dirs = "foreign" THEN Ends(FALSE)
       ELSE Step(CASE account = "none" -> "group" [] account = "group" -> "user" [] OTHER -> "mkdir")
    /\ UNCHANGED <<file, managed, config, binary, host, bounds>>

\* ensureServiceAccount.
AddGroup ==
    /\ At("install", "group") /\ account' = "group" /\ Step("user")
    /\ UNCHANGED <<file, managed, config, binary, dirs, bounds>>

AddUser ==
    /\ At("install", "user") /\ account' = "full" /\ Step("mkdir")
    /\ UNCHANGED <<file, managed, config, binary, dirs, bounds>>

\* prepareOwnedDirectory.
MakeDirectory ==
    /\ At("install", "mkdir") /\ Step("chown")
    /\ dirs' = IF dirs = "none" THEN "empty" ELSE dirs
    /\ UNCHANGED <<file, managed, config, binary, account, bounds>>

OwnDirectory ==
    /\ At("install", "chown")
    /\ dirs' = "service"
    /\ Step(IF command.start THEN "probe" ELSE "write")
    /\ UNCHANGED <<file, managed, config, binary, account, bounds>>

\* verifyPreparedService: doctor under the identity of the service.
Probe ==
    /\ At("install", "probe") /\ Step("write")
    /\ UNCHANGED <<file, managed, config, binary, host, bounds>>

\* systemdManager.install and launchdManager.install: the definition is replaced at once.
Write ==
    /\ At("install", "write")
    /\ file' = [file EXCEPT ![command.scope] = [runtime |-> command.runtime,
                   generation |-> "current", stop |-> command.stop]]
    /\ IF manager = "systemd" THEN Step("reload")
       ELSE IF ~command.start THEN Ends(TRUE)
       ELSE Step(IF command.existed THEN "unload" ELSE "load")
    /\ UNCHANGED <<managed, config, binary, host, bounds>>

\* systemctl daemon-reload, and systemctl enable, which reloads too: of the manager of
\* this scope.
Reload ==
    /\ At("install", "reload") /\ Step("enable")
    /\ loaded' = [loaded EXCEPT ![command.scope] = file[command.scope]]
    /\ UNCHANGED <<file, proc, config, binary, host, kill, bounds>>

\* A mutant: an existing service is started, not restarted.
Action_StartOnly(existed) == "start"

\* What install does last.
Action(existed) == IF existed THEN "restart" ELSE "start"

Enable ==
    /\ At("install", "enable")
    /\ IF command.start THEN Step(Action(command.existed)) ELSE Ends(TRUE)
    /\ UNCHANGED <<file, managed, config, binary, host, bounds>>

-----------------------------------------------------------------------------
(* What the commands ask of the service manager.                           *)

Commands == {"start", "stop", "restart"}

\* runServiceStart, runServiceStop, runServiceRestart: of an installed service.
Control(s, op) ==
    /\ Installed(s) /\ op \in Commands
    /\ manager = "launchd" => s = "user"
    /\ Begin([NoCommand EXCEPT !.op = op, !.scope = s,
                 !.step = IF manager = "launchd" THEN (IF op = "start" THEN "load" ELSE "unload") ELSE op])
    /\ UNCHANGED <<file, managed, config, binary, host, edits, faults>>

\* systemctl start: nothing for a unit that runs.
StartUnit ==
    /\ manager = "systemd" /\ command.step = "start"
    /\ LET s == command.scope
       IN  /\ loaded' = [loaded EXCEPT ![s] = Effective(s)]
           /\ IF Running(s) THEN UNCHANGED proc ELSE StartProc(s, Effective(s))
    /\ Ends(TRUE)
    /\ UNCHANGED <<file, kill, config, binary, host, bounds>>

\* systemctl restart: one job of the manager, which stops the process and starts it anew.
RestartUnit ==
    /\ manager = "systemd" /\ command.step = "restart"
    /\ LET s == command.scope
       IN  /\ loaded' = [loaded EXCEPT ![s] = Effective(s)]
           /\ Stopped(s) /\ StartProc(s, Effective(s))
    /\ Ends(TRUE)
    /\ UNCHANGED <<file, config, binary, host, bounds>>

StopUnit ==
    /\ manager = "systemd" /\ At("stop", "stop")
    /\ Stopped(command.scope) /\ proc' = Ended(command.scope) /\ Ends(TRUE)
    /\ UNCHANGED <<file, loaded, config, binary, host, bounds>>

\* launchctl unload: the job ends and is forgotten.
Unload ==
    /\ manager = "launchd" /\ command.step = "unload"
    /\ Stopped(command.scope) /\ proc' = Ended(command.scope)
    /\ loaded' = [loaded EXCEPT ![command.scope] = None]
    /\ CASE command.op = "stop" -> Ends(TRUE)
         [] command.op = "uninstall" -> Step("remove")
         [] OTHER -> Step("load")
    /\ UNCHANGED <<file, config, binary, host, bounds>>

\* Its failure, which launchctl may report or not, ends `stop` only.
UnloadFails ==
    /\ manager = "launchd" /\ command.step = "unload" /\ Fault
    /\ CASE command.op = "stop" -> \E ok \in BOOLEAN : Ends(ok)
         [] command.op = "uninstall" -> Step("remove")
         [] OTHER -> command' = [command EXCEPT !.step = "load", !.stuck = TRUE] /\ UNCHANGED last
    /\ UNCHANGED <<file, managed, config, binary, host, commands, edits>>

\* launchctl load -w: the job starts from the plist.  One that is loaded stays as it is,
\* which launchctl may report as a success.
Load ==
    /\ manager = "launchd" /\ command.step = "load"
    /\ LET s == command.scope
       IN  IF loaded[s] # None THEN (\E ok \in BOOLEAN : Ends(ok)) /\ UNCHANGED <<loaded, proc>>
           ELSE /\ loaded' = [loaded EXCEPT ![s] = file[s]]
                /\ StartProc(s, file[s])
                /\ Ends(TRUE)
    /\ UNCHANGED <<file, kill, config, binary, host, bounds>>

\* systemctl start or restart fails.
SystemctlFails ==
    /\ manager = "systemd" /\ command.step \in Commands /\ command.op # "uninstall"
    /\ Fault /\ Ends(FALSE)
    /\ UNCHANGED <<file, managed, config, binary, host, commands, edits>>

-----------------------------------------------------------------------------
(* service uninstall.                                                      *)

Uninstall(s) ==
    /\ Installed(s)
    /\ Begin([NoCommand EXCEPT !.op = "uninstall", !.scope = s,
                 !.step = IF manager = "launchd" THEN "unload" ELSE "stop"])
    /\ UNCHANGED <<file, managed, config, binary, host, edits, faults>>

\* removeSystemdUnit: stop and disable, whose errors are dropped.
UninstallStop ==
    /\ At("uninstall", "stop")
    /\ \/ Stopped(command.scope) /\ proc' = Ended(command.scope) /\ UNCHANGED faults
       \/ Fault /\ UNCHANGED <<proc, kill>>
    /\ Step("remove")
    /\ UNCHANGED <<file, loaded, config, binary, host, commands, edits>>

\* The file is removed; systemd reloads, or fails to, which is dropped too.
Remove ==
    /\ At("uninstall", "remove")
    /\ LET s == command.scope
       IN  /\ file' = [file EXCEPT ![s] = None]
           /\ \/ manager = "systemd" /\ ~Running(s)
                 /\ loaded' = [loaded EXCEPT ![s] = None] /\ UNCHANGED faults
              \/ manager = "systemd" /\ Fault /\ UNCHANGED loaded
              \/ (manager = "launchd" \/ Running(s)) /\ UNCHANGED <<loaded, faults>>
    /\ Ends(TRUE)
    /\ UNCHANGED <<proc, kill, config, binary, host, commands, edits>>

-----------------------------------------------------------------------------
(* update.                                                                 *)

\* runUpdate with the installed service as its target: the binary's own version is asked,
\* then the latest release.
Update(s) ==
    /\ Installed(s)
    /\ \E r \in Release :
          Begin([NoCommand EXCEPT !.op = "update", !.scope = s, !.release = r,
                    !.step = IF r = binary[s] THEN "current" ELSE "download"])
    /\ UNCHANGED <<file, managed, config, binary, host, edits, faults>>

UpToDate ==
    /\ At("update", "current") /\ Ends(TRUE)
    /\ UNCHANGED <<file, managed, config, binary, host, bounds>>

\* Update: archive and checksums are fetched and compared in a directory of their own.
Download ==
    /\ At("update", "download") /\ Step("replace")
    /\ UNCHANGED <<file, managed, config, binary, host, bounds>>

Replace ==
    /\ At("update", "replace") /\ Step("notice")
    /\ binary' = [binary EXCEPT ![command.scope] = command.release]
    /\ UNCHANGED <<file, managed, config, host, bounds>>

\* A mutant: a service that does not answer counts as stopped.
NeedsNotice_Silent(installed, answer) == answer # 0 /\ answer # installed

\* updateRestartNotice: anything but an answer with the installed version.
NeedsNotice(installed, answer) == answer # installed

\* fetchRunningVersion: /healthz of the configured port, which the service of the other
\* scope may answer too; 0 without an answer.
Notice ==
    /\ At("update", "notice")
    /\ \E answer \in {0} \cup {proc[s].release : s \in Scope} :
          last' = Result(TRUE, TRUE, NeedsNotice(command.release, answer))
    /\ command' = NoCommand
    /\ UNCHANGED <<file, managed, config, binary, host, bounds>>

-----------------------------------------------------------------------------
Prepare == Audit \/ AddGroup \/ AddUser \/ MakeDirectory \/ OwnDirectory \/ Probe

Commanded ==
    \E s \in Scope :
        \/ \E force, start, sees \in BOOLEAN : Install(s, force, start, sees)
        \/ \E op \in Commands : Control(s, op)
        \/ Uninstall(s) \/ Update(s)

CarriedOut ==
    \/ Prepare \/ Write \/ Reload \/ Enable \/ StartUnit \/ RestartUnit \/ StopUnit
    \/ Unload \/ UnloadFails \/ Load \/ SystemctlFails
    \/ UninstallStop \/ Remove \/ UpToDate \/ Download \/ Replace \/ Notice
    \/ Interrupt \/ StepFails

Beside == \E s \in Scope : Crash(s) \/ Forget(s) \/ EditConfig(s)

Next == (Commanded \/ CarriedOut \/ Beside) /\ UNCHANGED manager

Spec == Init /\ [][Next]_vars

-----------------------------------------------------------------------------
(* Properties.                                                             *)

Definition == [runtime : {"root", "runscaler", "owner"}, generation : {"old", "current"}, stop : Nat]

TypeOK ==
    /\ file \in [Scope -> Definition \cup {None}] /\ loaded \in [Scope -> Definition \cup {None}]
    /\ \A s \in Scope : Running(s) => proc[s].def \in Definition /\ proc[s].drain \in DrainTimeouts
    /\ \A s \in Scope : Running(s) => loaded[s] # None
    /\ config \in [Scope -> DrainTimeouts] /\ binary \in [Scope -> Release]
    /\ account \in {"none", "group", "full"} /\ dirs \in {"none", "empty", "service", "foreign"}

\* Whatever fails and is tried again, with --force or without: the runner becomes installed
\* in both scopes (the lock lets only one of the two services run) in one way only, by an
\* install in the system scope that did not look in the home of the user's service
\* ("--force never bypasses conflicts", serviceCommandInstallation).
OneInstallation ==
    (\A s \in Scope : file'[s] # None) /\ (\E s \in Scope : ~Installed(s))
        => command.op = "install" /\ command.scope = "system" /\ ~command.sees

\* A definition on disk that names the dedicated account finds the account and its
\* directories there, however often a preparation was interrupted.
PreparedWhenInstalled ==
    \A s \in Scope : file[s].runtime = "runscaler" => account = "full" /\ dirs = "service"

\* Regenerating a definition keeps the runtime user of the service, unless systemd still has
\* an older definition in memory: it is asked for the unit's properties, not the file.
IdentityKept ==
    \A s \in Scope : (Installed(s) /\ file'[s] # None /\ loaded[s] \in {None, file[s]})
          => file'[s].runtime = file[s].runtime

\* A populated tree of another owner is never taken over.
ForeignTreeKept == dirs = "foreign" => dirs' = "foreign"

\* install --force that reports success without --no-start: the process runs by the
\* definition just written, unless its unload failed (which launchdManager.install
\* ignores: the job stays as it was loaded).
InstallStartsIt ==
    (last.op = "install" /\ last.ok /\ last.start /\ last.existed /\ ~last.stuck /\ Running(last.scope))
        => proc[last.scope].def = file[last.scope]

\* An update that leaves the service on another release says so.
UpdateTellsRestart ==
    (last.op = "update" /\ last.replaced /\ ~last.notice /\ Running(last.scope))
        => proc[last.scope].release = binary[last.scope]

\* A process killed during its drain, by the stop timeout it was started with, had warned
\* that the timeout is too short.
OutgrownIsWarned == kill # NoKill /\ kill.given = kill.startedWith => kill.warned

=============================================================================
