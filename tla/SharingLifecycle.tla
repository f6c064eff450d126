-------------------------- MODULE SharingLifecycle --------------------------
(***************************************************************************)
(* The life of one connection on macOS, Linux and Windows: its saved       *)
(* endpoint, its job of launchd, systemd or the Task Scheduler, the agent  *)
(* process, and the helper processes of the desktop application that       *)
(* pause, resume, change the shared models and set the sign-in preference. *)
(* The application runs one helper at a time (ui.go: begin), and kills it  *)
(* when its time is over; on Windows the installer, which asks for the     *)
(* application to be closed, stops and resumes the connection around an    *)
(* update.  The agent retires its job by itself when the connection is     *)
(* revoked.  The model server is one that Model Uplink manages.            *)
(***************************************************************************)
CONSTANT Platforms      \* of "systemd", "launchd" and "windows"

ASSUME PlatformsAssumption == Platforms \subseteq {"systemd", "launchd", "windows"}

VARIABLES
    platform,
    file,       \* the saved endpoint: Stopped, Revoked, MemoryReleasePending
    automatic,  \* ~cfg.StartupDisabled
    unit,       \* there is a plist, a unit file or a task
    enabled,    \* it is enabled for the next sign-in
    job,        \* what the service manager does with it
    process,    \* where the agent process is
    loaded,     \* a shared model may be in memory
    task,       \* the action of the helper
    step,       \* where it is
    local,      \* the saved endpoint as it read it
    wanted,     \* the preference it is to set
    resumes,    \* cfg.UpgradeResume has the connection
    updated,    \* history: an update stopped it while it was shared, and the owner has
                \* neither paused nor started it since
    paused,     \* history: Stopped was saved by a pause, and no start began since
    overlooked, \* history: its job had not ended at that moment
    leftover    \* history: a start failed and left its job to a stopped connection

service == <<unit, enabled, job>>
helper == <<task, step, local, wanted>>
upgrade == <<resumes, updated>>
history == <<paused, overlooked, leftover>>
vars == <<platform, file, automatic, service, process, loaded, helper, upgrade, history>>

Endpoint == [stopped : BOOLEAN, revoked : BOOLEAN, release : BOOLEAN]
Sharing == [stopped |-> FALSE, revoked |-> FALSE, release |-> FALSE]

TypeOK ==
    /\ platform \in Platforms
    /\ file \in Endpoint
    /\ {automatic, unit, enabled, loaded, wanted, resumes, updated, paused, overlooked,
        leftover} \subseteq BOOLEAN
    /\ job \in {"off", "on", "leaving", "disabled"}
    /\ process \in {"none", "loading", "up", "revoked", "unloading", "saving",
                    "disabling", "removing", "ending", "parked"}
    /\ task \in {"pause", "resume", "share", "reinstall", "startup", "update", "finish"}
    /\ step \in {"idle", "stop", "stopping", "gone", "uninstall", "saveStopped",
                 "unload", "saveReleased", "check", "saveRun", "saveConfig", "write",
                 "evict", "evicted", "enable", "start", "override", "overrideFailed",
                 "undo", "restore", "setStartup", "savePreference", "rollback",
                 "prepare", "saveStop", "undoing", "prepared", "forget"}
    /\ local \in Endpoint
    /\ step \in {"stop", "stopping", "gone", "uninstall"} => task \in {"pause", "share", "update"}
    /\ step \in {"saveRun", "restore"} => task \in {"resume", "share", "finish"}
    /\ step = "write" => task \in {"resume", "share", "reinstall", "finish"}

\* A connection that was created, at a sign-in.
Init ==
    /\ platform \in Platforms
    /\ file = Sharing
    /\ automatic = TRUE
    /\ unit = TRUE
    /\ enabled = TRUE
    /\ job = "on"
    /\ process = "none"
    /\ loaded = FALSE
    /\ task = "pause"
    /\ step = "idle"
    /\ local = Sharing
    /\ wanted = TRUE
    /\ resumes = FALSE
    /\ updated = FALSE
    /\ paused = FALSE
    /\ overlooked = FALSE
    /\ leftover = FALSE

Systemd == platform = "systemd"
Launchd == platform = "launchd"
Windows == platform = "windows"

-----------------------------------------------------------------------------
(* The service manager and the machine.                                    *)

\* A job that runs will not be restarted: its process is sent SIGTERM, or it is
\* not (see Uninstall).
Ending == IF job = "on" THEN "leaving" ELSE job

\* Restart=always, KeepAlive and RestartOnFailure.
Respawn ==
    /\ job = "on" /\ process = "none"
    /\ process' = "loading"
    /\ UNCHANGED <<file, service, loaded, step>>

JobEnds ==
    /\ job = "leaving" /\ process = "none"
    /\ job' = "off"
    /\ UNCHANGED <<file, unit, enabled, process, loaded, step>>

\* The process ends: at SIGTERM, by its watchdog, killed, or for another reason;
\* as well before it loads the endpoint as right after.  On Windows an agent that
\* exits without an error, or for the eleventh time, is not restarted.
ProcessEnds ==
    /\ process \notin {"none", "loading"}
    /\ process' = "none"
    /\ job' \in IF Windows /\ job = "on" THEN {"on", "off"} ELSE {job}
    /\ UNCHANGED <<file, unit, enabled, loaded, step>>

\* Every process ends, and the next boot or sign-in starts what is enabled; as well
\* before a process loads the endpoint as right after.
Reboot ==
    /\ process # "loading"
    /\ process' = "none"
    /\ job' = IF job = "disabled" THEN job ELSE IF unit /\ enabled THEN "on" ELSE "off"
    /\ loaded' = FALSE
    /\ step' = "idle"
    /\ UNCHANGED <<file, unit, enabled>>

-----------------------------------------------------------------------------
(* The agent process.                                                      *)

Agent(label) == process' = label /\ UNCHANGED step

\* Slip: an endpoint that was stopped is served.
ServesAlways == TRUE

\* agentCommand returns at once when the endpoint is stopped.
Serves == ~file.stopped

Load ==
    /\ process = "loading"
    /\ Agent(IF Serves THEN "up" ELSE "none")
    /\ job' = IF Windows /\ ~Serves /\ job = "on" THEN "off" ELSE job
    /\ UNCHANGED <<file, unit, enabled, loaded>>

Serve ==
    /\ process = "up"
    /\ loaded' = TRUE
    /\ UNCHANGED <<file, service, process, step>>

\* The relay closes the tunnel because the endpoint was revoked.
Revoke ==
    /\ process = "up" /\ Agent("revoked")
    /\ UNCHANGED <<file, service, loaded>>

(* retireRevokedEndpoint and RetireCurrent.  A save may fail, and each      *)
(* failure of RetireCurrent ends it.                                       *)
Retired == [stopped |-> TRUE, revoked |-> TRUE, release |-> TRUE]

SaveRevoked ==
    /\ process = "revoked" /\ Agent("unloading")
    /\ file' \in {file, Retired}
    /\ UNCHANGED <<service, loaded>>

UnloadRevoked ==
    /\ process = "unloading"
    /\ \/ loaded' = FALSE /\ Agent("saving")
       \/ UNCHANGED loaded /\ Agent("disabling")
    /\ UNCHANGED <<file, service>>

SaveUnloaded ==
    /\ process = "saving" /\ Agent("disabling")
    /\ file' \in {file, [Retired EXCEPT !.release = FALSE]}
    /\ UNCHANGED <<service, loaded>>

DisableCurrent ==
    /\ process = "disabling"
    /\ \/ Systemd /\ enabled' = FALSE /\ Agent("removing")
       \/ Systemd /\ UNCHANGED enabled /\ Agent("parked")
       \/ Launchd /\ UNCHANGED enabled /\ Agent("removing")
    /\ UNCHANGED <<file, unit, job, loaded>>

RemoveCurrent ==
    /\ process = "removing"
    /\ \/ unit' = FALSE /\ Agent("ending")
       \/ UNCHANGED unit /\ Agent("parked")
    /\ UNCHANGED <<file, enabled, job, loaded>>

EndCurrent ==
    /\ process = "ending" /\ Agent("parked")
    /\ job' \in {job, Ending}
    /\ UNCHANGED <<file, unit, enabled, loaded>>

\* Windows disables the task and deletes it, and its process goes on.
RetireTask ==
    /\ Windows /\ process = "disabling" /\ Agent("parked")
    /\ \/ unit' = FALSE /\ job' = "off"
       \/ UNCHANGED unit /\ job' \in IF unit THEN {job, "disabled"} ELSE {job}
    /\ UNCHANGED <<file, enabled, loaded>>

Outside ==
    /\ UNCHANGED <<automatic, task, local, wanted, upgrade, history>>
    /\ \/ Respawn \/ JobEnds \/ ProcessEnds \/ Reboot
       \/ Load \/ Serve \/ Revoke \/ SaveRevoked \/ UnloadRevoked \/ SaveUnloaded
       \/ DisableCurrent \/ RemoveCurrent \/ EndCurrent \/ RetireTask

-----------------------------------------------------------------------------
(* Helpers.                                                                *)

Goto(label) == step' = label
Only(act) == act /\ UNCHANGED <<file, automatic, service, loaded, task, local, wanted, upgrade,
                                history>>

\* desktopDispatch reads the saved endpoint, and refuses what was revoked.
Begin(t, first) ==
    /\ step = "idle"
    /\ task' = t
    /\ local' = file
    /\ Goto(first)
    /\ UNCHANGED <<file, automatic, service, loaded, resumes>>

BeginPause ==
    /\ Begin("pause", IF Windows THEN "saveStop" ELSE "stop")
    /\ updated' = FALSE
    /\ UNCHANGED <<wanted, history>>

BeginStart ==
    /\ ~file.revoked
    /\ Begin("resume", "saveRun") \/ Begin("share", "stop")
    /\ updated' = FALSE
    /\ paused' = FALSE
    /\ UNCHANGED <<wanted, overlooked, leftover>>

BeginStartup ==
    /\ Begin("startup", "setStartup")
    /\ wanted' \in BOOLEAN
    /\ UNCHANGED <<updated, history>>

\* The application kills a helper that takes too long; the installer is cancelled, or
\* fails for another connection.
Kill ==
    /\ step # "idle"
    /\ Only(Goto("idle"))

(* The installer on Windows: _prepare-update, which stops what is shared    *)
(* and remembers it, and _finish-update.                                   *)

\* Slip: what an update that was not finished has stopped is forgotten.
RememberedAnew == ~file.stopped /\ ~file.revoked

Remembered == resumes \/ (~file.stopped /\ ~file.revoked)

\* A first failure to save ends the update.
BeginUpdate ==
    /\ Windows
    /\ Begin("update", "prepare")
    /\ UNCHANGED <<wanted, updated, history>>

Prepare ==
    /\ step = "prepare"
    /\ resumes' = Remembered
    /\ local' = file
    /\ Goto("saveStop")
    /\ UNCHANGED <<file, automatic, service, loaded, task, wanted, updated, history>>

BeginFinish ==
    /\ step = "prepared"
    /\ task' = "finish"
    /\ local' = file
    /\ Goto(IF resumes /\ ~file.revoked THEN "saveRun" ELSE "forget")
    /\ UNCHANGED <<file, automatic, service, loaded, wanted, upgrade, history>>

Forget ==
    /\ step = "forget"
    /\ resumes' = FALSE \/ UNCHANGED resumes
    /\ Goto("idle")
    /\ UNCHANGED <<file, automatic, service, loaded, task, local, wanted, updated, history>>

(* StopSharing: Stop, whose error is ignored, a test that the agent is      *)
(* gone, and Uninstall.                                                    *)
Stop ==
    /\ step = "stop" /\ ~Windows
    /\ \/ /\ job' = Ending
          /\ enabled' = (enabled /\ Launchd)
          /\ Goto(IF Systemd THEN "stopping" ELSE "gone")
       \/ UNCHANGED <<job, enabled>> /\ Goto("gone")
    /\ UNCHANGED <<file, automatic, unit, loaded, task, local, wanted, upgrade, history>>

\* "systemctl disable --now" waits for the job.
Stopping ==
    /\ step = "stopping" /\ ~Windows
    /\ job # "leaving"
    /\ Only(Goto("gone"))

\* share_models goes on with a connection that was stopped before.
AfterStop(ok) ==
    CASE task \in {"pause", "update"} -> IF ok THEN "saveStopped" ELSE "idle"
      [] task = "share"               -> IF ok \/ local.stopped THEN "check" ELSE "idle"
      [] OTHER                        -> "idle"

\* Slip: the answer of the service manager is not looked at.
SeemsGoneAlways == TRUE

\* systemctl: not active, which is true between two restarts and while the job
\* ends; launchctl: no longer there.  A command that fails for another reason
\* than the state of the job is left out.
SeemsGone == IF Systemd THEN job # "on" \/ process = "none" ELSE job = "off"

Gone ==
    /\ step = "gone"
    /\ Only(\/ SeemsGone /\ Goto("uninstall")
            \/ ~SeemsGone /\ Goto(AfterStop(FALSE)))

\* Stop once more, and no unit: systemd does not restart what it has reloaded
\* without one, but it does not end it either.
Uninstall ==
    /\ step = "uninstall"
    /\ enabled' \in {enabled, enabled /\ Launchd}
    /\ job' \in {job, Ending}
    /\ \/ unit' = FALSE /\ (Launchd \/ job' = Ending) /\ Goto(AfterStop(TRUE))
       \/ unit' \in {unit, unit /\ Launchd} /\ Goto(AfterStop(FALSE))
    /\ UNCHANGED <<file, automatic, loaded, task, local, wanted, upgrade, history>>

\* Slip: a reinstallation that failed is rolled back, too.
RestoreAlways(ok) == IF ok THEN "idle" ELSE "restore"

\* After Install.
AfterInstall(ok) ==
    IF ok /\ task = "finish" THEN "forget"
    ELSE IF ok \/ task = "reinstall" THEN "idle" ELSE "restore"

AfterStopTask(ok) == IF step \in {"undo", "undoing"} THEN AfterInstall(FALSE) ELSE AfterStop(ok)

\* Windows: the task is disabled and its process ended, ...
StopTask ==
    /\ Windows /\ step \in {"stop", "undo"}
    /\ \/ ~unit /\ Goto(AfterStopTask(TRUE)) /\ UNCHANGED job
       \/ unit /\ job' = "disabled" /\ Goto(IF step = "stop" THEN "stopping" ELSE "undoing")
       \/ Goto(AfterStopTask(FALSE)) /\ UNCHANGED job
    /\ UNCHANGED <<file, automatic, unit, enabled, loaded, task, local, wanted, upgrade, history>>

\* ... and it is deleted if the process has ended within five seconds.
DeleteTask ==
    /\ Windows /\ step \in {"stopping", "undoing"}
    /\ \/ /\ process = "none"
          /\ unit' = FALSE /\ job' = "off"
          /\ Goto(AfterStopTask(TRUE))
       \/ Goto(AfterStopTask(FALSE)) /\ UNCHANGED <<unit, job>>
    /\ UNCHANGED <<file, automatic, enabled, loaded, task, local, wanted, upgrade, history>>

(* The rest of a pause.                                                    *)

\* Slip: memory counts as released whenever the connection was stopped.
ReleasedIfStopped == local.stopped

AlreadyReleased == local.stopped /\ ~local.release

Stopped == [stopped |-> TRUE, revoked |-> local.revoked, release |-> ~AlreadyReleased]

\* Windows saves it before the task is stopped, too; a pause of the owner cancels the
\* resumption of a connection that an update has stopped.
SaveStop ==
    /\ step = "saveStop"
    /\ \/ /\ file' = Stopped
          /\ resumes' = (resumes /\ task = "update")
          /\ Goto("stop")
       \/ file' \in {file, Stopped} /\ Goto("idle") /\ UNCHANGED resumes
    /\ updated' = (updated \/ (task = "update" /\ ~local.stopped /\ file'.stopped))
    /\ UNCHANGED <<automatic, service, loaded, task, local, wanted, history>>

\* The installer goes on once the memory is released.
AfterPause == IF task = "update" THEN "prepared" ELSE "idle"

SaveStopped ==
    /\ step = "saveStopped"
    /\ \/ /\ file' = Stopped
          /\ Goto(IF AlreadyReleased THEN AfterPause ELSE "unload")
          /\ paused' = (paused \/ task = "pause")
          /\ overlooked' = (overlooked \/ job # "off")
          /\ UNCHANGED leftover
       \/ Goto("idle") /\ UNCHANGED <<file, history>>
    /\ UNCHANGED <<automatic, service, loaded, task, local, wanted, upgrade>>

Unload ==
    /\ step = "unload"
    /\ \/ loaded' = FALSE /\ Goto("saveReleased")
       \/ UNCHANGED loaded /\ Goto("idle")
    /\ UNCHANGED <<file, automatic, service, task, local, wanted, upgrade, history>>

SaveReleased ==
    /\ step = "saveReleased"
    /\ \/ file' = [Stopped EXCEPT !.release = FALSE] /\ Goto(AfterPause)
       \/ UNCHANGED file /\ Goto("idle")
    /\ UNCHANGED <<automatic, service, loaded, task, local, wanted, upgrade, history>>

(* share_models: a failure after StopSharing reinstalls the service of a    *)
(* connection whose copy in memory is not stopped.                         *)
Reinstall ==
    /\ task' = "reinstall"
    /\ Goto("write")
    /\ leftover' = (leftover \/ file'.stopped)

Continue(label) == Goto(label) /\ UNCHANGED <<task, leftover>>

\* CheckModel loads each selected model with keep_alive 0: what it loads is gone when it
\* returns, and with it a shared model that was there before.
Check ==
    /\ step = "check"
    /\ UNCHANGED loaded \/ loaded' = FALSE
    /\ UNCHANGED file
    /\ \/ Continue("saveRun")
       \/ local.stopped /\ Continue("idle")
       \/ ~local.stopped /\ Reinstall
    /\ UNCHANGED <<automatic, service, local, wanted, upgrade, paused, overlooked>>

\* resume saves cfg last; share_models before the service.  _finish-update leaves the
\* memory as it is.
SaveRun ==
    /\ step = "saveRun"
    /\ \/ /\ file' = IF task = "finish" THEN [local EXCEPT !.stopped = FALSE] ELSE Sharing
          /\ Continue(IF task = "share" THEN "saveConfig" ELSE "write")
       \/ UNCHANGED file /\ task # "share" /\ Continue("idle")
       \/ UNCHANGED file /\ task = "share" /\ Reinstall
    /\ UNCHANGED <<automatic, service, loaded, local, wanted, upgrade, paused, overlooked>>

SaveConfig ==
    /\ step = "saveConfig"
    /\ Only(Goto("write") \/ Goto("restore"))

Restore ==
    LET previous == IF task = "finish" THEN [local EXCEPT !.stopped = TRUE] ELSE local IN
    /\ step = "restore"
    /\ file' \in {file, previous}
    /\ IF task = "share" THEN Reinstall
       ELSE /\ Goto("idle")
            /\ leftover' = (leftover \/ (file'.stopped /\ (unit \/ job # "off" \/ loaded)))
            /\ UNCHANGED task
    /\ UNCHANGED <<automatic, service, loaded, local, wanted, upgrade, paused, overlooked>>

(* Install.                                                                *)

Write ==
    /\ step = "write" /\ ~Windows
    /\ \/ unit' = TRUE /\ Goto(IF Systemd THEN "enable" ELSE "evict")
       \/ UNCHANGED unit /\ Goto(AfterInstall(FALSE))
    /\ UNCHANGED <<file, automatic, enabled, job, loaded, task, local, wanted, upgrade, history>>

\* Windows registers the task, which replaces one that is disabled, and runs it; it is
\* stopped again when the task of the interface cannot be registered.
Register ==
    /\ step = "write" /\ Windows
    /\ \/ /\ unit' = TRUE /\ enabled' = automatic
          /\ \/ job' = "on" /\ (Goto(AfterInstall(TRUE)) \/ Goto("undo"))
             \/ job' = (IF job = "on" THEN job ELSE "off") /\ Goto(AfterInstall(FALSE))
       \/ UNCHANGED service /\ Goto(AfterInstall(FALSE))
    /\ UNCHANGED <<file, automatic, loaded, task, local, wanted, upgrade, history>>

\* launchctl bootout, which may return before the job is gone.
Evict ==
    /\ step = "evict"
    /\ job' \in {job, Ending}
    /\ Goto("evicted")
    /\ UNCHANGED <<file, automatic, unit, enabled, loaded, task, local, wanted, upgrade, history>>

Evicted ==
    /\ step = "evicted"
    /\ Only(\/ job = "off" /\ Goto("enable")
            \/ job # "off" /\ Goto(AfterInstall(FALSE)))

Enable ==
    /\ step = "enable"
    /\ \/ enabled' = (automatic \/ Launchd) /\ Goto("start")
       \/ UNCHANGED enabled /\ Goto(AfterInstall(FALSE))
    /\ UNCHANGED <<file, automatic, unit, job, loaded, task, local, wanted, upgrade, history>>

Start ==
    LET overrides == Launchd /\ ~automatic IN
    /\ step = "start"
    /\ job # "leaving"
    /\ \/ /\ unit
          /\ job' = "on"
          /\ Goto(IF overrides THEN "override" ELSE AfterInstall(TRUE))
       \/ /\ UNCHANGED job
          /\ Goto(IF overrides THEN "overrideFailed" ELSE AfterInstall(FALSE))
    /\ UNCHANGED <<file, automatic, unit, enabled, loaded, task, local, wanted, upgrade, history>>

\* The job that was started against the preference is disabled for the next time.
Override ==
    /\ step \in {"override", "overrideFailed"}
    /\ \/ enabled' = FALSE /\ Goto(AfterInstall(step = "override"))
       \/ UNCHANGED enabled /\ Goto("undo")
    /\ UNCHANGED <<file, automatic, unit, job, loaded, task, local, wanted, upgrade, history>>

Undo ==
    /\ step = "undo" /\ ~Windows
    /\ job' \in {job, Ending}
    /\ unit' \in {unit, FALSE}
    /\ Goto(AfterInstall(FALSE))
    /\ UNCHANGED <<file, automatic, enabled, loaded, task, local, wanted, upgrade, history>>

(* The sign-in preference: SetStartup for the jobs that there are, saved    *)
(* only if it succeeds.  A command may change the job and fail.  Windows   *)
(* does not look at the endpoint, and takes nothing back.                  *)
EnableTo(preference) ==
    enabled' = IF unit THEN preference /\ (Windows \/ ~file.stopped) ELSE enabled

SetStartup ==
    /\ step = "setStartup"
    /\ \/ EnableTo(wanted) /\ Goto("savePreference")
       \/ (EnableTo(wanted) \/ UNCHANGED enabled)
          /\ Goto(IF Windows THEN "idle" ELSE "rollback")
    /\ UNCHANGED <<file, automatic, unit, job, loaded, task, local, wanted, upgrade, history>>

SavePreference ==
    /\ step = "savePreference"
    /\ \/ automatic' = wanted /\ Goto("idle")
       \/ UNCHANGED automatic /\ Goto("rollback")
    /\ UNCHANGED <<file, service, loaded, task, local, wanted, upgrade, history>>

Rollback ==
    /\ step = "rollback"
    /\ EnableTo(automatic) \/ UNCHANGED enabled
    /\ Goto("idle")
    /\ UNCHANGED <<file, automatic, unit, job, loaded, task, local, wanted, upgrade, history>>

Helpers ==
    /\ UNCHANGED process
    /\ \/ BeginPause \/ BeginStart \/ BeginStartup \/ BeginUpdate \/ BeginFinish \/ Kill
       \/ Stop \/ Stopping \/ Gone \/ Uninstall \/ StopTask \/ DeleteTask
       \/ Prepare \/ SaveStop \/ SaveStopped \/ Unload \/ SaveReleased
       \/ Check \/ SaveRun \/ SaveConfig \/ Restore \/ Forget
       \/ Write \/ Register \/ Evict \/ Evicted \/ Enable \/ Start \/ Override \/ Undo
       \/ SetStartup \/ SavePreference \/ Rollback

Next == UNCHANGED platform /\ (Outside \/ Helpers)

Spec == Init /\ [][Next]_vars

-----------------------------------------------------------------------------

(* "Explicit Stop must prevent automatic restart": once a pause has saved   *)
(* Stopped, the job is gone and stays gone, whatever is killed, rebooted,  *)
(* retired or set for the next sign-in, until the owner starts it again.   *)
StopIsFinal ==
    paused => /\ job # "on"
              /\ ~unit
              /\ file.stopped

(* The application offers to release memory as long as a paused connection *)
(* has not released it, and a later pause does not skip it: unless the     *)
(* agent's job was overlooked or a start failed after it had served.       *)
MemoryIsTold == paused /\ loaded => file.release \/ overlooked \/ leftover

(* A connection that is saved as stopped is not shared, unless a start that *)
(* failed has left its job behind, or a pause has overlooked its agent; on *)
(* Windows, where Stopped is saved first, unless a stop has not ended.     *)
StoppedDoesNotServe ==
    process = "up" /\ file.stopped => leftover \/ overlooked \/ (Windows /\ ~paused)

(* A connection that an update has stopped is shared again by the update,  *)
(* or by a later one when it was cancelled or failed at any step, unless   *)
(* the owner pauses it or starts it meanwhile.                             *)
UpdateIsResumed == updated /\ file.stopped /\ ~file.revoked => resumes

(* "Do not exit/reconnect in a restart loop": the agent of a revoked        *)
(* connection does not end by itself.                                      *)
RevokedAgentStays == [][Load /\ file.revoked => process' # "none"]_vars

=============================================================================
