----------------------- MODULE SharingLifecycleProofs -----------------------
(***************************************************************************)
(* Proofs about SharingLifecycle: the orders of saves and commands that    *)
(* its properties rest on, on every platform.                              *)
(***************************************************************************)
EXTENDS SharingLifecycle, TLAPS

-----------------------------------------------------------------------------
(* The inductive invariant, in parts.                                      *)

Installing == {"write", "evict", "evicted", "enable", "start", "override", "overrideFailed",
               "undo", "undoing"}

\* Which step belongs to which task, and to which platform.
StepsInv ==
    /\ step \in {"saveStop", "saveStopped", "unload", "saveReleased"} => task \in {"pause", "update"}
    /\ step \in {"prepare", "prepared"} => task = "update"
    /\ step = "forget" => task = "finish"
    /\ step \in {"check", "saveConfig"} => task = "share"
    /\ step \in Installing => task \in {"resume", "share", "reinstall", "finish"}
    /\ step \in {"prepare", "saveStop"} \/ resumes => Windows
    /\ step \in {"gone", "uninstall"} \cup (Installing \ {"write", "undo", "undoing"}) => ~Windows

\* An agent has a job, and on Windows a task, until it retires.
AgentInv ==
    /\ ~Windows /\ job = "off" => process = "none"
    /\ Windows /\ ~unit => job = "off" /\ process \in {"none", "parked"}
    /\ Windows => process \notin {"removing", "ending"}
    /\ process = "saving" => ~loaded

\* A pause saves Stopped when the job is gone, and no start is under way then or later.
StopInv ==
    /\ Launchd /\ step = "uninstall" => job = "off"
    /\ step = "saveStopped" => ~unit /\ job # "on"
    /\ step \in {"unload", "saveReleased"} => file.stopped /\ (Windows => ~unit)
    /\ task = "pause" /\ step \notin {"idle", "saveStop"} => ~resumes
    /\ paused => /\ step # "idle" => task \in {"pause", "startup", "update", "finish"}
                 /\ task = "finish" => step \in {"idle", "forget"}
                 /\ ~resumes

\* Nothing is in memory, nor will be, once the memory of a stopped connection counts as
\* released; nor when a pause is about to count it so, from the copy that it has read.
Excused == overlooked \/ leftover
Quiet == process # "up" /\ ~loaded

MemoryInv == ~Excused =>
    /\ file.stopped /\ ~file.release => Quiet
    /\ step \in {"stop", "stopping", "gone", "uninstall", "saveStop", "saveStopped"} /\ AlreadyReleased
           => file.stopped /\ Quiet
    /\ step = "unload" => process # "up"
    /\ step = "saveReleased" => Quiet

\* What an update has stopped it remembers, in spite of a copy that has become stale.
UpdateInv ==
    /\ file.revoked => file.stopped
    /\ local.revoked => local.stopped
    /\ task \in {"pause", "resume", "share", "reinstall"} /\ step # "idle" => ~updated
    /\ task = "finish" /\ step \notin {"idle", "forget"} => resumes /\ ~local.revoked
    /\ step = "forget" /\ resumes => ~file.stopped \/ file.revoked
    /\ task = "finish" /\ step \in Installing => ~file.stopped \/ file.revoked
    /\ task = "update" /\ step \notin {"idle", "prepare", "prepared"} /\ ~local.revoked
           => (updated \/ ~local.stopped => resumes)

IInv ==
    /\ TypeOK /\ StepsInv /\ AgentInv
    /\ StopInv /\ StopIsFinal
    /\ MemoryInv /\ StoppedDoesNotServe
    /\ UpdateInv /\ UpdateIsResumed

-----------------------------------------------------------------------------
(* Types.                                                                  *)

Flags == {automatic, unit, enabled, loaded, wanted, resumes, updated, paused, overlooked,
          leftover} \subseteq BOOLEAN

Labels ==
    /\ job \in {"off", "on", "leaving", "disabled"}
    /\ process \in {"none", "loading", "up", "revoked", "unloading", "saving",
                    "disabling", "removing", "ending", "parked"}
    /\ task \in {"pause", "resume", "share", "reinstall", "startup", "update", "finish"}
    /\ step \in {"idle", "stop", "stopping", "gone", "uninstall", "saveStopped",
                 "unload", "saveReleased", "check", "saveRun", "saveConfig", "write",
                 "evict", "evicted", "enable", "start", "override", "overrideFailed",
                 "undo", "restore", "setStartup", "savePreference", "rollback",
                 "prepare", "saveStop", "undoing", "prepared", "forget"}
    /\ step \in {"stop", "stopping", "gone", "uninstall"} => task \in {"pause", "share", "update"}
    /\ step \in {"saveRun", "restore"} => task \in {"resume", "share", "finish"}
    /\ step = "write" => task \in {"resume", "share", "reinstall", "finish"}

\* TypeOK in parts.
LEMMA PartsOfTypeOK ==
    /\ TypeOK => Flags /\ Labels /\ file \in Endpoint /\ local \in Endpoint
    /\ Flags' /\ Labels' /\ file' \in Endpoint /\ local' \in Endpoint /\ platform' \in Platforms
           => TypeOK'
  BY DEF TypeOK, Flags, Labels

-----------------------------------------------------------------------------
(* Groups of actions, and what they leave as it is.                        *)

OutsideFrame == UNCHANGED <<platform, automatic, task, local, wanted, upgrade, history>>
HelperFrame == UNCHANGED <<platform, process>>

Machine == Respawn \/ JobEnds \/ ProcessEnds \/ Reboot
Serving == Load \/ Serve \/ Revoke
Retiring == SaveRevoked \/ UnloadRevoked \/ SaveUnloaded
RetiringJob == DisableCurrent \/ RemoveCurrent \/ EndCurrent \/ RetireTask
Beginning == BeginPause \/ BeginStart \/ BeginStartup \/ BeginUpdate \/ Kill
AroundUpdate == Prepare \/ BeginFinish \/ Forget
EndingJob == Stop \/ Stopping \/ Gone \/ Uninstall
EndingTask == StopTask \/ DeleteTask
Pausing == SaveStop \/ SaveStopped \/ Unload \/ SaveReleased
Running == Check \/ SaveRun \/ SaveConfig \/ Restore
InstallingJob == Write \/ Evict \/ Evicted \/ Enable \/ Start \/ Override \/ Undo
Preference == SetStartup \/ SavePreference \/ Rollback

\* Every step is of one of these groups, or the one Register.
LEMMA GroupsOfSteps ==
    ASSUME Next
    PROVE  \/ OutsideFrame /\ (Machine \/ Serving \/ Retiring \/ RetiringJob)
           \/ HelperFrame /\ (\/ Beginning \/ AroundUpdate \/ EndingJob \/ EndingTask
                              \/ Pausing \/ Running \/ InstallingJob \/ Preference
                              \/ Register)
  BY DEF Next, Outside, Helpers, OutsideFrame, HelperFrame, Machine, Serving, Retiring, RetiringJob,
         Beginning, AroundUpdate, EndingJob, EndingTask, Pausing, Running, InstallingJob,
         Preference

\* Every flag is set to a truth value.
LEMMA FlagsStay ==
    ASSUME IInv, Next
    PROVE  Flags'
<1> USE DEF Next, Outside, Helpers, IInv, TypeOK, service, helper, upgrade, history, Agent, Begin, Only,
            Reinstall, Continue, EnableTo, Respawn, JobEnds, ProcessEnds, Reboot, Load,
            Serve, Revoke, SaveRevoked, UnloadRevoked, SaveUnloaded, DisableCurrent,
            RemoveCurrent, EndCurrent, RetireTask, BeginPause, BeginStart, BeginStartup,
            BeginUpdate, Kill, Prepare, BeginFinish, Forget, Stop, Stopping, Gone,
            Uninstall, StopTask, DeleteTask, SaveStop, SaveStopped, Unload, SaveReleased,
            Check, SaveRun, SaveConfig, Restore, Write, Evict, Evicted, Enable, Start,
            Override, Undo, SetStartup, SavePreference, Rollback, Register
<1>1. automatic' \in BOOLEAN
  OBVIOUS
<1>2. unit' \in BOOLEAN
  OBVIOUS
<1>3. enabled' \in BOOLEAN
  OBVIOUS
<1>4. loaded' \in BOOLEAN
  OBVIOUS
<1>5. wanted' \in BOOLEAN
  OBVIOUS
<1>6. resumes' \in BOOLEAN
  <2>1. ASSUME SaveStop \/ Prepare \/ Forget PROVE resumes' \in BOOLEAN
    BY ONLY <2>1, IInv DEF SaveStop, Prepare, Forget, Remembered, IInv, TypeOK
  <2>2. SaveStop \/ Prepare \/ Forget \/ UNCHANGED resumes
    OBVIOUS
  <2> QED
    BY ONLY <2>1, <2>2, IInv DEF IInv, TypeOK
<1>7. updated' \in BOOLEAN
  OBVIOUS
<1>8. paused' \in BOOLEAN
  OBVIOUS
<1>9. overlooked' \in BOOLEAN
  OBVIOUS
<1>10. leftover' \in BOOLEAN
  OBVIOUS
<1> QED
  BY ONLY <1>1, <1>2, <1>3, <1>4, <1>5, <1>6, <1>7, <1>8, <1>9, <1>10 DEF Flags

\* What is saved, and what a helper has read, is an endpoint.
LEMMA EndpointsStay ==
    ASSUME IInv, Next
    PROVE  file' \in Endpoint /\ local' \in Endpoint
<1>1. file \in Endpoint /\ local \in Endpoint
  BY DEF IInv, TypeOK
<1>2. local' \in Endpoint
  <2>1. local' \in {file, local}
    BY DEF Next, Outside, Helpers, Only, helper, Begin, BeginPause, BeginStart, BeginStartup, BeginUpdate,
           Kill, Prepare, BeginFinish, Forget, Stop, Stopping, Gone, Uninstall, StopTask, DeleteTask,
           SaveStop, SaveStopped, Unload, SaveReleased, Check, SaveRun, SaveConfig, Restore, Write, Evict,
           Evicted, Enable, Start, Override, Undo, SetStartup, SavePreference, Rollback, Register
  <2> QED
    BY <1>1, <2>1
<1>3. file' \in Endpoint
  <2>1. Sharing \in Endpoint /\ Retired \in Endpoint /\ Stopped \in Endpoint
    BY <1>1 DEF Endpoint, Sharing, Retired, Stopped, AlreadyReleased
  <2>2. \A e \in Endpoint, b \in BOOLEAN : /\ [e EXCEPT !.stopped = b] \in Endpoint
                                           /\ [e EXCEPT !.release = b] \in Endpoint
    BY DEF Endpoint
  <2>3. \/ UNCHANGED file
        \/ SaveRevoked \/ SaveUnloaded \/ SaveStop \/ SaveStopped \/ SaveReleased \/ SaveRun \/ Restore
    BY DEF Next, Outside, Helpers, Only, Agent, Respawn, JobEnds, ProcessEnds, Reboot, Load, Serve, Revoke,
           UnloadRevoked, DisableCurrent, RemoveCurrent, EndCurrent, RetireTask, Begin, BeginPause,
           BeginStart, BeginStartup, BeginUpdate, Kill, Prepare, BeginFinish, Forget, Stop, Stopping, Gone,
           Uninstall, StopTask, DeleteTask, Unload, Check, SaveConfig, Write, Evict, Evicted, Enable, Start,
           Override, Undo, SetStartup, SavePreference, Rollback, Register
  <2>4. file' \in {file, local, Sharing, Retired, Stopped, [Retired EXCEPT !.release = FALSE],
                   [Stopped EXCEPT !.release = FALSE], [local EXCEPT !.stopped = FALSE],
                   [local EXCEPT !.stopped = TRUE]}
    <3>1. ASSUME SaveRevoked \/ SaveUnloaded
          PROVE  file' \in {file, Retired, [Retired EXCEPT !.release = FALSE]}
      BY ONLY <3>1 DEF SaveRevoked, SaveUnloaded
    <3>2. ASSUME SaveStop \/ SaveStopped \/ SaveReleased
          PROVE  file' \in {file, Stopped, [Stopped EXCEPT !.release = FALSE]}
      BY ONLY <3>2 DEF SaveStop, SaveStopped, SaveReleased
    <3>3. ASSUME SaveRun
          PROVE  file' \in {file, Sharing, [local EXCEPT !.stopped = FALSE]}
      BY ONLY <3>3 DEF SaveRun
    <3>4. ASSUME Restore
          PROVE  file' \in {file, local, [local EXCEPT !.stopped = TRUE]}
      BY ONLY <3>4 DEF Restore
    <3> QED
      BY ONLY <2>3, <3>1, <3>2, <3>3, <3>4
  <2> QED
    BY <1>1, <2>1, <2>2, <2>4
<1> QED
  BY <1>2, <1>3

-----------------------------------------------------------------------------
(* The steps keep the invariant.                                           *)

Safe == StepsInv /\ AgentInv /\ StopInv /\ StopIsFinal /\ MemoryInv /\ StoppedDoesNotServe
        /\ UpdateInv /\ UpdateIsResumed

\* The service manager's restarts, ends of jobs and processes, and reboots.
LEMMA MachineKeeps ==
    ASSUME IInv, OutsideFrame, Machine
    PROVE  Labels' /\ Safe'
<1> USE DEF IInv, TypeOK, OutsideFrame, Machine, Respawn, JobEnds, ProcessEnds, Reboot, Ending,
            Launchd, Windows, service, upgrade, history
<1>1. Labels'
  BY DEF Labels
<1>2. StepsInv' /\ AgentInv'
  BY DEF StepsInv, AgentInv, Installing
<1>3. StopInv' /\ StopIsFinal'
  BY DEF StopInv, StopIsFinal
<1>4. MemoryInv' /\ StoppedDoesNotServe'
  BY DEF MemoryInv, Excused, Quiet, AlreadyReleased, StoppedDoesNotServe
<1>5. UpdateInv' /\ UpdateIsResumed'
  BY DEF UpdateInv, UpdateIsResumed, Installing
<1> QED
  BY <1>1, <1>2, <1>3, <1>4, <1>5 DEF Safe

\* The agent, until its connection is revoked.
LEMMA ServingKeeps ==
    ASSUME IInv, OutsideFrame, Serving
    PROVE  Labels' /\ Safe'
<1> USE DEF IInv, TypeOK, OutsideFrame, Serving, Load, Serve, Revoke, Agent, Serves, Launchd,
            Windows, service, upgrade, history
<1>1. Labels'
  BY DEF Labels
<1>2. StepsInv' /\ AgentInv'
  BY DEF StepsInv, AgentInv
<1>3. StopInv' /\ StopIsFinal'
  BY DEF StopInv, StopIsFinal
<1>4. MemoryInv' /\ StoppedDoesNotServe'
  BY DEF MemoryInv, Excused, Quiet, AlreadyReleased, StoppedDoesNotServe, StopInv
<1>5. UpdateInv' /\ UpdateIsResumed'
  BY DEF UpdateInv, UpdateIsResumed
<1> QED
  BY <1>1, <1>2, <1>3, <1>4, <1>5 DEF Safe

\* What a revoked agent saves and unloads.
LEMMA RetiringKeeps ==
    ASSUME IInv, OutsideFrame, Retiring
    PROVE  Labels' /\ Safe'
<1> USE DEF IInv, TypeOK, OutsideFrame, Retiring, SaveRevoked, UnloadRevoked, SaveUnloaded, Agent,
            Retired, Launchd, Windows, service, upgrade, history
<1>1. Labels'
  BY DEF Labels
<1>2. StepsInv' /\ AgentInv'
  BY DEF StepsInv, AgentInv
<1>3. StopInv' /\ StopIsFinal'
  BY DEF StopInv, StopIsFinal
<1>4. MemoryInv' /\ StoppedDoesNotServe'
  BY DEF MemoryInv, Excused, Quiet, AlreadyReleased, StoppedDoesNotServe, AgentInv
<1>5. UpdateInv' /\ UpdateIsResumed'
  BY DEF UpdateInv, UpdateIsResumed
<1> QED
  BY <1>1, <1>2, <1>3, <1>4, <1>5 DEF Safe

\* What a revoked agent does to its job.
LEMMA RetiringJobKeeps ==
    ASSUME IInv, OutsideFrame, RetiringJob
    PROVE  Labels' /\ Safe'
<1> USE DEF IInv, TypeOK, OutsideFrame, RetiringJob, DisableCurrent, RemoveCurrent, EndCurrent,
            RetireTask, Agent, Ending, Systemd, Launchd, Windows, upgrade, history
<1>1. Labels'
  BY DEF Labels
<1>2. StepsInv' /\ AgentInv'
  BY DEF StepsInv, AgentInv
<1>3. StopInv' /\ StopIsFinal'
  BY DEF StopInv, StopIsFinal
<1>4. MemoryInv' /\ StoppedDoesNotServe'
  BY DEF MemoryInv, Excused, Quiet, AlreadyReleased, StoppedDoesNotServe
<1>5. UpdateInv' /\ UpdateIsResumed'
  BY DEF UpdateInv, UpdateIsResumed
<1> QED
  BY <1>1, <1>2, <1>3, <1>4, <1>5 DEF Safe

\* A helper begins or is killed.
LEMMA BeginningKeeps ==
    ASSUME IInv, HelperFrame, Beginning
    PROVE  Labels' /\ Safe'
<1> USE DEF IInv, TypeOK, HelperFrame, Beginning, BeginPause, BeginStart, BeginStartup, BeginUpdate,
            Kill, Begin, Only, Goto, Windows, service, upgrade, history
<1>1. Labels'
  BY DEF Labels
<1>2. StepsInv' /\ AgentInv'
  BY DEF StepsInv, AgentInv, Installing
<1>3. StopInv' /\ StopIsFinal'
  BY DEF StopInv, StopIsFinal, StepsInv
<1>4. MemoryInv' /\ StoppedDoesNotServe'
  BY DEF MemoryInv, Excused, Quiet, AlreadyReleased, StoppedDoesNotServe
<1>5. UpdateInv' /\ UpdateIsResumed'
  BY DEF UpdateInv, UpdateIsResumed, Installing
<1> QED
  BY <1>1, <1>2, <1>3, <1>4, <1>5 DEF Safe

\* What a Windows update does before and after it stops a connection.
LEMMA AroundUpdateKeeps ==
    ASSUME IInv, HelperFrame, AroundUpdate
    PROVE  Labels' /\ Safe'
<1> USE DEF IInv, TypeOK, HelperFrame, AroundUpdate, Prepare, BeginFinish, Forget, Remembered, Goto,
            Windows, service, upgrade, history
<1>1. Labels'
  BY DEF Labels
<1>2. StepsInv' /\ AgentInv'
  BY DEF StepsInv, AgentInv, Installing
<1>3. StopInv' /\ StopIsFinal'
  BY DEF StopInv, StopIsFinal
<1>4. MemoryInv' /\ StoppedDoesNotServe'
  BY DEF MemoryInv, Excused, Quiet, AlreadyReleased, StoppedDoesNotServe
<1>5. UpdateInv' /\ UpdateIsResumed'
  <2>1. CASE Prepare
    BY ONLY IInv, HelperFrame, <2>1 DEF UpdateInv, UpdateIsResumed, StepsInv
  <2>2. CASE BeginFinish
    BY ONLY IInv, HelperFrame, <2>2 DEF UpdateInv, UpdateIsResumed, Installing
  <2>3. CASE Forget
    BY ONLY IInv, HelperFrame, <2>3 DEF UpdateInv, UpdateIsResumed, Installing
  <2> QED
    BY <2>1, <2>2, <2>3
<1> QED
  BY <1>1, <1>2, <1>3, <1>4, <1>5 DEF Safe

\* StopSharing on systemd and launchd.
LEMMA EndingJobKeeps ==
    ASSUME IInv, HelperFrame, EndingJob
    PROVE  Labels' /\ Safe'
<1> USE DEF IInv, TypeOK, HelperFrame, EndingJob, Stop, Stopping, Gone, Uninstall, Ending, Only,
            Goto, SeemsGone, AfterStop, Systemd, Launchd, Windows, service, upgrade, history
<1>1. Labels'
  BY DEF Labels
<1>2. StepsInv' /\ AgentInv'
  BY DEF StepsInv, AgentInv, Installing
<1>3. StopInv' /\ StopIsFinal'
  BY DEF StopInv, StopIsFinal
<1>4. MemoryInv' /\ StoppedDoesNotServe'
  BY DEF MemoryInv, Excused, Quiet, AlreadyReleased, StoppedDoesNotServe
<1>5. UpdateInv' /\ UpdateIsResumed'
  BY DEF UpdateInv, UpdateIsResumed
<1> QED
  BY <1>1, <1>2, <1>3, <1>4, <1>5 DEF Safe

\* StopSharing on Windows, where a failed start ends its task in the same way.
LEMMA EndingTaskKeeps ==
    ASSUME IInv, HelperFrame, EndingTask
    PROVE  Labels' /\ Safe'
<1> USE DEF IInv, TypeOK, HelperFrame, EndingTask, StopTask, DeleteTask, Goto, AfterStopTask,
            AfterInstall, AfterStop, Windows, upgrade, history
<1>1. Labels'
  BY DEF Labels, Installing, StepsInv
<1>2. StepsInv' /\ AgentInv'
  BY DEF StepsInv, AgentInv, Installing
<1>3. StopInv' /\ StopIsFinal'
  BY DEF StopInv, StopIsFinal, AgentInv
<1>4. MemoryInv' /\ StoppedDoesNotServe'
  BY DEF MemoryInv, Excused, Quiet, AlreadyReleased, StoppedDoesNotServe
<1>5. UpdateInv' /\ UpdateIsResumed'
  BY DEF UpdateInv, UpdateIsResumed, Installing
<1> QED
  BY <1>1, <1>2, <1>3, <1>4, <1>5 DEF Safe

\* The saves of a pause.
LEMMA PausingKeeps ==
    ASSUME IInv, HelperFrame, Pausing
    PROVE  Labels' /\ Safe'
<1> USE DEF IInv, TypeOK, HelperFrame, Pausing, AfterPause, Goto, Windows, service, upgrade, history
<1>1. Labels'
  BY DEF Labels, StepsInv, SaveStop, SaveStopped, Unload, SaveReleased
<1>2. StepsInv' /\ AgentInv'
  BY DEF StepsInv, AgentInv, Installing, SaveStop, SaveStopped, Unload, SaveReleased
<1>3. StopInv' /\ StopIsFinal'
  BY DEF StopInv, StopIsFinal, SaveStop, SaveStopped, Unload, SaveReleased, Stopped
<1>4. MemoryInv' /\ StoppedDoesNotServe'
  <2>1. CASE SaveStop
    BY <2>1 DEF SaveStop, Stopped, MemoryInv, Excused, Quiet, AlreadyReleased, StoppedDoesNotServe,
                StepsInv, StopIsFinal, AgentInv
  <2>2. CASE SaveStopped
    <3>1. CASE UNCHANGED <<file, history>> /\ step' = "idle"
      BY <2>2, <3>1 DEF SaveStopped, MemoryInv, Excused, Quiet, StoppedDoesNotServe
    <3>2. CASE /\ file' = Stopped /\ step' = (IF AlreadyReleased THEN AfterPause ELSE "unload")
               /\ overlooked' = (overlooked \/ job # "off") /\ (paused => paused') /\ UNCHANGED leftover
      <4>1. file'.stopped = TRUE /\ file'.release = ~AlreadyReleased
        BY <3>2 DEF Stopped
      <4>2. /\ step = "saveStopped" /\ step' \in {"idle", "prepared", "unload"}
            /\ UNCHANGED <<platform, process, loaded>>
        BY <2>2, <3>2 DEF SaveStopped
      <4>3. overlooked' \/ process # "up"
        BY <2>2, <3>2 DEF SaveStopped, StopInv, AgentInv
      <4>4. AlreadyReleased => overlooked' \/ leftover' \/ Quiet
        BY <3>2, <4>2 DEF MemoryInv, Excused
      <4> QED
        BY <3>2, <4>1, <4>2, <4>3, <4>4 DEF MemoryInv, Excused, Quiet, StoppedDoesNotServe
    <3> QED
      BY <2>2, <3>1, <3>2 DEF SaveStopped
  <2>3. CASE Unload
    BY <2>3 DEF Unload, MemoryInv, Excused, Quiet, StoppedDoesNotServe
  <2>4. CASE SaveReleased
    BY <2>4 DEF SaveReleased, MemoryInv, Excused, Quiet, StoppedDoesNotServe
  <2> QED
    BY <2>1, <2>2, <2>3, <2>4
<1>5. UpdateInv' /\ UpdateIsResumed'
  BY DEF UpdateInv, UpdateIsResumed, StepsInv, SaveStop, SaveStopped, Unload, SaveReleased, Stopped
<1> QED
  BY <1>1, <1>2, <1>3, <1>4, <1>5 DEF Safe

\* The saves of a start, and what a failed one takes back.
LEMMA RunningKeeps ==
    ASSUME IInv, HelperFrame, Running
    PROVE  Labels' /\ Safe'
<1> USE DEF IInv, TypeOK, HelperFrame, Running, Only, Goto, Reinstall, Continue, Windows, service,
            upgrade, history
<1>1. Labels'
  BY DEF Labels, StepsInv, Check, SaveRun, SaveConfig, Restore
<1>2. StepsInv' /\ AgentInv'
  BY DEF StepsInv, AgentInv, Installing, Check, SaveRun, SaveConfig, Restore
<1>3. StopInv' /\ StopIsFinal'
  BY DEF StopInv, StopIsFinal, StepsInv, Check, SaveRun, SaveConfig, Restore
<1>4. CASE Check \/ SaveConfig
  <2>1. MemoryInv' /\ StoppedDoesNotServe'
    BY <1>4 DEF Check, SaveConfig, MemoryInv, Excused, Quiet, StoppedDoesNotServe
  <2>2. UpdateInv' /\ UpdateIsResumed'
    BY <1>4 DEF Check, SaveConfig, UpdateInv, UpdateIsResumed, StepsInv
  <2> QED
    BY <1>1, <1>2, <1>3, <2>1, <2>2 DEF Safe
<1>5. CASE SaveRun
  <2> DEFINE Runs  == /\ file'.stopped = FALSE /\ file'.revoked = (task = "finish" /\ local.revoked)
                      /\ step' \in {"saveConfig", "write"} /\ UNCHANGED <<task, leftover>>
             Fails == \/ UNCHANGED <<file, task, leftover>> /\ step' = "idle"
                      \/ UNCHANGED file /\ task = "share" /\ Reinstall
  <2>1. Runs \/ Fails
    <3>1. LET run == IF task = "finish" THEN [local EXCEPT !.stopped = FALSE] ELSE Sharing
          IN  run.stopped = FALSE /\ run.revoked = (task = "finish" /\ local.revoked)
      BY DEF Endpoint, Sharing
    <3> QED
      BY <1>5, <3>1 DEF SaveRun
  <2>2. /\ step = "saveRun" /\ task \in {"resume", "share", "finish"}
        /\ UNCHANGED <<platform, process, loaded, local, upgrade, paused, overlooked>>
    BY <1>5 DEF SaveRun
  <2>3. MemoryInv' /\ StoppedDoesNotServe'
    BY ONLY IInv, <2>1, <2>2 DEF MemoryInv, Excused, Quiet, StoppedDoesNotServe
  <2>4. UpdateInv' /\ UpdateIsResumed'
    BY ONLY IInv, <2>1, <2>2 DEF UpdateInv, UpdateIsResumed, Installing
  <2> QED
    BY <1>1, <1>2, <1>3, <2>3, <2>4 DEF Safe
<1>6. CASE Restore
  <2>1. \/ UNCHANGED file
        \/ task # "finish" /\ file' = local
        \/ task = "finish" /\ file'.revoked = local.revoked /\ file'.stopped
    BY <1>6 DEF Restore, Endpoint
  <2>2. MemoryInv' /\ StoppedDoesNotServe'
    BY <1>6 DEF Restore, MemoryInv, Excused, Quiet, StoppedDoesNotServe, AgentInv
  <2>3. UpdateInv' /\ UpdateIsResumed'
    BY <1>6, <2>1 DEF Restore, UpdateInv, UpdateIsResumed, Installing
  <2> QED
    BY <1>1, <1>2, <1>3, <2>2, <2>3 DEF Safe
<1> QED
  BY <1>4, <1>5, <1>6

\* Install on systemd and launchd.
LEMMA InstallingJobKeeps ==
    ASSUME IInv, HelperFrame, InstallingJob
    PROVE  Labels' /\ Safe'
<1> DEFINE Rest == {"evict", "evicted", "enable", "start", "override", "overrideFailed", "undo"}
           Steps == /\ UNCHANGED <<file, automatic, loaded, task, local, wanted, upgrade, history>>
                    /\ step \in Rest \cup {"write"} /\ step' \in Rest \cup {"idle", "restore", "forget"}
                    /\ step' = "restore" => task # "reinstall"
                    /\ step' = "forget" => task = "finish"
           Jobs == job' \in {job, "on", "leaving"} /\ (job' = "on" \/ job' = job \/ job # "off")
<1> USE DEF Goto, Only, AfterInstall
<1>1. ~Windows
  BY DEF InstallingJob, Write, Undo, Evict, Evicted, Enable, Start, Override, IInv, StepsInv,
         Installing
<1>2. ASSUME Write \/ Undo PROVE Steps /\ Jobs
  BY <1>2 DEF Write, Undo, Ending
<1>3. ASSUME Evict \/ Evicted PROVE Steps /\ Jobs
  BY <1>3 DEF Evict, Evicted, Ending, service
<1>4. ASSUME Enable \/ Override PROVE Steps /\ Jobs
  BY <1>4 DEF Enable, Override
<1>5. ASSUME Start PROVE Steps /\ Jobs
  BY <1>5 DEF Start
<1>6. Steps /\ Jobs
  BY <1>2, <1>3, <1>4, <1>5 DEF InstallingJob
<1>7. UNCHANGED <<platform, process>> /\ task \in {"resume", "share", "reinstall", "finish"}
  BY <1>6 DEF HelperFrame, IInv, StepsInv, Installing
<1>8. Labels'
  BY <1>6, <1>7 DEF Labels, IInv, TypeOK
<1>9. StepsInv' /\ AgentInv'
  BY <1>1, <1>6, <1>7 DEF StepsInv, AgentInv, IInv, Windows, upgrade
<1>10. StopInv' /\ StopIsFinal'
  BY <1>1, <1>6, <1>7 DEF StopInv, StopIsFinal, IInv, history
<1>11. MemoryInv' /\ StoppedDoesNotServe'
  BY <1>1, <1>6, <1>7 DEF MemoryInv, Excused, Quiet, StoppedDoesNotServe, IInv, history
<1>12. UpdateInv' /\ UpdateIsResumed'
  BY <1>6, <1>7 DEF UpdateInv, UpdateIsResumed, Installing, IInv, upgrade
<1> QED
  BY <1>8, <1>9, <1>10, <1>11, <1>12 DEF Safe

\* The sign-in preference.
LEMMA PreferenceKeeps ==
    ASSUME IInv, HelperFrame, Preference
    PROVE  Labels' /\ Safe'
<1> USE DEF IInv, TypeOK, HelperFrame, Preference, SetStartup, SavePreference, Rollback, EnableTo,
            Goto, Windows, service, upgrade, history
<1>1. Labels'
  BY DEF Labels
<1>2. StepsInv' /\ AgentInv'
  BY DEF StepsInv, AgentInv, Installing
<1>3. StopInv' /\ StopIsFinal'
  BY DEF StopInv, StopIsFinal
<1>4. MemoryInv' /\ StoppedDoesNotServe'
  BY DEF MemoryInv, Excused, Quiet, StoppedDoesNotServe
<1>5. UpdateInv' /\ UpdateIsResumed'
  BY DEF UpdateInv, UpdateIsResumed, Installing
<1> QED
  BY <1>1, <1>2, <1>3, <1>4, <1>5 DEF Safe

\* Install on Windows.
LEMMA RegisteringKeeps ==
    ASSUME IInv, HelperFrame, Register
    PROVE  Labels' /\ Safe'
<1> USE DEF IInv, TypeOK, HelperFrame, Register, Goto, AfterInstall, Windows, service, upgrade,
            history
<1>1. Labels'
  BY DEF Labels
<1>2. StepsInv' /\ AgentInv'
  BY DEF StepsInv, AgentInv, Installing
<1>3. StopInv' /\ StopIsFinal'
  BY DEF StopInv, StopIsFinal
<1>4. MemoryInv' /\ StoppedDoesNotServe'
  BY DEF MemoryInv, Excused, Quiet, StoppedDoesNotServe
<1>5. UpdateInv' /\ UpdateIsResumed'
  BY DEF UpdateInv, UpdateIsResumed, Installing
<1> QED
  BY <1>1, <1>2, <1>3, <1>4, <1>5 DEF Safe

-----------------------------------------------------------------------------
(* The theorems.                                                           *)

\* A connection that was created.
LEMMA InitIInv == Init => IInv
<1> SUFFICES ASSUME Init PROVE IInv
  OBVIOUS
<1>1. file = Sharing /\ local = Sharing /\ Sharing \in Endpoint
  BY DEF Init, Sharing, Endpoint
<1>2. TypeOK
  BY <1>1 DEF Init, TypeOK
<1>3. StepsInv /\ AgentInv /\ StopInv /\ StopIsFinal
  BY DEF Init, StepsInv, AgentInv, StopInv, StopIsFinal, Installing, Windows
<1>4. MemoryInv /\ StoppedDoesNotServe
  BY <1>1 DEF Init, Sharing, MemoryInv, Quiet, StoppedDoesNotServe
<1>5. UpdateInv /\ UpdateIsResumed
  BY <1>1 DEF Init, Sharing, UpdateInv, UpdateIsResumed
<1> QED
  BY <1>2, <1>3, <1>4, <1>5 DEF IInv

\* Every step, or none, keeps the invariant.
LEMMA StepKeepsIInv ==
    ASSUME IInv, [Next]_vars
    PROVE  IInv'
<1>1. CASE Next
  <2>1. Labels' /\ Safe'
    BY <1>1, GroupsOfSteps, MachineKeeps, ServingKeeps, RetiringKeeps, RetiringJobKeeps, BeginningKeeps,
       AroundUpdateKeeps, EndingJobKeeps, EndingTaskKeeps, PausingKeeps, RunningKeeps,
       InstallingJobKeeps, PreferenceKeeps, RegisteringKeeps
  <2>2. platform' \in Platforms
    BY <1>1 DEF Next, IInv, TypeOK
  <2> QED
    BY <1>1, <2>1, <2>2, FlagsStay, EndpointsStay, PartsOfTypeOK DEF IInv, Safe
<1>2. CASE UNCHANGED vars
  BY <1>2 DEF vars, service, helper, upgrade, history, IInv, TypeOK, StepsInv, AgentInv, StopInv,
         StopIsFinal, MemoryInv, Excused, Quiet, AlreadyReleased, StoppedDoesNotServe, UpdateInv,
         UpdateIsResumed, Installing, Systemd, Launchd, Windows
<1> QED
  BY <1>1, <1>2

\* The invariant holds, on every platform.
THEOREM Inductive == Spec => []IInv
  BY InitIInv, StepKeepsIInv, PTL DEF Spec

\* Every step of a helper, of its installer and of the agent leaves a state of the types.
THEOREM TypeCorrect == Spec => []TypeOK
<1>1. IInv => TypeOK
  BY DEF IInv
<1> QED
  BY <1>1, Inductive, PTL

\* "Explicit Stop must prevent automatic restart" (service.go: Stop): after a pause, no
\* job runs again until the owner starts the connection.
THEOREM StopFinal == Spec => []StopIsFinal
<1>1. IInv => StopIsFinal
  BY DEF IInv
<1> QED
  BY <1>1, Inductive, PTL

\* Models that may be in memory after a pause are told of by the saved endpoint, which
\* the offer of the application and a later pause go by.
THEOREM MemoryTold == Spec => []MemoryIsTold
<1>1. IInv => MemoryIsTold
  BY DEF IInv, StopIsFinal, MemoryInv, Excused, Quiet, MemoryIsTold
<1> QED
  BY <1>1, Inductive, PTL

\* The agent of a connection that is saved as stopped does not serve.
THEOREM StoppedNotServed == Spec => []StoppedDoesNotServe
<1>1. IInv => StoppedDoesNotServe
  BY DEF IInv
<1> QED
  BY <1>1, Inductive, PTL

\* What a Windows update has stopped it starts again, however often it is cancelled.
THEOREM UpdateResumed == Spec => []UpdateIsResumed
<1>1. IInv => UpdateIsResumed
  BY DEF IInv
<1> QED
  BY <1>1, Inductive, PTL

=============================================================================
