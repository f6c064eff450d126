--------------------------- MODULE FlatpakSession ---------------------------
(***************************************************************************)
(* internal/flatpak/session_unix.go: the session that owns the bus name    *)
(* and supervises the agents of a Flatpak installation, here for one       *)
(* connection.  Its D-Bus methods run as goroutines (handlers), each       *)
(* worker has a goroutine that restarts its agent process, and a new       *)
(* session takes over from the old one after an update.  The helpers that  *)
(* pause and resume the connection, the agent process and the saved        *)
(* endpoint are there as far as the session depends on them.               *)
(***************************************************************************)
EXTENDS Naturals, FiniteSets

CONSTANTS
    Sessions,       \* processes of Run
    Pausers,        \* helper processes that pause the connection
    Resumers,       \* helper processes that resume it
    Workers,        \* workers, used again when they are over
    NoWorker,
    Nobody

Callers == Pausers \cup Resumers
Handlers == Callers \cup Sessions   \* Run's own goroutine handles like a call

ASSUME NamesAssumption ==
    /\ Callers \cap Sessions = {}
    /\ NoWorker \notin Workers
    /\ Nobody \notin Handlers
    /\ IsFiniteSet(Callers)

VARIABLES
    file,       \* the saved endpoint, as savedEndpoint judges it
    phase,      \* where Run is, for each session
    mutex,      \* s.mu
    closing,    \* s.closing
    shutdown,   \* s.shutdown is closed
    gui,        \* s.gui is running
    pending,    \* s.pending
    agents,     \* s.agents[slug]
    retire,     \* a Retire call waits for the lock
    update,     \* a newer build has prepared its update
    worker,     \* where a worker's goroutine is
    home,       \* the session of a worker
    cancelled,  \* its context is cancelled
    process,    \* its agent process
    handler,    \* where a D-Bus method is
    at,         \* the session it runs in
    helper,     \* where a helper is
    local,      \* the saved endpoint as a helper read it
    ownerStopped \* history: a pause succeeded, and no resume began since

session == <<phase, mutex, closing, shutdown, gui, pending, agents, retire, update>>
supervised == <<worker, home, cancelled, process>>
calls == <<handler, at>>
helpers == <<helper, local, ownerStopped>>
vars == <<file, session, supervised, calls, helpers>>

\* RequestName succeeded and the connection is not closed yet.
Owner(s) == phase[s] \in {"starting", "serving", "leaving", "closing", "closed"}

TypeOK ==
    /\ file \in {"run", "stopped", "revoked"}
    /\ phase \in [Sessions -> {"none", "starting", "serving", "leaving",
                               "closing", "closed", "released"}]
    /\ mutex \in [Sessions -> Handlers \cup {Nobody}]
    /\ closing \in [Sessions -> BOOLEAN]
    /\ shutdown \in [Sessions -> BOOLEAN]
    /\ gui \in [Sessions -> BOOLEAN]
    /\ pending \in [Sessions -> 0 .. 2 + Cardinality(Callers)]
    /\ agents \in [Sessions -> Workers \cup {NoWorker}]
    /\ retire \in [Sessions -> BOOLEAN]
    /\ update \in BOOLEAN
    /\ worker \in [Workers -> {"free", "watching", "stopping", "backoff",
                               "checking", "done"}]
    /\ home \in [Workers -> Sessions]
    /\ cancelled \in [Workers -> BOOLEAN]
    /\ process \in [Workers -> {"none", "loading", "up", "revoked", "retiring",
                                "parked"}]
    /\ handler \in [Handlers -> {"idle", "look", "enter", "permission", "read",
                                 "lock", "replacing", "launching", "return",
                                 "fail", "finish", "stopLock", "stopping"}]
    /\ at \in [Handlers -> Sessions]
    /\ helper \in [Callers -> {"idle", "stop", "stopCalling", "saveStopped",
                               "saveRun", "start", "startCalling", "restore"}]
    /\ local \in [Callers -> {"run", "stopped", "revoked"}]
    /\ ownerStopped \in BOOLEAN

Init ==
    /\ file \in {"run", "stopped"}
    /\ phase = [s \in Sessions |-> "none"]
    /\ mutex = [s \in Sessions |-> Nobody]
    /\ closing = [s \in Sessions |-> FALSE]
    /\ shutdown = [s \in Sessions |-> FALSE]
    /\ gui = [s \in Sessions |-> FALSE]
    /\ pending = [s \in Sessions |-> 0]
    /\ agents = [s \in Sessions |-> NoWorker]
    /\ retire = [s \in Sessions |-> FALSE]
    /\ update = FALSE
    /\ worker = [w \in Workers |-> "free"]
    /\ home \in {[w \in Workers |-> s] : s \in Sessions}
    /\ cancelled = [w \in Workers |-> FALSE]
    /\ process = [w \in Workers |-> "none"]
    /\ handler = [h \in Handlers |-> "idle"]
    /\ at \in {[h \in Handlers |-> s] : s \in Sessions}
    /\ helper = [c \in Callers |-> "idle"]
    /\ local = [c \in Callers |-> "run"]
    /\ ownerStopped = FALSE

-----------------------------------------------------------------------------
(* The D-Bus methods Start and Stop, and Run's goroutine.                  *)

Goto(h, label) == handler' = [handler EXCEPT ![h] = label]

\* The reply of a method, for the helper if it still waits for it.
Reply(h, ok) ==
    helper' = [c \in Callers |->
                   IF c # h THEN helper[c]
                   ELSE CASE helper[c] = "stopCalling"  -> IF ok THEN "saveStopped" ELSE "idle"
                          [] helper[c] = "startCalling" -> IF ok THEN "idle" ELSE "restore"
                          [] OTHER                      -> helper[c]]

\* s.mu can be taken for a critical section: neither a handler nor close has it.
Free(s) == mutex[s] = Nobody /\ phase[s] # "closing"

\* Slip: a return without the unlock.
StayLocked(s) == UNCHANGED mutex

Unlock(s) == mutex' = [mutex EXCEPT ![s] = Nobody]

\* Slip: a worker that was told to stop counts as over.
OverAtOnce(w) == worker[w] = "done" \/ cancelled[w]

\* <-w.done
Over(w) == worker[w] = "done"

\* Slip: the worker is not told.
CancelNothing(s) == UNCHANGED cancelled

\* w.cancel() for the worker in s.agents; one that is over does not notice.
Cancel(s) ==
    cancelled' = [w \in Workers |-> cancelled[w] \/ (w = agents[s] /\ ~Over(w))]

\* A worker that is over is deleted from s.agents.
Forget(s) ==
    /\ agents' = [agents EXCEPT ![s] = NoWorker]
    /\ worker' = [w \in Workers |-> IF w = agents[s] THEN "free" ELSE worker[w]]

\* Run's goroutine calls Start only for a connection that may run.
Look(s) ==
    /\ handler[s] = "look"
    /\ Goto(s, IF file = "run" THEN "enter" ELSE "finish")
    /\ UNCHANGED <<file, session, supervised, at, helpers>>

\* Slip: work is counted off that was not counted.
AnnounceNothing(s) == UNCHANGED pending

\* s.pending++
Announce(s) == pending' = [pending EXCEPT ![s] = @ + 1]

(* Start announces itself, unless an update has begun.                     *)
Enter(h) ==
    /\ handler[h] = "enter"
    /\ Free(at[h])
    /\ IF closing[at[h]]
       THEN /\ Goto(h, IF h \in Sessions THEN "finish" ELSE "idle")
            /\ Reply(h, FALSE)
            /\ UNCHANGED pending
       ELSE /\ Goto(h, "permission")
            /\ Announce(at[h])
            /\ UNCHANGED helper
    /\ UNCHANGED <<file, update, phase, mutex, closing, shutdown, gui, agents, retire,
                   supervised, at, local, ownerStopped>>

\* The portal allows background activity, or does not, or does not answer.
Permission(h) ==
    /\ handler[h] = "permission"
    /\ Goto(h, "read") \/ Goto(h, "fail")
    /\ UNCHANGED <<file, session, supervised, at, helpers>>

\* start reads the saved endpoint before it takes the lock.
Read(h) ==
    /\ handler[h] = "read"
    /\ Goto(h, IF file = "run" THEN "lock" ELSE "fail")
    /\ UNCHANGED <<file, session, supervised, at, helpers>>

(* start takes the lock and keeps it until it has launched its agent.      *)
Lock(h) ==
    /\ handler[h] = "lock"
    /\ Free(at[h])
    /\ LET s == at[h] IN
       IF closing[s]
       THEN Goto(h, "fail") /\ UNCHANGED <<mutex, cancelled>>
       ELSE /\ mutex' = [mutex EXCEPT ![s] = h]
            /\ Goto(h, IF agents[s] = NoWorker THEN "launching" ELSE "replacing")
            /\ Cancel(s)
    /\ UNCHANGED <<file, update, phase, closing, shutdown, gui, pending, agents, retire,
                   worker, home, process, at, helpers>>

Replaced(h) ==
    /\ handler[h] = "replacing"
    /\ Over(agents[at[h]])
    /\ Forget(at[h])
    /\ Goto(h, "launching")
    /\ UNCHANGED <<file, update, phase, mutex, closing, shutdown, gui, pending, retire,
                   home, cancelled, process, at, helpers>>

(* The agent process and its worker; opening the log or starting the       *)
(* process may fail.                                                       *)
LaunchAgent(h) ==
    /\ handler[h] = "launching"
    /\ \/ Goto(h, "fail") /\ UNCHANGED <<agents, supervised>>
       \/ \E w \in Workers :
              /\ worker[w] = "free"
              /\ worker' = [worker EXCEPT ![w] = "watching"]
              /\ process' = [process EXCEPT ![w] = "loading"]
              /\ home' = [home EXCEPT ![w] = at[h]]
              /\ agents' = [agents EXCEPT ![at[h]] = w]
              /\ Goto(h, "return")
              /\ UNCHANGED cancelled
    /\ Unlock(at[h])
    /\ UNCHANGED <<file, update, phase, closing, shutdown, gui, pending, retire, at, helpers>>

\* The deferred functions of Start, and of Run's goroutine.
Leave(h) ==
    /\ handler[h] \in {"return", "fail", "finish"}
    /\ Free(at[h])
    /\ pending' = [pending EXCEPT ![at[h]] = @ - 1]
    /\ Goto(h, IF h \in Callers \/ handler[h] = "finish" THEN "idle" ELSE "finish")
    /\ Reply(h, handler[h] = "return")
    /\ UNCHANGED <<file, update, phase, mutex, closing, shutdown, gui, agents, retire,
                   supervised, at, local, ownerStopped>>

(* Stop cancels the worker and waits for it, with the lock held.           *)
StopLock(h) ==
    /\ handler[h] = "stopLock"
    /\ Free(at[h])
    /\ IF agents[at[h]] = NoWorker
       THEN Goto(h, "idle") /\ Reply(h, TRUE) /\ UNCHANGED <<mutex, cancelled>>
       ELSE /\ mutex' = [mutex EXCEPT ![at[h]] = h]
            /\ Cancel(at[h])
            /\ Goto(h, "stopping")
            /\ UNCHANGED helper
    /\ UNCHANGED <<file, update, phase, closing, shutdown, gui, pending, agents, retire,
                   worker, home, process, at, local, ownerStopped>>

Stopped(h) ==
    /\ handler[h] = "stopping"
    /\ Over(agents[at[h]])
    /\ Forget(at[h])
    /\ Unlock(at[h])
    /\ Goto(h, "idle")
    /\ Reply(h, TRUE)
    /\ UNCHANGED <<file, update, phase, closing, shutdown, gui, pending, retire, home,
                   cancelled, process, at, local, ownerStopped>>

(* Retire, called by an agent that was revoked: it waits for nobody.       *)
Retire(s) ==
    /\ retire[s]
    /\ Free(s)
    /\ retire' = [retire EXCEPT ![s] = FALSE]
    /\ Cancel(s)
    /\ UNCHANGED <<file, update, phase, mutex, closing, shutdown, gui, pending, agents,
                   worker, home, process, calls, helpers>>

Handle(h) ==
    \/ h \in Sessions /\ Look(h)
    \/ Enter(h)
    \/ Permission(h)
    \/ Read(h)
    \/ Lock(h)
    \/ Replaced(h)
    \/ LaunchAgent(h)
    \/ Leave(h)
    \/ StopLock(h)
    \/ Stopped(h)

-----------------------------------------------------------------------------
(* The goroutine of a worker, and the agent process it restarts.           *)

\* The context of a worker that is over is of no further use.
Become(w, label) ==
    /\ worker' = [worker EXCEPT ![w] = label]
    /\ cancelled' = [cancelled EXCEPT ![w] = @ /\ label # "done"]

Turn(w, label) == process' = [process EXCEPT ![w] = label]

\* SIGTERM.
Terminate(w) ==
    /\ worker[w] = "watching"
    /\ cancelled[w]
    /\ Become(w, "stopping")
    /\ UNCHANGED <<file, session, home, process, calls, helpers>>

\* The process ended after SIGTERM, or 12 s have passed and it is killed.
Ended(w) ==
    /\ worker[w] = "stopping"
    /\ Become(w, "done")
    /\ Turn(w, "none")
    /\ UNCHANGED <<file, session, home, calls, helpers>>

\* The process ended by itself.
Exited(w) ==
    /\ worker[w] = "watching"
    /\ process[w] = "none"
    /\ Become(w, "backoff")
    /\ UNCHANGED <<file, session, home, process, calls, helpers>>

\* Five seconds, unless the context is done first.
Backoff(w) ==
    /\ worker[w] = "backoff"
    /\ Become(w, IF cancelled[w] THEN "done" ELSE "checking")
    /\ UNCHANGED <<file, session, home, process, calls, helpers>>

\* "Revocation and explicit Stop are authoritative across every restart."
MayRestart == file = "run"

Restart(w) ==
    /\ worker[w] = "checking"
    /\ \/ MayRestart /\ Become(w, "watching") /\ Turn(w, "loading")
       \/ Become(w, "done") /\ UNCHANGED process  \* also if it cannot be started
    /\ UNCHANGED <<file, session, home, calls, helpers>>

Supervise(w) == Terminate(w) \/ Ended(w) \/ Exited(w) \/ Backoff(w) \/ Restart(w)

\* agentCommand loads the saved endpoint, and returns if it is stopped.
Load(w) ==
    /\ process[w] = "loading"
    /\ Turn(w, IF file = "run" THEN "up" ELSE "none")
    /\ UNCHANGED <<file, session, worker, home, cancelled, calls, helpers>>

\* The relay closes the tunnel because the endpoint was revoked.
Revoked(w) ==
    /\ process[w] = "up"
    /\ Turn(w, "revoked")
    /\ UNCHANGED <<file, session, worker, home, cancelled, calls, helpers>>

\* retireRevokedEndpoint saves, which may fail.
SaveRevoked(w) ==
    /\ process[w] = "revoked"
    /\ Turn(w, "retiring")
    /\ file' \in {file, "revoked"}
    /\ UNCHANGED <<session, worker, home, cancelled, calls, helpers>>

\* Retire is called.  When the call fails, the agent waits all the same until it is
\* told to stop.
CallRetire(w) ==
    /\ process[w] = "retiring"
    /\ Turn(w, "parked")
    /\ retire' \in {retire, [retire EXCEPT ![home[w]] = TRUE]}
    /\ UNCHANGED <<file, update, phase, mutex, closing, shutdown, gui, pending, agents,
                   worker, home, cancelled, calls, helpers>>

\* It ends by itself, for whatever reason, also after SIGTERM.
Crash(w) ==
    /\ process[w] # "none"
    /\ Turn(w, "none")
    /\ UNCHANGED <<file, session, worker, home, cancelled, calls, helpers>>

Agent(w) == Load(w) \/ SaveRevoked(w) \/ CallRetire(w)

-----------------------------------------------------------------------------
(* Run.                                                                    *)

Move(s, label) == phase' = [phase EXCEPT ![s] = label]

\* RequestName succeeds and the methods are exported.
Launch(s) ==
    /\ phase[s] = "none"
    /\ ~\E o \in Sessions : Owner(o)
    /\ Move(s, "starting")
    /\ UNCHANGED <<file, update, mutex, closing, shutdown, gui, pending, agents, retire,
                   supervised, calls, helpers>>

\* No configuration, started in the background against the preference, or the
\* window is refused or fails.
QuitAtOnce(s) ==
    /\ phase[s] = "starting"
    /\ Move(s, "leaving")
    /\ UNCHANGED <<file, update, mutex, closing, shutdown, gui, pending, agents, retire,
                   supervised, calls, helpers>>

\* The window is opened, unless in the background, and the goroutine begins.
Begin(s) ==
    /\ phase[s] = "starting"
    /\ Free(s)
    /\ Move(s, "serving")
    /\ \/ UNCHANGED gui
       \/ ~closing[s] /\ gui' = [gui EXCEPT ![s] = TRUE]
    /\ Announce(s)
    /\ Goto(s, "look")
    /\ at' = [at EXCEPT ![s] = s]
    /\ UNCHANGED <<file, update, mutex, closing, shutdown, agents, retire, supervised,
                   helpers>>

\* Open, called by a second launch, and the window's end.
Window(s) ==
    /\ Owner(s)
    /\ Free(s)
    /\ gui[s] \/ ~closing[s]
    /\ gui' = [gui EXCEPT ![s] = ~@]
    /\ UNCHANGED <<file, update, phase, mutex, closing, shutdown, pending, agents, retire,
                   supervised, calls, helpers>>

\* Nothing keeps the session but its agents.
Unused(s) == ~gui[s] /\ pending[s] = 0

\* The tick: a worker that is over is forgotten, and an idle session ends.
Idle(s) ==
    /\ phase[s] = "serving"
    /\ Free(s)
    /\ ~closing[s]
    /\ agents[s] # NoWorker => Over(agents[s])
    /\ Forget(s)
    /\ IF Unused(s) THEN Move(s, "leaving") ELSE UNCHANGED phase
    /\ UNCHANGED <<file, update, mutex, closing, shutdown, gui, pending, retire, home,
                   cancelled, process, calls, helpers>>

\* FinishUpdate, SIGTERM or SIGINT.
ToldToQuit(s) ==
    /\ phase[s] = "serving"
    /\ Move(s, "leaving")
    /\ UNCHANGED <<file, update, mutex, closing, shutdown, gui, pending, agents, retire,
                   supervised, calls, helpers>>

ShutDown(s) == shutdown[s] /\ ToldToQuit(s)

\* close cancels every worker and waits for them, with the lock held.
Close(s) ==
    /\ phase[s] = "leaving"
    /\ Free(s)
    /\ Move(s, "closing")
    /\ Cancel(s)
    /\ UNCHANGED <<file, update, mutex, closing, shutdown, gui, pending, agents, retire,
                   worker, home, process, calls, helpers>>

Closed(s) ==
    /\ phase[s] = "closing"
    /\ agents[s] # NoWorker => Over(agents[s])
    /\ Move(s, "closed")
    /\ UNCHANGED <<file, update, mutex, closing, shutdown, gui, pending, agents, retire,
                   supervised, calls, helpers>>

\* The connection to the bus is closed, and with it the name released.
Release(s) ==
    /\ phase[s] = "closed"
    /\ Move(s, "released")
    /\ UNCHANGED <<file, update, mutex, closing, shutdown, gui, pending, agents, retire,
                   supervised, calls, helpers>>

\* The process ends, and the sandbox with everything that runs in it.
Vanish(s) ==
    LET within(x, old, new) == IF x = s THEN new ELSE old IN
    /\ Move(s, "none")
    /\ Unlock(s)
    /\ closing' = [closing EXCEPT ![s] = FALSE]
    /\ shutdown' = [shutdown EXCEPT ![s] = FALSE]
    /\ gui' = [gui EXCEPT ![s] = FALSE]
    /\ pending' = [pending EXCEPT ![s] = 0]
    /\ agents' = [agents EXCEPT ![s] = NoWorker]
    /\ retire' = [retire EXCEPT ![s] = FALSE]
    /\ worker' = [w \in Workers |-> within(home[w], worker[w], "free")]
    /\ process' = [w \in Workers |-> within(home[w], process[w], "none")]
    /\ handler' = [h \in Handlers |-> within(at[h], handler[h], "idle")]
    /\ cancelled' = [w \in Workers |-> within(home[w], cancelled[w], FALSE)]
    /\ UNCHANGED <<file, update, home, at, helpers>>

Exit(s) == phase[s] = "released" /\ Vanish(s)

\* Signing out, or the end of the sandbox.
Killed(s) == phase[s] # "none" /\ Vanish(s)

End(s) == ShutDown(s) \/ Close(s) \/ Closed(s) \/ Release(s) \/ Exit(s)

-----------------------------------------------------------------------------
(* An update: a newer build finds the name taken, and its window asks.     *)

PrepareUpdate(s) ==
    /\ Owner(s)
    /\ Free(s)
    /\ Unused(s)
    /\ closing' = [closing EXCEPT ![s] = TRUE]
    /\ update' = TRUE
    /\ UNCHANGED <<file, phase, mutex, shutdown, gui, pending, agents, retire,
                   supervised, calls, helpers>>

FinishUpdate(s) ==
    /\ update
    /\ Owner(s)
    /\ Free(s)
    /\ closing[s]
    /\ shutdown' = [shutdown EXCEPT ![s] = TRUE]
    /\ update' = FALSE
    /\ UNCHANGED <<file, phase, mutex, closing, gui, pending, agents, retire,
                   supervised, calls, helpers>>

\* The update's window ends in between.
AbandonUpdate ==
    /\ update
    /\ update' = FALSE
    /\ UNCHANGED <<file, phase, mutex, closing, shutdown, gui, pending, agents,
                   retire, supervised, calls, helpers>>

-----------------------------------------------------------------------------
(* The helpers: pause stops the agent and saves, resume saves and starts.  *)

Continue(c, label) == helper' = [helper EXCEPT ![c] = label]

\* A resume whose helper is at work, or a Start that its helper did not wait for.
Resuming(c) == \/ helper[c] \in {"saveRun", "start", "startCalling", "restore"}
               \/ handler[c] \notin {"idle", "stopLock", "stopping"}

BeginPause(c) ==
    /\ helper[c] = "idle" /\ handler[c] = "idle"
    /\ local' = [local EXCEPT ![c] = file]
    /\ Continue(c, "stop")
    /\ UNCHANGED <<file, session, supervised, calls, ownerStopped>>

BeginResume(c) ==
    /\ helper[c] = "idle" /\ handler[c] = "idle"
    /\ file # "revoked"
    /\ local' = [local EXCEPT ![c] = file]
    /\ Continue(c, "saveRun")
    /\ ownerStopped' = FALSE
    /\ UNCHANGED <<file, session, supervised, calls>>

\* flatpak.Call, while somebody owns the name.
Call(c, method) ==
    \E s \in Sessions :
        /\ Owner(s)
        /\ at' = [at EXCEPT ![c] = s]
        /\ Goto(c, method)

CallStop(c) ==
    /\ helper[c] = "stop"
    /\ Call(c, "stopLock")
    /\ Continue(c, "stopCalling")
    /\ UNCHANGED <<file, session, supervised, local, ownerStopped>>

\* What stopSharingForMaintenance saves: Stopped, and Revoked as it was read.
SaveStopped(c) ==
    /\ helper[c] = "saveStopped"
    /\ file' = IF local[c] = "revoked" THEN "revoked" ELSE "stopped"
    /\ Continue(c, "idle")
    /\ ownerStopped' = \A d \in Callers \ {c} : ~Resuming(d)
    /\ UNCHANGED <<session, supervised, calls, local>>

SaveRun(c) ==
    /\ helper[c] = "saveRun"
    /\ file' = "run"
    /\ Continue(c, "start")
    /\ UNCHANGED <<session, supervised, calls, local, ownerStopped>>

CallStart(c) ==
    /\ helper[c] = "start"
    /\ Call(c, "enter")
    /\ Continue(c, "startCalling")
    /\ UNCHANGED <<file, session, supervised, local, ownerStopped>>

\* Nobody owns the name, or the call takes more than 80 s.
StartFails(c) ==
    /\ helper[c] \in {"start", "startCalling"}
    /\ Continue(c, "restore")
    /\ UNCHANGED <<file, session, supervised, calls, local, ownerStopped>>

Restore(c) ==
    /\ helper[c] = "restore"
    /\ file' = local[c]
    /\ Continue(c, "idle")
    /\ UNCHANGED <<session, supervised, calls, local, ownerStopped>>

\* A save or a call fails, or the application kills the helper.
HelperEnds(c) ==
    /\ helper[c] # "idle"
    /\ Continue(c, "idle")
    /\ UNCHANGED <<file, session, supervised, calls, local, ownerStopped>>

Help(c) ==
    \/ c \in Pausers /\ BeginPause(c)
    \/ c \in Resumers /\ BeginResume(c)
    \/ CallStop(c) \/ SaveStopped(c)
    \/ SaveRun(c) \/ CallStart(c) \/ StartFails(c) \/ Restore(c)
    \/ HelperEnds(c)

-----------------------------------------------------------------------------

Next ==
    \/ \E h \in Handlers : Handle(h)
    \/ \E w \in Workers : Supervise(w) \/ Agent(w) \/ Revoked(w) \/ Crash(w)
    \/ \E s \in Sessions :
           \/ Retire(s) \/ Launch(s) \/ QuitAtOnce(s) \/ Begin(s) \/ Window(s)
           \/ Idle(s) \/ ToldToQuit(s) \/ End(s) \/ Killed(s)
           \/ PrepareUpdate(s) \/ FinishUpdate(s)
    \/ AbandonUpdate
    \/ \E c \in Callers : Help(c)

Spec == Init /\ [][Next]_vars

(* Goroutines run on, and sync.Mutex lets nobody wait for ever.  The portal *)
(* and a process that was sent SIGTERM have timers.  Nothing is assumed of  *)
(* helpers, of windows, or of an agent that was not told to stop.           *)
Fairness ==
    /\ \A h \in Handlers : SF_vars(Handle(h))
    /\ \A w \in Workers : WF_vars(Supervise(w)) /\ WF_vars(Agent(w))
    /\ \A s \in Sessions : SF_vars(Retire(s)) /\ SF_vars(Begin(s) \/ End(s))

FairSpec == Spec /\ Fairness

-----------------------------------------------------------------------------

(* s.agents lists every agent that may be alive: whoever finds no worker,  *)
(* or one that is over, may start one or report that the connection is     *)
(* stopped.  A worker is over only when its process is.                    *)
LiveAgentsAreListed ==
    \A w \in Workers :
        /\ worker[w] \in {"watching", "stopping", "backoff", "checking"}
               => agents[home[w]] = w
        /\ process[w] # "none" => worker[w] \in {"watching", "stopping"}

(* Whoever asked for the lock gets it and returns, and a session that is   *)
(* told to end ends: an agent that is waited for with the lock held, and   *)
(* that waits for the lock itself in Retire, is not waited for for ever.   *)
CallsReturn ==
    /\ \A h \in Handlers : handler[h] # "idle" ~> handler[h] = "idle"
    /\ \A s \in Sessions : shutdown[s] \/ phase[s] = "leaving" ~> phase[s] = "none"

(* A revoked agent that waits to be stopped is, once its Retire has reached *)
(* its session, though nobody waits for it and the lock may be held by     *)
(* whoever waits for the agent.  One whose call failed stays until a Stop, *)
(* a new start or the end of the session.                                  *)
RetiredAgentsEnd ==
    \A w \in Workers :
        process[w] = "parked" /\ retire[home[w]] ~> process[w] = "none"

(* "Explicit Stop must prevent automatic restart": after a pause that      *)
(* succeeded while nobody resumed, no agent serves until somebody does.    *)
StopIsAuthoritative == ownerStopped => \A w \in Workers : process[w] # "up"

=============================================================================
