# Model Uplink client: specifications and proofs

Model Uplink shares a model that runs on somebody's own computer. An agent
process keeps a WebSocket to a relay, terminates TLS of every client stream
itself, authorizes and meters each request with a control plane, and forwards
it to a local server such as Ollama. A helper program and two desktop
applications create connections, start and stop the agent as a background
service, and show what it does. This directory holds TLA+ models of the code
under `pkg/`, `internal/` and `cmd/`, TLC configurations that check them on
small instances, and TLAPS proofs of what matters most.

Run `tlc -config <cfg> <module>` for a row of the table of runs and
`tlapm <module>` for a module of proofs. `PROJECT.json` ties every definition
to source lines and lists runs, mutants, findings and hazards.

## 1. Inventory

| Part (source) | State | Operations | Talks to | Hard about it |
|---|---|---|---|---|
| Inference queue (`pkg/agent/model_policy.go`) | slot channel, waiting count and running model (the activity file), requests per key | acquireForKey, acquire, release, monitor | called by ServeHTTP, one per agent, outlives sessions | select of slot, timer and cancellation; counters on every exit |
| Local inference (`pkg/agent/inference.go`, `drain.go`) | trial allowance, pending and queued usage, requests in flight, authorization cache, rate limits | ServeHTTP, authorize, admit, proxy, recordUsage, reportUsage, release, drain | queue, control plane, local server | answers applied out of order, failed and lost reports, drain against late handlers |
| Stream connection (`pkg/agent/opaque.go`: frameConn, connDeadline) | chunks, buffered bytes, failure, done, current, deadline channel and timer | feed, closeIncoming, Read, Write, SetReadDeadline | fed by the tunnel's reader, read by TLS and net/http | wakeups, END against the last DATA, overflow, moved deadlines |
| Tunnel (`pkg/agent/agent.go`, `opaque.go`: Runner, session) | backoff, session map of streams | Run, runOnce, heartbeat, cancelAll, startRaw, serveRaw, writeRaw, endRaw | relay, stream connections, drain | stragglers of finished streams, streams that outlive a session, stop and revocation at any moment |
| Tunnel codec (`pkg/tunnel/codec.go`) | write mutex | Write, Read | WebSocket | one writer blocks all |
| Agent process (`cmd/modeluplink/main.go`, `agent_revoked.go`) | saved endpoint file | agentCommand, runAgent, retireRevokedEndpoint | tunnel, service manager, Ollama | crash between saving and retiring, watchdog |
| Helper actions (`cmd/modeluplink/desktop.go`, `desktop_models.go`) | endpoint files, `config.json`, service | pause, resume, share_models, stop_all, startup, delete, sign-in, sign-out | a new process for each action, killed by the application after a timeout | two files and a service, stale configuration, rollback |
| Connect flow (`cmd/modeluplink/main.go`, `desktop_transfer.go`, `desktop_connect.go`) | remote endpoint, the same files, a copy of `config.json` | connect, move_trial, serve, removal: entitlement, checkout, create, save, install, wait | control plane, service manager, a second command in a terminal | rollback of each step; answers that are lost; credentials may not be lost; removal after a failure |
| Service managers (`internal/service/`) | unit files or tasks, enabled and running jobs | Install, Stop, StopSharing, RetireCurrent, SetStartup | launchd, systemd, Task Scheduler, Flatpak | partial failure and its rollback |
| Flatpak session (`internal/flatpak/session_unix.go`) | supervised agents, pending calls, closing | start, Start, Stop, Retire, Open, PrepareUpdate, FinishUpdate, idle, close | D-Bus callers, agents | lock held while waiting, stale reads, calls during shutdown |
| Model engine (`internal/engine/`) | models in memory | EnsureOllama, CheckModel, UnloadModels | Ollama | confirmation that memory was released |
| Windows maintenance (`cmd/modeluplink/windows_maintenance.go`) | cfg.UpgradeResume | _prepare-update, _finish-update, _uninstall | installer, helper actions | an update that fails half way and is repeated |
| Applications (`cmd/modeluplink-app/`, `macos/`) | what is shown, revision, busy, loading, editing, result | begin, finish, refresh, act, connect, stopAll, awaitOnline, tray, exit | helper processes | replies applied after a later action, buttons that stay disabled, helpers killed at exit |
| Clients and pure functions (`pkg/client`, `internal/upstream`, `pkg/naming`, `pkg/security`, client proxy) | none | single requests, validation | | nothing to interleave |

What makes the modelled parts correct, and is checked here:

* Queue: one inference at a time; the token is never leaked or doubled; the
  published activity is true; counters are exact; no key fills the queue; every
  counted request is settled, also behind a generation that never ends.
* Local inference: completed requests are acknowledged, queued or in the
  current report, and in one of these only; reservations are given back; no
  usage waits without a reporter; the drain leaves nothing behind and needs no
  timer; a trial stays within its allowance, but for two named causes.
* Stream connection: bytes in order and whole, EOF never early, no lost wakeup,
  deadlines reach the read under way.
* Tunnel: open streams are reachable, the end of a session ends its streams,
  revocation and stop are never lost, waits between attempts grow to a limit.
* Flatpak session: no live agent is unknown to it; a lock that is held while an
  agent is waited for blocks nobody for ever; a revoked agent whose Retire has
  reached the session is stopped.
* Life of a connection: an explicit stop holds until the owner starts again,
  whatever fails or restarts; a stopped connection is not served; memory that is
  still to be released is never forgotten; what a Windows update has stopped it
  shares again, also after one that was cancelled or failed; a revoked agent
  does not loop (it may: section 6).
* Connect and removal: what exists of a connection is listed, so that its owner
  can find and remove it, or is left by a cause that is named for each place it can
  be in; the key of a listed connection has reached the owner, unless the connect
  ended with a message; a removal can be repeated to its end.
* Window: an answer that was overtaken by an action does not undo it; what
  disables the buttons ends; the window catches up with the connection; an exit
  kills no helper (it may kill one that stops: section 6).

## 2. Modules

| Module | What it is |
|---|---|
| `ModelScheduler` | modelScheduler, one action per critical section of its mutex and per channel operation |
| `InferenceSlot` | abstract: who has the model, who waits, who is charged |
| `ModelSchedulerRefinement` | the refinement mapping from the first to the second |
| `ModelSchedulerProofs` | TLAPS proofs about these three |
| `LocalInference` | localInference, controlAuthorizer and drain, with an external control plane |
| `LocalInferenceProofs` | TLAPS proofs about it |
| `FrameConn` | frameConn and connDeadline, byte for byte |
| `FrameConnProofs` | TLAPS proofs about it |
| `TunnelSession` | Runner, session and the serveRaw goroutines |
| `TunnelSessionProofs` | TLAPS proofs about it |
| `FlatpakSession` | the session, its D-Bus methods, workers and agents, and the helpers that call it |
| `FlatpakSessionProofs` | TLAPS proofs about it |
| `SharingLifecycle` | saved endpoint, job of systemd, launchd or the Task Scheduler, agent, the helper that pauses, resumes, shares models or sets the preference, and the Windows update |
| `SharingLifecycleProofs` | TLAPS proofs about it |
| `ConnectFlow` | control plane, files, `config.json`, services, the commands that make, change and remove a connection, and agents that write their file |
| `ConnectFlowProofs` | TLAPS proofs about it |
| `DesktopUI` | the window of the desktop application and the helpers behind it |
| `DesktopUIProofs` | TLAPS proofs about it |
| `MC*` | instances for TLC |

The modules meet at narrow interfaces. `LocalInference` uses of the queue only
that the slot has one owner, which is what `InferenceSlot` promises and
`ModelScheduler` is proved to implement. `TunnelSession` uses of a stream only
whether it is open, and of a drain only that it ends, which
`DrainNeedsNoTimer` is about. `FrameConn` is one stream by itself: the tunnel's
reader may feed, end or overflow it at any time. `FlatpakSession` starts and
stops a whole agent, in which the modules above run, and `SharingLifecycle` does
the same for the native services, where nobody keeps a lock. `ConnectFlow` takes
such a service as installed or not, and `DesktopUI` takes a whole helper as one
step that succeeds, fails before or fails after its effect, which is what the
two modules below it allow. In return `begin` of `DesktopUI` is why both have one
helper of the application at a time.

### ModelScheduler

`pc[r]` is where a request is in `acquireForKey`: counted, waiting (in the queue
and not yet in the select), parked (blocked in the select), granted (the token
was handed over, its critical section has not run), running, dropping (admitted
after its client had left), leaving, forgetting. `slot` and `parked` are the Go
channel with its queue of senders, `activity` and `keys` the fields under the
mutex. A name is reused after its request is over. The queueWait timer and the
client's cancellation are one choice, `GiveUp`, which is possible at any moment
of the wait: their moments are not ordered by the code. The publication to a
file by `monitor` copies `activity` and is not modelled apart from it.

### LocalInference

`pc[r]` follows ServeHTTP from the check of `closing` to `requests.Done`. Each
critical section of `h.mu` and of the authorizer's mutex is an action; the
control plane answers in a step of its own, so an answer can be overtaken on
its way back. Early returns that depend on the request's own text (route,
origin, key format, rate limit, model) are the one action `Reject`. The
transfer allowance is kept by the same assignments as the request allowance and
is not modelled a second time. A report that fails may have been counted
before (`ReportFailed` after `ControlCounts`). `disturbed` is a history variable
that remembers the two causes of an overshoot. `UsageIsAccounted` joins three
facts: `UsageIsConserved`, `ReservationsAreReported` and `NoStrandedUsage`.

### FrameConn

Bytes are numbered, so `BytesAreDelivered` sees every loss, duplicate or swap.
`Feed` is feed's critical section, `Notify` its send, `Close` END, CANCEL or
net/http. `Read` is split at each look at shared state: the section at the top
of the loop, `isClosed`, the second look, the select, the copy. `waitingOn` says
whether the select waits on the current deadline channel, on one that was closed
and replaced, or on one that nobody will close (which only a mutant reaches).
`SetDeadline` waits for a timer callback that has started. A Read error ends
reading, as in crypto/tls; a timeout does not. Write reads the same kind of
channels and changes nothing.

### TunnelSession

`runner` is Run and runOnce, `server[x]` a serveRaw goroutine. The three steps
of its deferred function (close, delete, END) are three actions. Servers survive
their session (`earlier`), with a map of their own, as in the code. The relay
may open a stream again under an identifier it has used, send frames for any
stream at any time, and close with the revocation code, which may get lost with
the connection. The heartbeat appears as what it can do: break a connection.

### FlatpakSession

`phase[s]` is where Run is; `Vanish` is the end of the sandbox, which takes every
process in it along. `handler[h]` is a D-Bus method, or Run's own goroutine that
launches the saved connections. `mutex` is held across steps only by start and
Stop while they replace, launch or wait for an agent; close holds it while
`phase` is "closing"; every other critical section is one step that needs it
`Free`. `worker[w]` is the goroutine of start, `process[w]` its agent process,
from loading the saved endpoint to the call of Retire after a revocation.
`helper[c]` is a pause or a resume with its saves and calls, which may fail, run
out of time or be killed while the method runs on in the session. `file` keeps of
the saved endpoint what `savedEndpoint` tests; there is one connection.
`ownerStopped` is history. Startup counts itself pending like Start and launches
nothing, so it has no action.

### SharingLifecycle

`file` is the saved endpoint as far as anything here reads it, `unit`, `enabled`
and `job` are what the service manager knows, `process` is the agent from
`agentCommand` to the last line of `retireRevokedEndpoint`, and `step` is the
helper between two commands or saves. `local` is the copy of the endpoint that
the helper read when it began, which the agent's own retirement can make stale.
The applications run one helper at a time (`begin` in `ui.go`), so there is one.

Every command and every save may fail, the helper may be killed and the agent
may end after each step, and the machine may be rebooted. What an action assumes
of the service managers: `Restart=always` and `KeepAlive` restart a job that is
not being ended; `systemctl disable --now` and `systemctl start` wait for a job
that is ending; `launchctl bootout` may return before the job is gone, which is
what `waitLaunchAgentGone` is for; a unit that systemd has reloaded without its
file is not restarted; and `is-active` and `launchctl print` answer. A pause that
finds the job "deactivating" or between two restarts goes on, because
`is-active` says no to both; `overlooked` remembers that the agent was still
there when Stopped was saved. `leftover` remembers a failed start that put back
`Stopped` and left an installed job: `resume` installs first and restores the file
when that fails, and `share_models` installs again although the connection was
stopped before (`local.Stopped` is FALSE by then). The first agent to load the
file ends at once, so the next failed start may find it serving.

The model server is one that Model Uplink manages; a shared model is in memory
or not. `Check` may take it out of memory, because `CheckModel` loads each selected
model with `keep_alive` 0. Models that were loaded and are no longer shared are not told apart,
although `UnloadModels` would pass them over until Ollama drops them by itself.

On Windows the order is another one, and the model has it: a pause saves Stopped
first, then disables the task, ends its process and deletes the task only if the
process has gone within five seconds; an agent that exits without an error is
not restarted; `SetStartup` does not look at the endpoint and takes nothing
back; a retired task is deleted while its process goes on. The installer asks
for the application to be closed (`CloseApplications` in
`windows/installer.iss`), so its `_prepare-update` and `_finish-update` are tasks
of the one helper. `resumes` is `cfg.UpgradeResume` for the connection and
`updated` is history: an update stopped it while it was shared. `_prepare-update`
stops what it remembers with the code of a pause; `_finish-update` starts it with
the code of `Install` and forgets it after that.

### ConnectFlow

A connection exists at the control plane (`remote`), as a file (`files`), in
`config.json` (`cfg`) and as a service (`services`). A command is a process
(`proc[p]`) with its copy of `config.json`; the application runs one and a
terminal runs another beside it. Each call of the control plane, each save and
each call of the service manager is an action, which may fail with or without
its effect, and `Kill` ends a command between two steps. The account is in its
trial, over it or paid for, and may have one connection; a trial connection of
another computer can be moved here. `Entitle` and `Checkout` decide before the
creation, `RollBack` is what each failure after it takes back: everything but the
file, as far as the control plane answers. When `os.Executable` fails (`main.go:487`)
nothing is taken back, which is a case of `ConnectFails`.

`resume`, `share_models` and `pause` write in three different orders (SaveEndpoint,
Install, Save; StopSharing, SaveEndpoint, Save, Install; StopSharing, SaveEndpoint,
Save), and the model has each, with what a failure restores.

`agents` are the ones that run or are started again. `service.Uninstall` discards the
error of `Stop` and `launchctl bootout` returns early, so `UnitRemoved` takes the unit
away and `MayBeStopped` leaves open whether the agent has gone; only `StopSharing`
sees to it. A revoked agent saves its file (`SaveRevoked`), at any moment of any
command, also after the removal that revoked it has deleted the file, and then
removes its own service as far as that succeeds (`RetireCurrent`). What a file says
(`Stopped`, `Revoked`) is `SharingLifecycle`'s and is not looked at here: an agent that
would end at once because of it is one that may write nothing.

`fate` is history: the marks of each connection. `known` is that address and key were
returned; `killed`, `failed` and `rolledBack` are how its connect ended instead; `left`,
`unverified` and `outlived` are what a replacement, a removal without a session and a
removal beside a running agent leave; `clashed` is that two commands wrote the
connection, or the list, at the same time. A clash needs a terminal: the application
runs one helper at a time. `Explained` says which marks account for which place, and
each mark is set by the one step that causes it.

### DesktopUI

`world` is what the action "state" of the helper reports, `shown` what the window
shows. The window's state is touched by one callback at a time, so an action of
the model is a callback: a click, a timer, or the answer of a helper. `busy` and
`answer` are the action of the owner, `query` with `same` (its revision is still
the window's) is the refresh, `poll` is `awaitOnline`. `loading`, `editing` and
`question` are what disables or covers the window; the menu of the tray stays in
reach, which is why `stopAll` may begin over a dialog. `Help` is a whole helper: it
has its effect or not, and the answer says so or not; the models of the helpers
are `SharingLifecycle` and `ConnectFlow`. `stale` is history: the refresh looked
before the last action had its effect. `Elsewhere` is the agent, the dashboard or
a revocation.

The poll of the result screen applies its answer without the test of the revision
that a refresh makes (`ui.go:494`). The model has it so: a stop from the tray may
be shown as undone until the next refresh. No property claims otherwise, and
`ScreenCatchesUp` says that it does not last.

## 3. Runs

| Run | cfg | Checks | Bounds |
|---|---|---|---|
| `model_scheduler` | `MCModelScheduler` | invariants, refinement of `InferenceSlot`, `EveryRequestIsSettled` | 6 requests of 3 keys, queue of 3, 2 for each key |
| `local_inference` | `MCLocalInference` | accounting of usage and allowance, the end of a session, drain | 2 inference requests at a time, 1 for a trial and 2 for a paid account by the control plane's limits, allowance 1, 2 completed, 2 counted |
| `frame_conn` | `MCFrameConn` | all of FrameConn | buffer of 3 bytes, frames of 0 to 2, 5 bytes, 3 frames |
| `tunnel_session` | `MCTunnelSession` | all of TunnelSession | 2 identifiers, 2 servers, 1 frame in flight, waits 2 to 5 |
| `flatpak_session` | `MCFlatpakSession` | `TypeOK`, `LiveAgentsAreListed` | 1 session, 1 worker, 1 helper that pauses or resumes |
| `flatpak_session_ends` | `MCFlatpakSessionEnds` | `CallsReturn`, `RetiredAgentsEnd` | 1 session, 1 worker, 1 helper that pauses |
| `flatpak_stop` | `MCFlatpakStop` | `StopIsAuthoritative`, which is violated (section 6) | the same |
| `sharing_lifecycle` | `MCSharingLifecycle` | `StopIsFinal`, `MemoryIsTold`, `StoppedDoesNotServe`, `UpdateIsResumed` | none: three platforms, one connection |
| `sharing_revoked` | `MCSharingRevoked` | `RevokedAgentStays`, which is violated (section 6) | none: systemd and launchd |
| `connect_flow` | `MCConnectFlow` | `NothingIsForgotten`, `KeyIsReturned`, `DeleteCompletes` | 2 connections made here and 1 elsewhere, 1 command besides removals and sign-ins in a terminal, 1 failure, kill or change from the dashboard |
| `desktop_ui` | `MCDesktopUI` | `OldAnswersAreIgnored`, `ExitKillsOnlyAStop`, `WorkEnds`, `ScreenCatchesUp` | 1 change from elsewhere |
| `desktop_exit` | `MCDesktopExit` | `ExitWaits`, which is violated (section 6) | no change from elsewhere |

Why the bounds are enough:

* Scheduler: one key has one request more than it may have inside, and together
  the keys can have one more inside than slot and queue hold, so both refusals
  happen, while several requests park, give up and are handed the slot. The
  source has 3 < 4 for the limits; the run has 2 < 3 and the proofs have every
  pair with `0 < PerKeyOutstanding < MaxWaiting`.
* Safety does not depend on the bounds of the next items: section 5 proves the
  invariants and the action properties for every value of the constants. The bounds
  matter for liveness, and for the runs to meet every action.
* Local inference: names are reused, so two at a time give every interleaving
  of two handlers with the reporter, the end of the session and the drain. One
  more completion than the allowance is possible, and the control plane can
  count a report twice.
* FrameConn: frames larger than, equal to and smaller than a read, empty
  frames, two frames that together overflow, and one byte after an overflow.
  The bound on frames is needed only because an empty frame counts no bytes.
* TunnelSession: two servers are a stream and the one that takes its place, or
  one of the last session and one of this; 2, 4, 5, 5 is a backoff that is cut.
* FlatpakSession: a worker is replaced only when it is over, so one worker serves
  a session that is right, and a mistake shows as a worker that is used while it
  lives. The session's own goroutine and a helper's call are two handlers, and
  the agent's Retire is a third. A session is used again after it ends.
* SharingLifecycle: the state is finite without a bound. A second connection has
  a file, a job and an agent of its own and shares `config.json` only, which is
  in `ConnectFlow`.
* ConnectFlow: two connections are an old one and its replacement, or one that is
  removed while the other is made. Removals and sign-ins in a terminal are not
  counted, so every other command of the application runs beside each of them, and a
  removal that failed is repeated. What the run does not have, two other commands that
  overlap (a share beside a connect in a terminal) and a second failure, is in the
  proofs of section 5, which cover every number of commands, failures and
  connections; `DeleteCompletes` is checked for one failure, after which the removal
  begins from what it left.
* DesktopUI: what the owner does is not bounded; one change that nobody asked for
  already makes every part of `shown` differ from `world`.

The deadlock check is off for `local_inference` (a drain that is over leaves
nothing to do) and for `connect_flow` (no command begins when `MaxCommands`
have begun). In `TunnelSession` a runner that has returned stutters explicitly.

## 4. Fairness

* `ModelScheduler`: goroutines that can run do, and the queueWait timer fires
  (`Proceed` contains `GiveUp`). A running generation may hold the slot for ever:
  there is no fairness on its `Release`.
* `LocalInference`: handlers proceed, because every wait in one has a timer or a
  context that the session cancels before it drains; a call of the control plane
  ends by `usageReportTimeout`. There is none on `DrainTimesOut`, so
  `DrainNeedsNoTimer` is about the drain itself.
* `FrameConn`: goroutines inside feed, Read and the timer callback run on.
  Nothing is assumed of the client, of Close or of deadlines.
* `TunnelSession`: Run proceeds (dial, register and waits are bounded by
  timers; a Read is not ready without a frame or an error), AfterFunc runs once
  ctx is cancelled, and a server that can move does. The relay owes nothing.
* `FlatpakSession`: strong fairness where the lock is needed, because
  `sync.Mutex` hands itself to a waiter that has starved; weak fairness for
  workers (timers of 5 and 12 s, then SIGKILL) and for an agent's own steps.
  Nothing is assumed of helpers, windows, signals, or of an agent that was not
  told to stop.
* `SharingLifecycle` states safety only and assumes no fairness.
* `ConnectFlow`: a command proceeds, because each of its waits has a limit (HTTP
  timeouts, the limits of the service manager, the readiness wait). Strong
  fairness of the terminal's removal says that the owner repeats one that failed,
  which is what `DeleteCompletes` is about.
* `DesktopUI`: a helper ends (`helper.go` kills it after 90 seconds, or 30 minutes),
  its answer reaches the window (`fyne.DoAndWait`), the ticker of
  `startBackgroundRefresh` ticks, and a state that is asked for again and again is
  got some time (strong fairness of a `Look` that does not fail). Nothing is assumed
  of the owner, nor of the poll.

## 5. Proofs

`ModelSchedulerProofs` proves, for any finite set of requests and any limits
with `0 < PerKeyOutstanding < MaxWaiting`: `TypeCorrect`, `OneInferenceAtATime`,
`ActivityTold`, `KeysShare`, and `Refinement` of `InferenceSlot`. The invariants are not inductive as they stand. `IInv` adds

* `ParkedInv`: the senders in the channel's queue are at "parked", each once;
  without it a handover could grant a request that has given up;
* `OwnerInv`: the token has exactly one owner, said without counting, and nobody
  is parked while the slot is free;
* `CountInv`: the counters equal the sizes of the sets they count, which makes
  each decrement stay in `Nat`.

There is one lemma for each action, which proves each conjunct of `IInv'`, over
general lemmas about how a move of one request changes the sets
(`WithAfterGoto`, `CountAfterGoto`, `ChargeAfterGoto`). `Refinement` maps each
action to one step or a stutter; `CHOOSE` in the mapping is resolved by
`OwnerInv`.

`LocalInferenceProofs` proves, for every finite set of requests, every
assignment of keys and every allowance, the accounting and the drain:
`TypeCorrect`, `UsageAccounted` (from `UsageConserved`, `ReservationsReported` and
`NoUsageStranded`), `TwoTimeoutsAreEnough` and `DrainComplete`. None of the
properties is inductive. `IInv` adds to them

- `AuthInv`: `admit` reads an authorization that `authorize` has obtained;
- `HandlerInv`: `inFlight` is the number of requests being proxied and the slot
  has an owner only while a handler holds it (for `inFlight = 0` and a free
  slot at the end of a drain);
- `AnswerInv`: what an answer acknowledges the control plane has counted (for
  `acknowledged <= counted`);
- `EventsInv`: a queued request is reason enough for a report (for the end of a
  drain: no event and no reporter means an empty queue);
- `DrainInv`: once the handlers have settled none begins, so the first report
  that begins then empties the queue for good; only its own failure queues
  anything again, and that ends the reporter. Hence one report at most.

The cardinality of the proxied requests changes by one when a handler moves
(`ProxiedAfterGoto`); this is where the set of requests has to be finite, which
`RequestsAssumption` says. A lemma for each group of actions (the handlers' own
steps, completions, reports, drain) keeps each part of `IInv`, and
`StepsKeepIInv` combines them.

`OvershootCauses` needs one more invariant, `AllowanceInv`, relative to `IInv`: while
the trial lasts and neither cause has happened, what the agent takes to be left and
what it has completed are the allowance at most (`Spending`), because every answer
that is still to be applied is the control plane's last word (`LastWords`), which
only `fresh` can tell (`FreshInv`). A completion moves one request from the first to
the second (`CompletionsSpend`). The proof has a lemma for what each answer says
(`AnswerFacts`) and needs of the answers only that
they can be told apart from a refusal and from none (`AnswersAssumption`).

`FrameConnProofs` proves `TypeCorrect`, `Delivered` and `Woken` for any size of the
buffer, any finite or infinite sets of frame sizes and of read sizes above 0, and any
number of bytes. `ReadsAreAPrefix` says that there is a function from chunks to the
places where they begin; each action that touches bytes gives the next one
(`SequenceTheorems` for `Append` and `Tail`), and `bytes` stands for all the others,
which keep it. `IInv` adds

* `PlacesInv`: the same, with no chunk that begins after the end of the last, so that
  the next Read has one to take from;
* `CountInv`: what is read, current and buffered together are the bytes feed has
  accepted, which is what EOF after the last of them means;
* `ReaderInv`: what the Read that is under way has seen: its `current` is empty
  while it looks, and it waits on a channel that somebody closes;
* `TokenInv`: a token, a closed `done` or a notification on its way exists from the
  moment the Read found the buffer empty, not only once it waits.

`TunnelSessionProofs` proves, for any identifiers, any servers and any pair of waits
with `0 < initialBackoff <= maxBackoff`, `TypeCorrect`, `StreamsListed` and
`WaitsGrow`. A server that has written END may still be
listed under an identifier that is used again, so `StreamsAreListed` alone does not
survive the `delete(s.raw, id)` of that server. `MapInv` says that
each server at work is the one listed under its identifier, so that no
two have the same; `ServersInv` and `OpenInv` say who may be open, `BackoffInv` that
a wait which has begun is at least the first one. Actions are proved in groups:
`Quiet` ones, which leave map and servers alone, and each that does not.

`ConnectFlowProofs` proves `TypeCorrect`, `NothingForgotten` and `KeyReturned` for any
number of connections, commands and failures, and two commands that overlap in any
order, beside agents that write. The argument is one of rely and guarantee. A command
owns the connection it is about and the replaced ones it has cleaned away (`Owned`).
A step is calm about a connection (`Calm`) when it takes it neither from the list nor
its file, and adds nothing to it but a file by its agent, or an agent by its service.
`OthersAreKept` proves once that a step which is calm about what the other command
owns, or records a clash about it, keeps that command's part of the invariant; then
each step of a command is shown to be calm about all connections but those nobody else
is about (`Kept`), and what agents and the control plane do to be calm about all
(`CalmStep`). `IInv` adds

* `FormedInv`: which step belongs to which command;
* `MadeInv`: nothing is about a connection that was not made yet, so that a new one
  is nobody else's;
* `OwnersInv`: two commands that own the same connection have clashed over it;
* `CommandsInv`: the connection of a command is where the command believes it to be, in
  the list, as a file, or not yet a service with an agent (`Placed`); what it is about
  to take off the list is gone or has its cause (`Cleared`); and the owner knows of
  whatever its copy of `config.json` lists, or is about to (`Known`), which is why
  writing an old copy back loses no key.

`DesktopUIProofs` proves `TypeCorrect`, `OldAnswersIgnored` and `ExitKills`, however
often the connection changes elsewhere. The revision is what counts: `RefreshInv`
says that a refresh under way while an action is, or one that looked before the
action's effect, no longer has the window's revision. `OwnerInv` says that no action
but a stop is under way over the question whether to exit, and `StoppedInv` that
nothing is when the application does not run.

`FlatpakSessionProofs` proves `TypeCorrect` and `AgentsListed` for any sessions and
workers and any finite set of helpers. `IInv` adds

* `LockInv`: a method that replaces, launches or stops an agent has the lock of its
  session, so no other one changes `s.agents` meanwhile;
* `ListedInv`: `s.agents` lists a worker of the same session, and is empty while its
  owner launches, not empty while it replaces or stops;
* `CallInv`: which goroutine may be in which method: Run's own calls Start only, and a
  helper that decides or saves is in no call;
* `CountInv`: `s.pending` is the number of calls that have announced themselves and
  what Run's goroutine adds, which makes each decrement stay in range. The number of
  helpers has to be finite for this only.

`SharingLifecycleProofs` proves `TypeCorrect`, `StopFinal`, `MemoryTold`,
`StoppedNotServed` and `UpdateResumed` for every choice of platforms. The run covers
every state of the module, so what the proof adds is the argument: which order of
saves and commands each property rests on. `IInv` adds

* `StepsInv`: which step belongs to which task, and to which platform;
* `AgentInv`: an agent has a job, and on Windows a task, until it retires, so that a
  job that is gone means an agent that is gone;
* `StopInv`: a pause saves `Stopped` when there is no unit and the job is not on, and a
  connection that is paused has no start under way: not by a helper, and not by an
  update, because a pause forgets the resumption first;
* `MemoryInv`: nothing is in memory once it counts as released, and nothing is when a
  pause is about to skip the release by the copy it has read. This second half is where
  a retirement by the agent, which saves behind the helper's back, has to be harmless;
* `UpdateInv`: what an update has stopped it remembers although its copy may be stale,
  and `_finish-update` forgets it only when `Stopped` is no longer saved or the
  connection was revoked meanwhile.

There is one lemma for each group of actions, and `GroupsOfSteps` says that there are no
others.

Model-checked only: the liveness properties (`EveryRequestIsSettled`,
`DrainNeedsNoTimer`, `ReadReturns`, `RevocationIsReported`, `EverythingEnds`,
`CallsReturn`, `RetiredAgentsEnd`, `DeleteCompletes`, `WorkEnds`, `ScreenCatchesUp`), which
are out of the prover's reach. Every invariant and every action property of a passing
run is proved.

## 6. Findings

**An automatic launch can outlive an explicit Stop.** `linux/flatpak/README.md:37`
says that "explicit Stop remains authoritative after automatic launch".
`flatpak_stop` shows Run's goroutine read the saved endpoint
(`internal/flatpak/session_unix.go:79`, before the lock), a pause call Stop, which
finds no agent, then start launch an agent that loads the endpoint before the
pause saves Stopped. The pause succeeds and the agent serves.

**A revoked agent can be restarted for ever.** The last comment of
`cmd/modeluplink/agent_revoked.go` forbids a restart loop, and
`cmd/modeluplink/main.go:1041` takes up a retirement that was interrupted.
`sharing_revoked` shows that it is not reached: Revoked and Stopped are saved
together, `agentCommand` returns because of Stopped at line 977, and the job, which
is still there, starts the next agent. A pause by the owner ends it. On systemd the
unit of the agent (`ProtectHome=read-only`) does not list the directory of the
saved endpoint or of the units as writable, so there the saves and the removal
may fail as well; they are failing steps of the model.

**Exit can kill a stop.** `cmd/modeluplink-app/desktop.go:32` answers an exit
during an action with "Please let this step finish before exiting."
`desktop_exit` shows Exit chosen while nothing is under way, Stop sharing begun
from the menu of the tray while the question is open, and the question
answered: line 36 cancels the helper half-way through the connections.
`ExitKillsOnlyAStop` shows that no other action can meet this, in particular no
connect, whose key would be lost.

**A roll-back that fails is reported as done.** A connect whose service cannot be
installed ends with "install background service (endpoint rolled back)"
(`cmd/modeluplink/main.go:496`). Line 493 discards the error of the `DeleteEndpoint`
that is to do it, and lines 494-495 take the connection off the list all the same.
When the deletion fails, the connection stays at the control plane, where it counts
against the limit of the account, and this machine neither lists it nor has returned
its key. No run is about this alone: `RollBack` leaves the control plane as it was or
not, and `NothingIsForgotten` names the case (`rolledBack`).

**A trial can overshoot for two causes**, which is checked by a property that
holds and therefore is not a run of its own. The comment at
`pkg/agent/inference.go:46-49` says that the allowance is decremented at
completion "so concurrent requests cannot overshoot". `OvershootHasTwoCauses`
shows the two ways in which it is exceeded all the same, and `OvershootCauses`
proves that there is no third one, whatever the allowance: an authorization that was
answered before the control plane counted a report is applied after the report was
acknowledged (`inference.go:179`), or what is left comes out negative and reads as
"unknown" (`inference.go:263`), because a counted report's answer was lost, or because
requests were admitted together before either had completed. A trial has one request
at a time unless the control plane says otherwise (`inference.go:544-548`); the proof is
for every limit.
The control plane decides in the end, so the excess is bounded by the life of the
cache and the reports on their way.

## 7. Not modelled, and the plan

Not modelled for good: TLS, ACME and certificate pinning, HTTP parsing, wire
encodings, installers, hardware detection, wording and layout. They keep no
state that the properties above depend on.

Left out of a module that models what is around it:

* `ConnectFlow`: what the files say; the saves of a pause on Windows before its
  `StopSharing`, and after the release of the memory, which write the same entries
  again; a connect with `--foreground`; two processes that write the same temporary file of `config.json` at
  once; the keyring; limits of more than one connection for an account; keys that are
  made later (`new_key`).
* `SharingLifecycle`: `_uninstall` of Windows; the service of Ollama and the task
  of the interface; the roll-back of `updateStartup` over several services;
  "Release model memory" of a connection that an update has stopped cancels its
  resumption like any pause does, and the model counts it as the owner's pause.
* `DesktopUI`: two instances of the application at a time, which
  `desktopInstance` excludes on Windows only; more than one dialog; more than one connection.
* `FlatpakSession`: a revoked agent whose call of Retire fails stays until a Stop, a
  new start or the end of its session; the model has it, and `RetiredAgentsEnd`
  promises the end only to those whose call has reached the session.
* `TunnelSession`: back-pressure of the socket (`Writer` of the codec).
* `runForegroundAgent`, the client command and its proxy, the background portal and
  the macOS application.

Planned, in this order:

1. An extension of `TunnelSession` by the Writer of the codec, with back-pressure.
2. `StartupPreference`: the roll-back over several services.
3. The macOS application as a second implementation of what `DesktopUI` promises.
