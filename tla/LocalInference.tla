--------------------------- MODULE LocalInference ---------------------------
(***************************************************************************)
(* One tunnel session's inference handler: localInference and              *)
(* controlAuthorizer in pkg/agent/inference.go, and drain in               *)
(* pkg/agent/drain.go.  Requests are authorized by the control plane,      *)
(* wait for the inference slot, are admitted against the trial allowance,  *)
(* proxied, and recorded; one reporter goroutine sends the records to the  *)
(* control plane; the end of the session drains both.                      *)
(*                                                                         *)
(* Every critical section of h.mu and of the authorizer's mutex is one     *)
(* action, and so is every step of the control plane, whose answers are in *)
(* flight between two of its steps and the agent's.  The trial's transfer  *)
(* allowance is kept by the same assignments as its request allowance and  *)
(* is not modelled apart from it.  Of the inference slot only its owner is *)
(* kept, which is what InferenceSlot promises of it.                       *)
(***************************************************************************)
EXTENDS Integers, FiniteSets

CONSTANTS
    Posts,              \* inference requests; each name is reused for ever
    Gets,               \* model discovery requests, likewise
    Keys,               \* API keys
    KeyOf,              \* the key each request presents
    NoRequest,          \* the inference slot is free
    NoAnswer,           \* no authorization
    Refused,            \* an authorization with another status than 200
    Scheduled,          \* config.scheduler # nil: a model selection is shared
    PaidConcurrency,    \* max_concurrency of an answer, or else paidConcurrency
    TrialConcurrency,   \* the same of a trial's answer, or else 1
    Allowance,          \* requests the control plane grants the trial
    AnswersInOrder,     \* the control plane counts no report while a fresh
                        \* authorization is on its way to admit
    MaxCompleted,       \* bound: inference requests completed
    MaxCounted          \* bound: requests the control plane has counted

Requests == Posts \cup Gets

ASSUME RequestsAssumption ==
    /\ IsFiniteSet(Requests)
    /\ Posts \cap Gets = {}
    /\ KeyOf \in [Requests -> Keys]
    /\ NoRequest \notin Requests

ASSUME BoundsAssumption ==
    /\ {PaidConcurrency, TrialConcurrency} \subseteq Nat \ {0}
    /\ Allowance \in Nat
    /\ MaxCompleted \in Nat
    /\ MaxCounted \in Nat
    /\ Scheduled \in BOOLEAN
    /\ AnswersInOrder \in BOOLEAN

Answers == [trial : BOOLEAN, left : 0..Allowance]

ASSUME AnswersAssumption ==
    /\ NoAnswer \notin Answers
    /\ Refused \notin Answers
    /\ NoAnswer # Refused

VARIABLES
    pc,             \* where each request is in ServeHTTP
    auth,           \* its authorization, until admit has used it
    fresh,          \* those of them that did not come from the cache
    cache,          \* the authorizer's cache, without the expired entries
    slotOwner,      \* who holds the scheduler's slot
    inFlight,       \* h.inFlight
    trialRemaining, \* h.trialRemaining
    pendingUsage,   \* h.pendingUsage
    usageQueued,    \* h.usageQueued
    usageEvents,    \* h.usageEventsQueued # 0
    reporter,       \* where reportUsage is; "off" is h.usageRunning = FALSE
    reported,       \* reportUsage's count
    result,         \* the control plane's answer to it
    phase,          \* where drain is; h.closing is phase # "open"
    trial,          \* control plane: the endpoint is on trial
    counted,        \* control plane: the sum of the reports it took
    completed,      \* history: inference requests recorded
    acknowledged,   \* history: the sum of the reports the agent saw taken
    reportFailed,   \* history: the last report failed
    finalReports,   \* history: reports begun since the handlers settled
    disturbed       \* history: an answer was overtaken by a report, or the
                    \* allowance of a trial came out negative

usage == <<pendingUsage, usageQueued, usageEvents, reporter, reported, result>>
control == <<trial, counted>>
handling == <<auth, fresh, cache, slotOwner>>
request == <<pc, handling>>
admission == <<inFlight, trialRemaining>>
history == <<completed, acknowledged, reportFailed, finalReports, disturbed>>
rest == <<usage, phase, control, history>>
vars == <<request, admission, rest>>
allButPhase == <<request, admission, usage, control, history>>

PcValues == {"idle", "authorizing", "asking", "answered", "queueing", "authorized",
             "proxying", "releasing", "leaving"}

TypeOK ==
    /\ pc \in [Requests -> PcValues]
    /\ auth \in [Requests -> Answers \cup {NoAnswer, Refused}]
    /\ fresh \subseteq Requests
    /\ cache \in [Keys -> Answers \cup {NoAnswer, Refused}]
    /\ slotOwner \in Requests \cup {NoRequest}
    /\ inFlight \in Nat
    /\ trialRemaining \in Int
    /\ pendingUsage \in Nat
    /\ usageQueued \in Nat
    /\ usageEvents \in BOOLEAN
    /\ reporter \in {"off", "top", "calling", "counted"}
    /\ reported \in Nat
    /\ result \in Answers \cup {NoAnswer}
    /\ phase \in {"open", "waiting", "settled", "drained", "abandoned"}
    /\ trial \in BOOLEAN
    /\ counted \in Nat
    /\ completed \in Nat
    /\ acknowledged \in Nat
    /\ reportFailed \in BOOLEAN
    /\ finalReports \in Nat
    /\ disturbed \in BOOLEAN

Init ==
    /\ pc = [r \in Requests |-> "idle"]
    /\ auth = [r \in Requests |-> NoAnswer]
    /\ fresh = {}
    /\ cache = [k \in Keys |-> NoAnswer]
    /\ slotOwner = NoRequest
    /\ inFlight = 0
    /\ trialRemaining = -1
    /\ pendingUsage = 0
    /\ usageQueued = 0
    /\ usageEvents = FALSE
    /\ reporter = "off"
    /\ reported = 0
    /\ result = NoAnswer
    /\ phase = "open"
    /\ trial = TRUE
    /\ counted = 0
    /\ completed = 0
    /\ acknowledged = 0
    /\ reportFailed = FALSE
    /\ finalReports = 0
    /\ disturbed = FALSE

Note(event) == disturbed' = (disturbed \/ event)

Goto(r, label) == pc' = [pc EXCEPT ![r] = label]

\* maxConcurrency, as the control plane reports it and admit stores it.
Limit(answer) == IF answer.trial THEN TrialConcurrency ELSE PaidConcurrency

-----------------------------------------------------------------------------
(* The control plane, as the agent uses it.                                *)

\* What is left of the trial once so many requests are counted.
LeftAfter(total) == IF trial /\ total < Allowance THEN Allowance - total ELSE 0

Answer(total) == [trial |-> trial, left |-> LeftAfter(total)]

(* It refuses a trial without allowance, and any key or subscription it    *)
(* has a reason to refuse.                                                 *)
ControlAnswers(r) ==
    /\ pc[r] = "asking"
    /\ \/ auth' = [auth EXCEPT ![r] = Refused]
       \/ /\ trial => LeftAfter(counted) > 0
          /\ auth' = [auth EXCEPT ![r] = Answer(counted)]
    /\ Goto(r, "answered")
    /\ UNCHANGED <<fresh, cache, slotOwner, admission, rest>>

\* A fresh authorization is on its way to admit.
Overtaken == fresh # {} \/ \E r \in Requests : pc[r] = "answered"

ControlCounts ==
    /\ reporter = "calling"
    /\ AnswersInOrder => ~Overtaken
    /\ counted + reported <= MaxCounted
    /\ counted' = counted + reported
    /\ Note(Overtaken)
    /\ result' = Answer(counted')
    /\ reporter' = "counted"
    /\ UNCHANGED <<request, admission, pendingUsage, usageQueued, usageEvents,
                   reported, phase, trial, completed, acknowledged,
                   reportFailed, finalReports>>

Subscribe ==
    /\ trial
    /\ trial' = FALSE
    /\ UNCHANGED <<request, admission, usage, phase, counted, history>>

-----------------------------------------------------------------------------
(* A request.                                                              *)

\* Slip: the handler does not look at h.closing.
OpenAlways == TRUE

\* ~h.closing.
Open == phase = "open"

(* ServeHTTP, up to its first Unlock.  A request that finds h.closing is   *)
(* turned away and changes nothing.                                        *)
Call(r) ==
    /\ pc[r] = "idle"
    /\ Open
    /\ Goto(r, "authorizing")
    /\ UNCHANGED <<handling, admission, rest>>

\* The cached answer's time to live ran out.
Expire(k) ==
    /\ cache[k] # NoAnswer
    /\ cache' = [cache EXCEPT ![k] = NoAnswer]
    /\ UNCHANGED <<pc, auth, fresh, slotOwner, admission, rest>>

MustWait(r) == Scheduled /\ r \in Posts /\ slotOwner # r

(* ServeHTTP goes on with an answer, or rejects the request with its       *)
(* status.  The answer of a request that will wait is only good for that.  *)
Follow(r, answer, isFresh) ==
    IF answer = Refused \/ MustWait(r)
    THEN /\ Goto(r, IF answer = Refused THEN "leaving" ELSE "queueing")
         /\ auth' = [auth EXCEPT ![r] = NoAnswer]
         /\ UNCHANGED fresh
    ELSE /\ Goto(r, "authorized")
         /\ auth' = [auth EXCEPT ![r] = answer]
         /\ fresh' = IF isFresh THEN fresh \cup {r} ELSE fresh

(* authorize, up to its Unlock: the cache answers, or the request asks the *)
(* control plane.                                                          *)
Lookup(r) ==
    /\ pc[r] = "authorizing"
    /\ \/ /\ cache[KeyOf[r]] = NoAnswer
          /\ Goto(r, "asking")
          /\ UNCHANGED <<auth, fresh>>
       \/ /\ cache[KeyOf[r]] # NoAnswer
          /\ Follow(r, cache[KeyOf[r]], FALSE)
    /\ UNCHANGED <<cache, slotOwner, admission, rest>>

(* The rest of authorize: the answer is cached, whoever cached another one *)
(* meanwhile.  A call that failed answers 503 and caches nothing.          *)
Receive(r) ==
    /\ \/ /\ pc[r] = "answered"
          /\ cache' = [cache EXCEPT ![KeyOf[r]] = auth[r]]
          /\ Follow(r, auth[r], TRUE)
       \/ /\ pc[r] \in {"asking", "answered"}
          /\ Follow(r, Refused, TRUE)
          /\ UNCHANGED cache
    /\ UNCHANGED <<slotOwner, admission, rest>>

Forget(r) == auth' = [auth EXCEPT ![r] = NoAnswer] /\ fresh' = fresh \ {r}

\* Every early return of ServeHTTP before admit that the answer does not decide:
\* route, origin, key format, rate limit, model, a full queue, a wait too long.
Reject(r) ==
    /\ pc[r] \in {"authorizing", "queueing", "authorized"}
    /\ slotOwner # r
    /\ Forget(r)
    /\ Goto(r, "leaving")
    /\ UNCHANGED <<cache, slotOwner, admission, rest>>

(* acquireForKey returned with the slot; authorize is called once more.    *)
TakeSlot(r) ==
    /\ pc[r] = "queueing"
    /\ slotOwner = NoRequest
    /\ slotOwner' = r
    /\ Goto(r, "authorizing")
    /\ UNCHANGED <<auth, fresh, cache, admission, rest>>

\* Slip: the requests still to be reported are not subtracted.
SyncedToTheAnswer(r) ==
    IF auth[r].trial
    THEN IF r \in fresh \/ trialRemaining < 0 THEN auth[r].left ELSE trialRemaining
    ELSE IF r \in fresh THEN -1 ELSE trialRemaining

\* What admit takes the allowance to be.
Synced(r) ==
    IF auth[r].trial
    THEN IF r \in fresh \/ trialRemaining < 0
         THEN auth[r].left - pendingUsage ELSE trialRemaining
    ELSE IF r \in fresh THEN -1 ELSE trialRemaining

Exhausted(r) == auth[r].trial /\ Synced(r) <= 0

(* admit: both of its rejections come after the allowance is synced.       *)
Admit(r) ==
    /\ pc[r] = "authorized"
    /\ trialRemaining' = Synced(r)
    /\ \/ /\ Exhausted(r) \/ inFlight >= Limit(auth[r])
          /\ Goto(r, "leaving")
          /\ UNCHANGED inFlight
       \/ /\ ~Exhausted(r)
          /\ inFlight < Limit(auth[r])
          /\ Goto(r, "proxying")
          /\ inFlight' = inFlight + 1
    /\ Forget(r)
    /\ Note(auth[r].trial /\ trialRemaining' < 0)
    /\ UNCHANGED <<cache, slotOwner, usage, phase, control, completed,
                   acknowledged, reportFailed, finalReports>>

\* proxy returned unsuccessful: nothing of a 2xx answer reached the client.
Fail(r) ==
    /\ pc[r] = "proxying"
    /\ Goto(r, "releasing")
    /\ UNCHANGED <<handling, admission, rest>>

\* proxy's completed.
Completions(r) == IF r \in Posts THEN 1 ELSE 0

(* proxy returned successful, and recordUsage: the allowance is reserved   *)
(* only where one is known, and a reporter is started if none runs.        *)
Complete(r) ==
    /\ pc[r] = "proxying"
    /\ completed + Completions(r) <= MaxCompleted
    /\ completed' = completed + Completions(r)
    /\ IF trialRemaining >= 0
       THEN /\ trialRemaining' = trialRemaining - Completions(r)
            /\ pendingUsage' = pendingUsage + Completions(r)
       ELSE UNCHANGED <<trialRemaining, pendingUsage>>
    /\ usageQueued' = usageQueued + Completions(r)
    /\ usageEvents' = TRUE
    /\ reporter' = IF reporter = "off" THEN "top" ELSE reporter
    /\ Note(trialRemaining' < 0 /\ trialRemaining >= 0)
    /\ Goto(r, "releasing")
    /\ UNCHANGED <<handling, inFlight, reported, result, phase, control,
                   acknowledged, reportFailed, finalReports>>

\* h.release, the first deferred call of an admitted request.
Release(r) ==
    /\ pc[r] = "releasing"
    /\ inFlight' = inFlight - 1
    /\ Goto(r, "leaving")
    /\ UNCHANGED <<handling, trialRemaining, rest>>

\* The scheduler's release, and requests.Done.
Leave(r) ==
    /\ pc[r] = "leaving"
    /\ slotOwner' = IF slotOwner = r THEN NoRequest ELSE slotOwner
    /\ Goto(r, "idle")
    /\ UNCHANGED <<auth, fresh, cache, admission, rest>>

-----------------------------------------------------------------------------
(* reportUsage.                                                            *)

\* The calls that one drain may have to wait for are counted, up to two.
BeginReport ==
    finalReports' = IF phase = "settled" /\ finalReports < 2
                    THEN finalReports + 1
                    ELSE finalReports

(* The top of the loop: nothing to report ends the goroutine, else the     *)
(* queue is emptied into one call.                                         *)
NextReport ==
    /\ reporter = "top"
    /\ \/ /\ ~usageEvents
          /\ reporter' = "off"
          /\ UNCHANGED <<usageQueued, usageEvents, reported, finalReports>>
       \/ /\ usageEvents
          /\ reported' = usageQueued
          /\ usageQueued' = 0
          /\ usageEvents' = FALSE
          /\ reporter' = "calling"
          /\ BeginReport
    /\ UNCHANGED <<request, admission, pendingUsage, result, phase, control,
                   completed, acknowledged, reportFailed, disturbed>>

\* Slip: without max.
PendingBelowZero == pendingUsage - reported

\* Slip: the reservation is not given back.
PendingKept == pendingUsage

\* max(0, h.pendingUsage-count).
PendingAfter == IF pendingUsage < reported THEN 0 ELSE pendingUsage - reported

\* The loop goes on with what was recorded meanwhile.
AfterTaken == "top"

(* The control plane's answer: the allowance is synced, minus what it has  *)
(* not been told.                                                          *)
ReportTaken ==
    /\ reporter = "counted"
    /\ pendingUsage' = PendingAfter
    /\ trialRemaining' = IF result.trial THEN result.left - PendingAfter ELSE -1
    /\ acknowledged' = acknowledged + reported
    /\ reportFailed' = FALSE
    /\ reported' = 0
    /\ result' = NoAnswer
    /\ reporter' = AfterTaken
    /\ Note(result.trial /\ trialRemaining' < 0)
    /\ UNCHANGED <<request, inFlight, usageQueued, usageEvents, phase, control,
                   completed, finalReports>>

\* What is queued again.
Requeued == usageQueued + reported

\* Slip: the loop goes on.
AfterFailedRetry == "top"

AfterFailed == "off"

(* The call failed, before the control plane counted the report or after:  *)
(* the report is queued again for the next completed request, and the      *)
(* goroutine ends.                                                         *)
ReportFailed ==
    /\ reporter \in {"calling", "counted"}
    /\ usageQueued' = Requeued
    /\ usageEvents' = TRUE
    /\ reportFailed' = TRUE
    /\ reported' = 0
    /\ result' = NoAnswer
    /\ reporter' = AfterFailed
    /\ UNCHANGED <<request, admission, pendingUsage, phase, control, completed,
                   acknowledged, finalReports, disturbed>>

Report == NextReport \/ ControlCounts \/ ReportTaken \/ ReportFailed

-----------------------------------------------------------------------------
(* drain, called when the session's tunnel connection is gone.             *)

DrainBegins ==
    /\ phase = "open"
    /\ phase' = "waiting"
    /\ UNCHANGED allButPhase

\* Slip: the handlers are not waited for.
SettledAtOnce == TRUE

\* requests.Wait() returns.
Settled == \A r \in Requests : pc[r] = "idle"

\* requests.Wait() returned; the reporter's done channel is read.
HandlersSettle ==
    /\ phase = "waiting"
    /\ Settled
    /\ phase' = "settled"
    /\ UNCHANGED allButPhase

\* usageDone is closed, or no reporter ever ran.
DrainEnds ==
    /\ phase = "settled"
    /\ reporter = "off"
    /\ phase' = "drained"
    /\ UNCHANGED allButPhase

\* 2*usageReportTimeout + 1 s have passed.
DrainTimesOut ==
    /\ phase \in {"waiting", "settled"}
    /\ phase' = "abandoned"
    /\ UNCHANGED allButPhase

Drain == HandlersSettle \/ DrainEnds

-----------------------------------------------------------------------------

Handle(r) ==
    \/ Lookup(r)
    \/ ControlAnswers(r)
    \/ Receive(r)
    \/ Reject(r)
    \/ TakeSlot(r)
    \/ Admit(r)
    \/ Complete(r)
    \/ Fail(r)
    \/ Release(r)
    \/ Leave(r)

Next ==
    \/ \E r \in Requests : Call(r) \/ Handle(r)
    \/ \E k \in Keys : Expire(k)
    \/ Subscribe
    \/ Report
    \/ DrainBegins
    \/ Drain
    \/ DrainTimesOut

Spec == Init /\ [][Next]_vars

(* A request's context is cancelled before drain is called and every wait  *)
(* in a handler has a timer besides; a report ends by usageReportTimeout.  *)
(* Nothing makes drain time out.                                           *)
Fairness ==
    /\ \A r \in Requests : WF_vars(Handle(r))
    /\ WF_vars(Report)
    /\ WF_vars(Drain)

FairSpec == Spec /\ Fairness

-----------------------------------------------------------------------------

\* What the reporter has taken out of the queue.
InReport == IF reporter \in {"calling", "counted"} THEN reported ELSE 0

(* Every completed request is told to the control plane, queued, or in the *)
(* report being made, and in only one of these: none is lost by a report   *)
(* that fails while others complete, and none is reported as new twice.    *)
(* The control plane has counted at least what it acknowledged.            *)
UsageIsConserved ==
    /\ completed = acknowledged + usageQueued + InReport
    /\ acknowledged <= counted

(* The allowance reserved locally is given back: what pendingUsage holds   *)
(* is always on its way to the control plane, so that a failed report, a   *)
(* subscription or an unknown allowance cannot leave some of it behind to  *)
(* shrink the trial for ever.                                              *)
ReservationsAreReported == pendingUsage <= usageQueued + InReport

(* A reporter that ends looked at the queue last: usage recorded while it  *)
(* was calling is never left without one, unless its own report failed.    *)
NoStrandedUsage ==
    usageEvents /\ reporter = "off" => reportFailed

(* The accounts of recordUsage and reportUsage balance in every state.     *)
UsageIsAccounted == UsageIsConserved /\ ReservationsAreReported /\ NoStrandedUsage

(* A drain that ended by itself left nothing behind: no handler runs, no   *)
(* reporter, and only a failed report is unreported.                       *)
DrainIsComplete ==
    phase = "drained" =>
        /\ \A r \in Requests : pc[r] = "idle"
        /\ inFlight = 0
        /\ slotOwner = NoRequest
        /\ reporter = "off"
        /\ completed # acknowledged => reportFailed

(* Why two report timeouts are enough for drain: once the handlers are     *)
(* done, one report at most begins after the one that may be in flight.    *)
OneMoreReport == finalReports <= 1

(* Drain does not need its timer: handlers, reporter and drain never wait  *)
(* for each other in a circle.                                             *)
DrainNeedsNoTimer == phase = "waiting" ~> phase \in {"drained", "abandoned"}

(* The trial completes no more than its allowance, in whatever order       *)
(* requests complete, reports fail and answers are cached, but for two     *)
(* causes: a fresh authorization is applied after a report that the        *)
(* control plane counted later, or what is left comes out negative, which  *)
(* the code reads as "unknown": by the subtraction of pendingUsage, or     *)
(* when requests that were admitted together complete.  Without the two it *)
(* is what inference.go:47-48 says of the counter: "decremented as soon as *)
(* a request completes so concurrent requests cannot overshoot".           *)
OvershootHasTwoCauses == trial /\ completed > Allowance => disturbed

=============================================================================
