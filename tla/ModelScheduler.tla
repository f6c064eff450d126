--------------------------- MODULE ModelScheduler ---------------------------
(***************************************************************************)
(* The agent's inference queue: modelScheduler in                          *)
(* pkg/agent/model_policy.go.  One request holds the inference slot, at    *)
(* most MaxWaiting others wait for it, and one credential has at most      *)
(* PerKeyOutstanding requests inside.                                      *)
(*                                                                         *)
(* Every critical section of s.mu is one action.  The slot is a Go channel *)
(* of capacity one: its send and receive are atomic, a receive hands the   *)
(* buffer place straight to the longest-parked sender, and a goroutine     *)
(* leaves the send queue in the same step in which another case of its     *)
(* select wins.  What happens between two critical sections (a goroutine   *)
(* that counted itself as waiting and has not parked yet; one that was     *)
(* handed the slot and has not locked s.mu yet) is a program counter value *)
(* of its own, so every other request may run there.                       *)
(***************************************************************************)
EXTENDS Naturals, Sequences, SequencesExt, FiniteSets

CONSTANTS
    Requests,           \* inference requests; each name is reused for ever
    Keys,               \* API key identifiers
    Models,             \* names of shared models
    NoModel,            \* activity.Model = ""
    KeyOf,              \* the key each request presents
    ModelOf,            \* the model each request asks for
    MaxWaiting,         \* maxWaiting
    PerKeyOutstanding   \* perKeyOutstanding

ASSUME RequestsAssumption ==
    /\ IsFiniteSet(Requests)
    /\ KeyOf \in [Requests -> Keys]
    /\ ModelOf \in [Requests -> Models]
    /\ NoModel \notin Models

\* model_policy.go has 3 < 4: one key cannot fill the queue by itself.
ASSUME LimitsAssumption ==
    /\ MaxWaiting \in Nat
    /\ PerKeyOutstanding \in Nat
    /\ 0 < PerKeyOutstanding
    /\ PerKeyOutstanding < MaxWaiting

VARIABLES
    pc,         \* where each request is in acquireForKey and its caller
    slot,       \* tokens in the slot channel
    parked,     \* requests blocked in "s.slot <-", oldest first
    activity,   \* s.activity
    keys        \* s.keys; a missing entry counts 0

vars == <<pc, slot, parked, activity, keys>>

\* Counted in activity.Waiting.
Queued == {"waiting", "parked", "granted", "leaving"}
\* Owner of the token in the slot channel.
Holding == {"granted", "running", "dropping"}
\* Counted in keys.
Inside == {"counted", "forgetting"} \cup Queued \cup Holding

\* "idle": not called yet, or returned an error, or served and its closure run.
PcValues == {"idle"} \cup Inside

With(s) == {r \in Requests : pc[r] \in s}

TypeOK ==
    /\ pc \in [Requests -> PcValues]
    /\ slot \in {0, 1}
    /\ parked \in Seq(Requests)
    /\ activity \in [model : Models \cup {NoModel}, running : {0, 1}, waiting : Nat]
    /\ keys \in [Keys -> Nat]

Init ==
    /\ pc = [r \in Requests |-> "idle"]
    /\ slot = 0
    /\ parked = <<>>
    /\ activity = [model |-> NoModel, running |-> 0, waiting |-> 0]
    /\ keys = [k \in Keys |-> 0]

Goto(r, label) == pc' = [pc EXCEPT ![r] = label]

-----------------------------------------------------------------------------
\* Slip: the per-key limit lets one request too many in.
ArriveOffByOne(r) ==
    /\ pc[r] = "idle"
    /\ keys[KeyOf[r]] <= PerKeyOutstanding
    /\ keys' = [keys EXCEPT ![KeyOf[r]] = @ + 1]
    /\ Goto(r, "counted")
    /\ UNCHANGED <<slot, parked, activity>>

(* acquireForKey, up to its first Unlock.  A request of a key that is at   *)
(* its limit is turned away and changes nothing.                           *)
Arrive(r) ==
    /\ pc[r] = "idle"
    /\ keys[KeyOf[r]] < PerKeyOutstanding
    /\ keys' = [keys EXCEPT ![KeyOf[r]] = @ + 1]
    /\ Goto(r, "counted")
    /\ UNCHANGED <<slot, parked, activity>>

\* Slip: the running request is recorded without taking the token.
TakeAnySlot(r) ==
    /\ slot' = 1
    /\ activity' = [activity EXCEPT !.model = ModelOf[r], !.running = 1]
    /\ Goto(r, "running")

(* "case s.slot <- struct{}{}" of the select in the critical section.      *)
TakeFreeSlot(r) ==
    /\ slot = 0
    /\ slot' = 1
    /\ activity' = [activity EXCEPT !.model = ModelOf[r], !.running = 1]
    /\ Goto(r, "running")

QueueFull == activity.waiting >= MaxWaiting

(* acquire, up to its first Unlock.                                        *)
Acquire(r) ==
    /\ pc[r] = "counted"
    /\ \/ TakeFreeSlot(r)
       \/ /\ slot = 1
          /\ QueueFull
          /\ Goto(r, "forgetting")
          /\ UNCHANGED <<slot, activity>>
       \/ /\ slot = 1
          /\ ~QueueFull
          /\ Goto(r, "waiting")
          /\ activity' = [activity EXCEPT !.waiting = @ + 1]
          /\ UNCHANGED slot
    /\ UNCHANGED <<parked, keys>>

(* The select of a waiting request finds the slot free, or parks.          *)
Select(r) ==
    /\ pc[r] = "waiting"
    /\ \/ /\ slot = 0
          /\ slot' = 1
          /\ Goto(r, "granted")
          /\ UNCHANGED parked
       \/ /\ slot = 1
          /\ Goto(r, "parked")
          /\ parked' = Append(parked, r)
          /\ UNCHANGED slot
    /\ UNCHANGED <<activity, keys>>

\* Slip: the place in the queue is given back here and again in Leave.
GiveUpAndUncount(r) ==
    /\ pc[r] = "waiting"
    /\ activity' = [activity EXCEPT !.waiting = @ - 1]
    /\ Goto(r, "leaving")
    /\ UNCHANGED <<slot, parked, keys>>

\* Slip: a blocking send in place of the select, so no timeout while parked.
GiveUpBeforeParking(r) ==
    /\ pc[r] = "waiting"
    /\ Goto(r, "leaving")
    /\ UNCHANGED <<slot, parked, activity, keys>>

(* wait.Done(): the client left or queueWait ran out, either of which may  *)
(* happen at any moment of the wait.                                       *)
GiveUp(r) ==
    /\ \/ /\ pc[r] = "waiting"
          /\ UNCHANGED parked
       \/ /\ pc[r] = "parked"
          /\ \E i \in DOMAIN parked : /\ parked[i] = r
                                      /\ parked' = RemoveAt(parked, i)
    /\ Goto(r, "leaving")
    /\ UNCHANGED <<slot, activity, keys>>

\* The critical section of the wait.Done() case.
Leave(r) ==
    /\ pc[r] = "leaving"
    /\ activity' = [activity EXCEPT !.waiting = @ - 1]
    /\ Goto(r, "forgetting")
    /\ UNCHANGED <<slot, parked, keys>>

\* Slip: the early return for a client that left forgets to release.
AdmitAndLeak(r) ==
    /\ pc[r] = "granted"
    /\ activity' = [model |-> ModelOf[r], running |-> 1, waiting |-> activity.waiting - 1]
    /\ \E label \in {"running", "forgetting"} : Goto(r, label)
    /\ UNCHANGED <<slot, parked, keys>>

(* The slot arrived: the critical section of the other case, and the check *)
(* of ctx.Err() after it, which reads nothing another request writes.  The *)
(* client may have left at any moment since the request arrived.           *)
Admit(r) ==
    /\ pc[r] = "granted"
    /\ activity' = [model |-> ModelOf[r], running |-> 1, waiting |-> activity.waiting - 1]
    /\ \E label \in {"running", "dropping"} : Goto(r, label)
    /\ UNCHANGED <<slot, parked, keys>>

(* release: called at once for a client that left, and by ServeHTTP's      *)
(* deferred call when the answer is complete.  The receive hands the place *)
(* to the longest-parked sender.                                           *)
Release(r) ==
    /\ pc[r] \in {"running", "dropping"}
    /\ activity' = [activity EXCEPT !.model = NoModel, !.running = 0]
    /\ \/ /\ parked = <<>>
          /\ slot' = 0
          /\ Goto(r, "forgetting")
          /\ UNCHANGED parked
       \/ /\ parked # <<>>
          /\ parked' = Tail(parked)
          /\ pc' = [pc EXCEPT ![r] = "forgetting", ![Head(parked)] = "granted"]
          /\ UNCHANGED slot
    /\ UNCHANGED keys

\* Slip: the activity is cleared once more, after the slot was passed on.
ForgetAndClear(r) ==
    /\ pc[r] = "forgetting"
    /\ keys' = [keys EXCEPT ![KeyOf[r]] = @ - 1]
    /\ activity' = [activity EXCEPT !.model = NoModel, !.running = 0]
    /\ Goto(r, "idle")
    /\ UNCHANGED <<slot, parked>>

(* forget: the second critical section of the returned closure, or of      *)
(* acquireForKey's error path.                                             *)
Forget(r) ==
    /\ pc[r] = "forgetting"
    /\ keys' = [keys EXCEPT ![KeyOf[r]] = @ - 1]
    /\ Goto(r, "idle")
    /\ UNCHANGED <<slot, parked, activity>>

-----------------------------------------------------------------------------

\* What the agent does by itself once a request is inside.
Proceed(r) ==
    \/ Acquire(r)
    \/ Select(r)
    \/ GiveUp(r)
    \/ Leave(r)
    \/ Admit(r)
    \/ Forget(r)

Step(r) == Arrive(r) \/ Proceed(r) \/ Release(r)

Next == \E r \in Requests : Step(r)

Spec == Init /\ [][Next]_vars

(* Goroutines are scheduled and the queueWait timer fires.  Nothing is     *)
(* assumed of a running generation: it may hold the slot for ever.         *)
Fairness ==
    \A r \in Requests : /\ WF_vars(Proceed(r))
                        /\ WF_vars(pc[r] = "dropping" /\ Release(r))

FairSpec == Spec /\ Fairness

-----------------------------------------------------------------------------

(* One inference at a time.  The slot token and the requests that act as   *)
(* its owner agree: nobody runs without it, and it is never left behind by *)
(* a request that gave up, was cancelled as it was handed over, or ended.  *)
SlotHasOneOwner == Cardinality(With(Holding)) = slot

(* The activity the desktop shows is the model of the request that runs,   *)
(* and shows nothing while no request does: a release that lost its race   *)
(* with the next request's start would erase it.                           *)
ActivityTellsWhoRuns ==
    /\ activity.running = 1 <=> With({"running", "dropping"}) # {}
    /\ \A r \in With({"running", "dropping"}) : activity.model = ModelOf[r]
    /\ activity.running = 0 => activity.model = NoModel

(* activity.Waiting counts exactly the queue places in use, whichever way  *)
(* each of them ends, and the queue stays within its bound.                *)
QueueIsCounted ==
    /\ activity.waiting = Cardinality(With(Queued))
    /\ activity.waiting <= MaxWaiting

(* The activity that the desktop and activityTracker show is what happens. *)
ActivityIsTold == ActivityTellsWhoRuns /\ QueueIsCounted

(* A key is charged for exactly its requests inside, and "other friends    *)
(* always keep a place": the queue never fills from one key alone.         *)
KeysShareTheQueue ==
    /\ \A k \in Keys :
          /\ keys[k] = Cardinality({r \in With(Inside) : KeyOf[r] = k})
          /\ keys[k] <= PerKeyOutstanding
    /\ QueueFull => \E r, q \in With(Queued) : KeyOf[r] # KeyOf[q]

(* A counted request is settled within the wait: it gets the slot or its   *)
(* answer, even when the generation in front of it never ends.             *)
EveryRequestIsSettled ==
    \A r \in Requests : pc[r] = "counted" ~> pc[r] \in {"running", "idle"}

=============================================================================
