---------------------------- MODULE InferenceSlot ----------------------------
(***************************************************************************)
(* What the inference queue promises its callers, without channels, locks  *)
(* or counters: one request has the model, a bounded set waits, no key has *)
(* more than its share, and a request leaves with the model or a refusal.  *)
(***************************************************************************)
EXTENDS Naturals, FiniteSets

CONSTANTS Requests, NoRequest, KeyOf, MaxWaiting, PerKeyOutstanding

VARIABLES
    running,    \* the request that has the model, or NoRequest
    waiting,    \* the requests in the queue
    inside      \* the requests charged to their key, running and waiting included

vars == <<running, waiting, inside>>

Init == running = NoRequest /\ waiting = {} /\ inside = {}

SameKey(r) == {q \in inside : KeyOf[q] = KeyOf[r]}

Enter(r) ==
    /\ r \notin inside
    /\ Cardinality(SameKey(r)) < PerKeyOutstanding
    /\ inside' = inside \cup {r}
    /\ UNCHANGED <<running, waiting>>

Wait(r) ==
    /\ r \in inside \ (waiting \cup {running})
    /\ Cardinality(waiting) < MaxWaiting
    /\ waiting' = waiting \cup {r}
    /\ UNCHANGED <<running, inside>>

Start(r) ==
    /\ running = NoRequest
    /\ r \in inside
    /\ running' = r
    /\ waiting' = waiting \ {r}
    /\ UNCHANGED inside

GiveUp(r) ==
    /\ r \in waiting
    /\ waiting' = waiting \ {r}
    /\ UNCHANGED <<running, inside>>

Stop(r) ==
    /\ running = r
    /\ running' = NoRequest
    /\ UNCHANGED <<waiting, inside>>

Exit(r) ==
    /\ r \in inside \ (waiting \cup {running})
    /\ inside' = inside \ {r}
    /\ UNCHANGED <<running, waiting>>

Next == \E r \in Requests : \/ Enter(r) \/ Wait(r) \/ Start(r)
                            \/ GiveUp(r) \/ Stop(r) \/ Exit(r)

Spec == Init /\ [][Next]_vars

=============================================================================
