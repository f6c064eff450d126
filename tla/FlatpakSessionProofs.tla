------------------------ MODULE FlatpakSessionProofs ------------------------
(***************************************************************************)
(* Theorems about FlatpakSession: however many sessions follow each other, *)
(* however many helpers call them, s.agents lists every agent that may be  *)
(* alive, and s.pending counts the calls that have announced themselves.   *)
(***************************************************************************)
EXTENDS FlatpakSession, FiniteSetTheorems, TLAPS

-----------------------------------------------------------------------------
(* The inductive invariant.                                                *)

\* Where a method has the lock.
Locking == {"replacing", "launching", "stopping"}

\* Where a Start has announced itself in s.pending and not counted itself off.
Counting == {"permission", "read", "lock", "replacing", "launching", "return", "fail"}

\* The lock is the handler's that has taken it, so there is one of them.
LockInv == \A h \in Handlers : handler[h] \in Locking => mutex[at[h]] = h

\* s.agents lists workers of its own session, and is empty exactly when the lock's owner
\* found it so.
ListedInv ==
    /\ \A s \in Sessions :
           agents[s] # NoWorker => home[agents[s]] = s /\ worker[agents[s]] # "free"
    /\ \A h \in Handlers :
           /\ handler[h] = "launching" => agents[at[h]] = NoWorker
           /\ handler[h] \in {"replacing", "stopping"} => agents[at[h]] # NoWorker

\* Run's goroutine is its own session's and calls Start only; a helper is in one call.
CallInv ==
    /\ \A s \in Sessions :
           /\ handler[s] \notin {"stopLock", "stopping"}
           /\ handler[s] # "idle" => at[s] = s /\ phase[s] \notin {"none", "starting"}
    /\ \A c \in Callers :
           /\ handler[c] \notin {"look", "finish"}
           /\ helper[c] \in {"stop", "saveRun", "start"} => handler[c] = "idle"

\* The calls that s.pending counts, and what Run's goroutine adds: itself and its Start.
CountedIn(H, A, s) == {c \in Callers : A[c] = s /\ H[c] \in Counting}

Counted(s) == CountedIn(handler, at, s)

Own(s) == IF handler[s] = "idle" THEN 0
          ELSE IF handler[s] \in {"look", "enter", "finish"} THEN 1 ELSE 2

CountInv == \A s \in Sessions : pending[s] = Cardinality(Counted(s)) + Own(s)

IInv == TypeOK /\ LockInv /\ ListedInv /\ LiveAgentsAreListed /\ CallInv /\ CountInv

-----------------------------------------------------------------------------
(* What s.pending counts.                                                  *)

Labels == {"idle", "look", "enter", "permission", "read", "lock", "replacing", "launching",
           "return", "fail", "finish", "stopLock", "stopping"}

\* What a handler adds to the counter of its session when it is at a label.
Weight(h, label) ==
    IF h \in Callers THEN IF label \in Counting THEN 1 ELSE 0
    ELSE IF label = "idle" THEN 0 ELSE IF label \in {"look", "enter", "finish"} THEN 1 ELSE 2

\* The calls that are counted are finitely many, wherever handlers are.
LEMMA CountedFacts ==
    ASSUME NEW H, NEW A, NEW s
    PROVE  /\ IsFiniteSet(CountedIn(H, A, s))
           /\ Cardinality(CountedIn(H, A, s)) \in Nat
           /\ Cardinality(CountedIn(H, A, s)) <= Cardinality(Callers)
<1> DEFINE counted == CountedIn(H, A, s)
<1>1. counted \in SUBSET Callers
  BY DEF CountedIn
<1>2. IsFiniteSet(counted) /\ Cardinality(counted) <= Cardinality(Callers)
  BY <1>1, FS_Subset, NamesAssumption
<1>3. Cardinality(counted) \in Nat
  BY <1>2, FS_CardinalityType
<1> QED
  BY <1>2, <1>3

\* A counter that follows its handlers is within its bound.
LEMMA PendingFacts ==
    ASSUME NEW H, NEW A, NEW P,
           P = [s \in Sessions |-> P[s]],
           \A s \in Sessions :
               \E own \in 0 .. 2 :
                   P[s] = Cardinality(CountedIn(H, A, s)) + own
    PROVE  P \in [Sessions -> 0 .. 2 + Cardinality(Callers)]
<1>1. Cardinality(Callers) \in Nat
  BY FS_CardinalityType, NamesAssumption
<1>2. ASSUME NEW s \in Sessions
      PROVE  P[s] \in 0 .. 2 + Cardinality(Callers)
  <2> DEFINE n == Cardinality(CountedIn(H, A, s))
  <2>1. n \in Nat /\ n <= Cardinality(Callers)
    BY CountedFacts
  <2>2. PICK own \in 0 .. 2 : P[s] = n + own
    OBVIOUS
  <2> HIDE DEF n
  <2> QED
    BY <1>1, <2>1, <2>2
<1> QED
  BY <1>2

\* A handler that goes on within its session, and counts for what its new label says.
LEMMA CountOfAMove ==
    ASSUME IInv, NEW h \in Handlers, NEW label \in Labels, handler[h] # "idle",
           Goto(h, label), UNCHANGED at,
           pending' = [s \in Sessions |->
                           IF s = at[h] THEN pending[s] + (Weight(h, label) - Weight(h, handler[h]))
                           ELSE pending[s]]
    PROVE  /\ CountInv'
           /\ handler' \in [Handlers -> Labels]
           /\ pending' \in [Sessions -> 0 .. 2 + Cardinality(Callers)]
<1>1. handler \in [Handlers -> Labels] /\ at \in [Handlers -> Sessions]
  BY DEF IInv, TypeOK, Labels
<1>2. handler' = [handler EXCEPT ![h] = label] /\ handler' \in [Handlers -> Labels]
  BY <1>1 DEF Goto
<1>3. ASSUME NEW s \in Sessions
      PROVE  pending'[s] = Cardinality(Counted(s)') + Own(s)'
  <2> DEFINE old == Counted(s)
             new == Counted(s)'
  <2>1. new = {c \in Callers : at[c] = s /\ handler'[c] \in Counting}
    BY DEF Counted, CountedIn
  <2>2. IsFiniteSet(old) /\ Cardinality(old) \in Nat
    BY CountedFacts DEF Counted
  <2>3. pending[s] = Cardinality(old) + Own(s)
    BY DEF IInv, CountInv
  <2>4. pending'[s] = IF s = at[h] THEN pending[s] + (Weight(h, label) - Weight(h, handler[h]))
                      ELSE pending[s]
    OBVIOUS
  <2>5. CASE s # at[h]
    <3>1. new = old
      BY <1>1, <1>2, <2>1, <2>5 DEF Counted, CountedIn
    <3>2. s # h
      BY <2>5 DEF IInv, CallInv
    <3>3. Own(s)' = Own(s)
      BY <1>1, <1>2, <3>2 DEF Own, Handlers
    <3> QED
      BY <2>3, <2>4, <2>5, <3>1, <3>3
  <2>6. CASE s = at[h] /\ h \in Callers
    <3>1. s # h
      BY <2>6, NamesAssumption
    <3>2. Own(s)' = Own(s) /\ Own(s) \in 0 .. 2
      BY <1>1, <1>2, <3>1 DEF Own, Handlers
    <3>3. new = IF label \in Counting THEN old \cup {h} ELSE old \ {h}
      BY <1>1, <1>2, <2>1, <2>6 DEF Counted, CountedIn
    <3>4. h \in old <=> handler[h] \in Counting
      BY <2>6 DEF Counted, CountedIn
    <3>5. /\ Cardinality(old \cup {h}) = IF h \in old THEN Cardinality(old) ELSE Cardinality(old) + 1
          /\ Cardinality(old \ {h}) = IF h \in old THEN Cardinality(old) - 1 ELSE Cardinality(old)
      BY <2>2, FS_AddElement, FS_RemoveElement
    <3> HIDE DEF old, new
    <3>6. Cardinality(new) = Cardinality(old) + (Weight(h, label) - Weight(h, handler[h]))
      BY <2>2, <2>6, <3>3, <3>4, <3>5 DEF Weight
    <3>7. Weight(h, label) \in 0 .. 2 /\ Weight(h, handler[h]) \in 0 .. 2
      BY DEF Weight
    <3>8. pending'[s] = Cardinality(new) + Own(s)'
      BY <2>2, <2>3, <2>4, <2>6, <3>2, <3>6, <3>7
    <3> QED
      BY <3>8 DEF new
  <2>7. CASE s = at[h] /\ h \notin Callers
    <3>1. s = h
      BY <2>7 DEF IInv, CallInv, Handlers
    <3>2. new = old
      BY <1>1, <1>2, <2>1, <2>7 DEF Counted, CountedIn
    <3>3. Own(s) = Weight(h, handler[h]) /\ Own(s)' = Weight(h, label)
      BY <1>1, <1>2, <2>7, <3>1 DEF Own, Weight
    <3>4. Weight(h, label) \in 0 .. 2 /\ Weight(h, handler[h]) \in 0 .. 2
      BY DEF Weight
    <3> HIDE DEF old, new
    <3>5. pending'[s] = Cardinality(new) + Own(s)'
      BY <2>2, <2>3, <2>4, <2>7, <3>2, <3>3, <3>4
    <3> QED
      BY <3>5 DEF new
  <2> QED
    BY <2>5, <2>6, <2>7
<1>4. ASSUME NEW s \in Sessions
      PROVE  \E own \in 0 .. 2 :
                 pending'[s] = Cardinality(CountedIn(handler', at', s)) + own
  <2>1. Own(s)' \in 0 .. 2
    BY DEF Own
  <2> QED
    BY <1>3, <2>1 DEF Counted
<1>5. pending' \in [Sessions -> 0 .. 2 + Cardinality(Callers)]
  <2>1. pending' = [s \in Sessions |-> pending'[s]]
    OBVIOUS
  <2> QED
    BY <1>4, <2>1, PendingFacts
<1> QED
  BY <1>2, <1>3, <1>5 DEF CountInv

-----------------------------------------------------------------------------
(* The methods, step by step.                                              *)

\* The same when the label counts for as much as the last one.
LEMMA CountOfALightMove ==
    ASSUME IInv, NEW h \in Handlers, NEW label \in Labels, handler[h] # "idle",
           Goto(h, label), UNCHANGED <<at, pending>>,
           Weight(h, label) = Weight(h, handler[h])
    PROVE  /\ CountInv'
           /\ handler' \in [Handlers -> Labels]
           /\ pending' \in [Sessions -> 0 .. 2 + Cardinality(Callers)]
<1>1. pending \in [Sessions -> Nat] /\ Weight(h, label) \in Nat
  BY FS_CardinalityType, NamesAssumption DEF IInv, TypeOK, Weight
<1>2. pending' = [s \in Sessions |->
                      IF s = at[h] THEN pending[s] + (Weight(h, label) - Weight(h, handler[h]))
                      ELSE pending[s]]
  BY <1>1
<1> QED
  BY <1>2, CountOfAMove

\* A helper that calls nobody yet.
Ready == {"stop", "saveRun", "start"}

HelperKept ==
    /\ helper' \in [Callers -> {"idle", "stop", "stopCalling", "saveStopped",
                                "saveRun", "start", "startCalling", "restore"}]
    /\ \A c \in Callers : helper'[c] \in Ready => helper[c] \in Ready

\* A reply moves a helper on that waits for it, and none other.
LEMMA ReplyFacts ==
    ASSUME IInv, NEW h \in Handlers, NEW ok \in BOOLEAN, Reply(h, ok)
    PROVE  HelperKept
<1>1. ASSUME NEW c \in Callers
      PROVE  /\ helper'[c] \in {"idle", "stop", "stopCalling", "saveStopped",
                                "saveRun", "start", "startCalling", "restore"}
             /\ helper'[c] \in Ready => helper[c] \in Ready
  <2>1. helper'[c] = helper[c] \/ helper'[c] \in {"saveStopped", "idle", "restore"}
    BY DEF Reply
  <2> QED
    BY <2>1 DEF IInv, TypeOK, Ready
<1> QED
  BY <1>1 DEF Reply, HelperKept

\* What a handler's step leaves to the rest of the session.
LEMMA MoveFacts ==
    ASSUME IInv, NEW h \in Handlers, NEW label \in Labels, Goto(h, label), UNCHANGED <<at, phase>>,
           handler[h] # "idle",
           h \in Sessions => label \notin {"stopLock", "stopping"},
           h \in Callers => label \notin {"look", "finish"},
           HelperKept
    PROVE  CallInv'
<1>1. handler \in [Handlers -> Labels] /\ handler' = [handler EXCEPT ![h] = label]
  BY DEF IInv, TypeOK, Goto, Labels
<1>2. ASSUME NEW s \in Sessions
      PROVE  /\ handler'[s] \notin {"stopLock", "stopping"}
             /\ handler'[s] # "idle" => at'[s] = s /\ phase'[s] \notin {"none", "starting"}
  BY <1>1, <1>2 DEF IInv, CallInv, Handlers
<1>3. ASSUME NEW c \in Callers
      PROVE  /\ handler'[c] \notin {"look", "finish"}
             /\ helper'[c] \in {"stop", "saveRun", "start"} => handler'[c] = "idle"
  BY <1>1, <1>3 DEF IInv, CallInv, Handlers, HelperKept, Ready
<1> QED
  BY <1>2, <1>3 DEF CallInv

\* A step that has nothing to do with the lock.
LEMMA PlainMove ==
    ASSUME IInv, NEW h \in Handlers, NEW label \in Labels, label \notin Locking,
           handler[h] \notin Locking, handler[h] # "idle", Goto(h, label),
           h \in Sessions => label # "stopLock",
           h \in Callers => label \notin {"look", "finish"},
           HelperKept,
           \/ UNCHANGED pending /\ Weight(h, label) = Weight(h, handler[h])
           \/ pending' = [s \in Sessions |->
                              IF s = at[h] THEN pending[s] + (Weight(h, label) - Weight(h, handler[h]))
                              ELSE pending[s]],
           UNCHANGED <<file, update, phase, mutex, closing, shutdown, gui, agents, retire, worker,
                       home, process, at, local, ownerStopped>>,
           cancelled' \in [Workers -> BOOLEAN]
    PROVE  IInv'
<1>1. /\ CountInv'
      /\ handler' \in [Handlers -> Labels]
      /\ pending' \in [Sessions -> 0 .. 2 + Cardinality(Callers)]
  BY CountOfAMove, CountOfALightMove
<1>2. CallInv'
  BY MoveFacts DEF Locking
<1>3. \A g \in Handlers : handler'[g] \in Locking => handler'[g] = handler[g]
  BY DEF Goto, IInv, TypeOK
<1>4. LockInv' /\ ListedInv' /\ LiveAgentsAreListed'
  BY <1>3 DEF IInv, LockInv, ListedInv, LiveAgentsAreListed, Locking
<1> QED
  BY <1>1, <1>2, <1>4 DEF IInv, TypeOK, HelperKept, Labels

\* The helpers and the workers of a step that leaves them alone.
LEMMA Unmoved ==
    ASSUME IInv
    PROVE  /\ UNCHANGED helper => HelperKept
           /\ UNCHANGED cancelled => cancelled' \in [Workers -> BOOLEAN]
           /\ \A s \in Sessions : Cancel(s) => cancelled' \in [Workers -> BOOLEAN]
<1>1. UNCHANGED helper => HelperKept
  BY DEF IInv, TypeOK, HelperKept
<1>2. UNCHANGED cancelled => cancelled' \in [Workers -> BOOLEAN]
  BY DEF IInv, TypeOK
<1>3. ASSUME NEW s \in Sessions, Cancel(s)
      PROVE  cancelled' \in [Workers -> BOOLEAN]
  BY <1>3 DEF Cancel
<1> QED
  BY <1>1, <1>2, <1>3

\* From the goroutine's look at the saved endpoint to Start's own.
LEMMA UnlockedSteps ==
    ASSUME IInv, NEW h \in Handlers,
           (h \in Sessions /\ Look(h)) \/ Enter(h) \/ Permission(h) \/ Read(h) \/ Leave(h)
    PROVE  IInv'
<1>0. at[h] \in Sessions /\ handler[h] \in Labels /\ pending \in [Sessions -> Nat]
  BY FS_CardinalityType, NamesAssumption DEF IInv, TypeOK, Labels
<1>1. CASE h \in Sessions /\ Look(h)
  <2>1. PICK label \in {"enter", "finish"} : Goto(h, label)
    BY <1>1 DEF Look
  <2>2. Weight(h, label) = Weight(h, handler[h]) /\ h \notin Callers
    BY <1>1, NamesAssumption DEF Look, Weight
  <2>3. HelperKept /\ cancelled' \in [Workers -> BOOLEAN]
    BY <1>1, Unmoved DEF Look, helpers, supervised
  <2> QED
    BY <1>1, <2>1, <2>2, <2>3, PlainMove DEF Look, session, supervised, helpers, Locking, Labels
<1>2. CASE Enter(h)
  <2>1. CASE closing[at[h]]
    <3>1. PICK label \in {"idle", "finish"} :
              Goto(h, label) /\ (h \in Sessions <=> label = "finish")
      BY <1>2, <2>1 DEF Enter
    <3>2. Weight(h, label) = Weight(h, handler[h]) /\ (h \in Callers => label = "idle")
      BY <1>2, <3>1, NamesAssumption DEF Enter, Weight, Handlers, Counting
    <3>3. HelperKept /\ cancelled' \in [Workers -> BOOLEAN]
      BY <1>2, <2>1, ReplyFacts, Unmoved DEF Enter, supervised
    <3> QED
      BY <1>2, <2>1, <3>1, <3>2, <3>3, PlainMove DEF Enter, supervised, Locking, Labels
  <2>2. CASE ~closing[at[h]]
    <3>1. Weight(h, "permission") - Weight(h, handler[h]) = 1
      BY <1>2 DEF Enter, Weight, Handlers, Counting
    <3>2. pending' = [s \in Sessions |->
                          IF s = at[h] THEN pending[s] + (Weight(h, "permission") - Weight(h, handler[h]))
                          ELSE pending[s]]
      BY <1>0, <1>2, <2>2, <3>1 DEF Enter, Announce
    <3>3. HelperKept /\ cancelled' \in [Workers -> BOOLEAN]
      BY <1>2, <2>2, Unmoved DEF Enter, supervised
    <3> QED
      BY <1>2, <2>2, <3>2, <3>3, PlainMove DEF Enter, supervised, Locking, Labels
  <2> QED
    BY <2>1, <2>2
<1>3. CASE Permission(h) \/ Read(h)
  <2>1. PICK label \in {"read", "lock", "fail"} : Goto(h, label)
    BY <1>3 DEF Permission, Read
  <2>2. Weight(h, label) = Weight(h, handler[h]) /\ handler[h] \in {"permission", "read"}
    BY <1>3 DEF Permission, Read, Weight, Counting
  <2>3. HelperKept /\ cancelled' \in [Workers -> BOOLEAN]
    BY <1>3, Unmoved DEF Permission, Read, helpers, supervised
  <2>4. UNCHANGED <<file, session, supervised, at, helpers>>
    BY <1>3 DEF Permission, Read
  <2> QED
    BY <2>1, <2>2, <2>3, <2>4, PlainMove DEF session, supervised, helpers, Locking, Labels
<1>4. CASE Leave(h)
  <2>1. PICK label \in {"idle", "finish"} :
            Goto(h, label) /\ (label = "idle" <=> h \in Callers \/ handler[h] = "finish")
    BY <1>4 DEF Leave
  <2>2. Weight(h, label) - Weight(h, handler[h]) = -1
    <3>1. h \in Callers => handler[h] # "finish"
      BY DEF IInv, CallInv
    <3> QED
      BY <1>4, <2>1, <3>1 DEF Leave, Weight, Counting
  <2>3. pending' = [s \in Sessions |->
                        IF s = at[h] THEN pending[s] + (Weight(h, label) - Weight(h, handler[h]))
                        ELSE pending[s]]
    BY <1>0, <1>4, <2>2 DEF Leave
  <2>4. HelperKept /\ cancelled' \in [Workers -> BOOLEAN]
    BY <1>4, ReplyFacts, Unmoved DEF Leave, supervised
  <2> QED
    BY <1>4, <2>1, <2>3, <2>4, PlainMove DEF Leave, supervised, Locking, Labels
<1> QED
  BY <1>1, <1>2, <1>3, <1>4

\* A handler that takes the lock is the only one that has it.
LEMMA LockFacts ==
    ASSUME IInv, NEW h \in Handlers, NEW label \in Locking, handler[h] \notin Locking,
           Free(at[h]), Goto(h, label), UNCHANGED at,
           mutex' = [mutex EXCEPT ![at[h]] = h]
    PROVE  LockInv' /\ mutex' \in [Sessions -> Handlers \cup {Nobody}]
<1>1. at[h] \in Sessions /\ mutex[at[h]] = Nobody
  BY DEF IInv, TypeOK, Free
<1>2. ASSUME NEW g \in Handlers, handler'[g] \in Locking
      PROVE  mutex'[at[g]] = g
  <2>1. CASE g = h
    BY <1>1, <2>1 DEF IInv, TypeOK
  <2>2. CASE g # h
    <3>1. handler[g] \in Locking /\ at[g] \in Sessions
      BY <1>2, <2>2 DEF Goto, IInv, TypeOK
    <3>2. mutex[at[g]] = g /\ g # Nobody
      BY <3>1, NamesAssumption DEF IInv, LockInv
    <3> QED
      BY <1>1, <3>1, <3>2 DEF IInv, TypeOK
  <2> QED
    BY <2>1, <2>2
<1> QED
  BY <1>1, <1>2 DEF LockInv, IInv, TypeOK

\* A handler that gives it back leaves nobody with it.
LEMMA UnlockFacts ==
    ASSUME IInv, NEW h \in Handlers, NEW label \in Labels, label \notin Locking,
           handler[h] \in Locking, Goto(h, label), UNCHANGED at, Unlock(at[h])
    PROVE  /\ LockInv' /\ mutex' \in [Sessions -> Handlers \cup {Nobody}]
           /\ \A g \in Handlers : handler'[g] \in Locking => g # h /\ at[g] # at[h]
<1>1. ASSUME NEW g \in Handlers, handler'[g] \in Locking
      PROVE  /\ mutex'[at[g]] = g
             /\ g # h /\ at[g] # at[h]
  <2>1. g # h /\ handler[g] \in Locking /\ at[g] \in Sessions /\ at[h] \in Sessions
    BY <1>1 DEF Goto, IInv, TypeOK
  <2>2. mutex[at[g]] = g /\ mutex[at[h]] = h
    BY <2>1 DEF IInv, LockInv
  <2> QED
    BY <2>1, <2>2 DEF Unlock, IInv, TypeOK
<1> QED
  BY <1>1 DEF LockInv, Unlock, IInv, TypeOK

\* Start and Stop take the lock, and tell the worker in s.agents to stop.
LEMMA LockSteps ==
    ASSUME IInv, NEW h \in Handlers, Lock(h) \/ StopLock(h)
    PROVE  IInv'
<1>0. at[h] \in Sessions /\ handler[h] \in Labels
  BY DEF IInv, TypeOK, Labels
<1>1. HelperKept /\ cancelled' \in [Workers -> BOOLEAN]
  <2>1. CASE Lock(h)
    BY <1>0, <2>1, Unmoved DEF Lock, helpers
  <2>2. CASE StopLock(h)
    BY <1>0, <2>2, Unmoved, ReplyFacts DEF StopLock
  <2> QED
    BY <2>1, <2>2
<1>2. /\ UNCHANGED <<file, update, phase, closing, shutdown, gui, pending, agents, retire, worker,
                     home, process, at, local, ownerStopped>>
      /\ handler[h] \in {"lock", "stopLock"} /\ Free(at[h])
  BY DEF Lock, StopLock, helpers
<1>3. h \in Sessions => handler[h] = "lock"
  BY <1>2 DEF IInv, CallInv
<1>4. CASE \E label \in {"fail", "idle"} :
               /\ Goto(h, label) /\ UNCHANGED mutex
               /\ label = "fail" <=> handler[h] = "lock"
  <2>1. PICK label \in {"fail", "idle"} :
            /\ Goto(h, label) /\ UNCHANGED mutex
            /\ label = "fail" <=> handler[h] = "lock"
    BY <1>4
  <2>2. Weight(h, label) = Weight(h, handler[h])
    BY <1>2, <1>3, <2>1 DEF Weight, Counting, Handlers
  <2> QED
    BY <1>1, <1>2, <1>3, <2>1, <2>2, PlainMove DEF Locking, Labels
<1>5. CASE \E label \in Locking :
               /\ Goto(h, label) /\ mutex' = [mutex EXCEPT ![at[h]] = h]
               /\ label \in {"replacing", "launching"} <=> handler[h] = "lock"
               /\ label = "launching" <=> agents[at[h]] = NoWorker
  <2>1. PICK label \in Locking :
            /\ Goto(h, label) /\ mutex' = [mutex EXCEPT ![at[h]] = h]
            /\ label \in {"replacing", "launching"} <=> handler[h] = "lock"
            /\ label = "launching" <=> agents[at[h]] = NoWorker
    BY <1>5
  <2>2. Weight(h, label) = Weight(h, handler[h])
    BY <1>2, <1>3, <2>1 DEF Weight, Counting, Handlers, Locking
  <2>3. label \in Labels /\ handler[h] # "idle" /\ handler[h] \notin Locking
    BY <1>2, <2>1 DEF Labels, Locking
  <2>4. /\ CountInv'
        /\ handler' \in [Handlers -> Labels]
        /\ pending' \in [Sessions -> 0 .. 2 + Cardinality(Callers)]
    BY <1>2, <2>1, <2>2, <2>3, CountOfALightMove
  <2>5. CallInv'
    BY <1>1, <1>2, <1>3, <2>1, <2>3, MoveFacts DEF Locking
  <2>6. LockInv' /\ mutex' \in [Sessions -> Handlers \cup {Nobody}]
    BY <1>2, <2>1, <2>3, LockFacts
  <2>7. ListedInv' /\ LiveAgentsAreListed'
    BY <1>2, <2>1 DEF IInv, TypeOK, ListedInv, LiveAgentsAreListed, Goto, Locking
  <2> QED
    BY <1>1, <1>2, <2>4, <2>5, <2>6, <2>7 DEF IInv, TypeOK, HelperKept, Labels
<1> QED
  BY <1>2, <1>4, <1>5 DEF Lock, StopLock, Locking

\* Forgetting a worker that is over leaves the other workers where they are.
LEMMA ForgetFacts ==
    ASSUME IInv, NEW s \in Sessions, Forget(s), UNCHANGED <<home, process>>,
           agents[s] # NoWorker => Over(agents[s])
    PROVE  /\ agents' \in [Sessions -> Workers \cup {NoWorker}]
           /\ worker' \in [Workers -> {"free", "watching", "stopping", "backoff",
                                       "checking", "done"}]
           /\ \A o \in Sessions :
                  agents'[o] # NoWorker => home[agents'[o]] = o /\ worker'[agents'[o]] # "free"
           /\ LiveAgentsAreListed'
           /\ agents'[s] = NoWorker /\ \A o \in Sessions \ {s} : agents'[o] = agents[o]
<1>1. /\ agents \in [Sessions -> Workers \cup {NoWorker}]
      /\ home \in [Workers -> Sessions]
      /\ NoWorker \notin Workers
  BY NamesAssumption DEF IInv, TypeOK
<1>2. ASSUME NEW w \in Workers
      PROVE  /\ w # agents[s] => worker'[w] = worker[w]
             /\ w = agents[s] => worker[w] = "done" /\ worker'[w] = "free" /\ home[w] = s
  BY <1>1 DEF Forget, Over, IInv, ListedInv
<1>3. agents' = [agents EXCEPT ![s] = NoWorker]
  BY DEF Forget
<1>4. ASSUME NEW o \in Sessions, agents'[o] # NoWorker
      PROVE  home[agents'[o]] = o /\ worker'[agents'[o]] # "free"
  <2>1. o # s /\ agents'[o] = agents[o] /\ agents[o] \in Workers
    BY <1>1, <1>3, <1>4
  <2>2. home[agents[o]] = o /\ worker[agents[o]] # "free"
    BY <1>4, <2>1 DEF IInv, ListedInv
  <2>3. agents[o] # agents[s]
    BY <1>2, <2>1, <2>2
  <2> QED
    BY <1>2, <2>1, <2>2, <2>3
<1>5. LiveAgentsAreListed'
  BY <1>1, <1>2, <1>3 DEF IInv, LiveAgentsAreListed
<1>6. worker' \in [Workers -> {"free", "watching", "stopping", "backoff", "checking", "done"}]
  BY DEF Forget, IInv, TypeOK
<1> QED
  BY <1>1, <1>3, <1>4, <1>5, <1>6

\* Start has waited for the worker that it replaces.
LEMMA ReplacedStep ==
    ASSUME IInv, NEW h \in Handlers, Replaced(h)
    PROVE  IInv'
<1>1. /\ handler[h] = "replacing" /\ at[h] \in Sessions
      /\ Goto(h, "launching") /\ Forget(at[h]) /\ Over(agents[at[h]])
      /\ UNCHANGED <<file, update, phase, mutex, closing, shutdown, gui, pending, retire,
                     home, cancelled, process, at, helper, local, ownerStopped>>
  BY DEF Replaced, helpers, IInv, TypeOK
<1>2. /\ CountInv'
      /\ handler' \in [Handlers -> Labels]
      /\ pending' \in [Sessions -> 0 .. 2 + Cardinality(Callers)]
  BY <1>1, CountOfALightMove DEF Labels, Weight, Counting
<1>3. CallInv'
  BY <1>1, Unmoved, MoveFacts DEF Labels
<1>4. LockInv'
  BY <1>1 DEF IInv, TypeOK, LockInv, Goto, Locking
<1>5. ListedInv' /\ LiveAgentsAreListed'
  <2>1. ASSUME NEW g \in Handlers, handler'[g] \in Locking
        PROVE  g = h \/ (at[g] # at[h] /\ handler'[g] = handler[g] /\ at[g] \in Sessions)
    BY <1>1, <2>1 DEF IInv, TypeOK, LockInv, Goto, Locking
  <2> QED
    BY <1>1, <2>1, ForgetFacts DEF ListedInv, IInv, Goto, Locking, TypeOK
<1> QED
  BY <1>1, <1>2, <1>3, <1>4, <1>5, ForgetFacts DEF IInv, TypeOK, Labels

\* Start's agent, if it can be started.
LEMMA LaunchAgentStep ==
    ASSUME IInv, NEW h \in Handlers, LaunchAgent(h)
    PROVE  IInv'
<1> DEFINE here == at[h]
<1>1. /\ handler[h] = "launching" /\ here \in Sessions /\ Unlock(here) /\ agents[here] = NoWorker
      /\ UNCHANGED <<file, update, phase, closing, shutdown, gui, pending, retire, at,
                     helper, local, ownerStopped, cancelled>>
  BY DEF LaunchAgent, helpers, supervised, IInv, TypeOK, ListedInv
<1>2. PICK label \in {"fail", "return"} : Goto(h, label)
  BY DEF LaunchAgent
<1>3. /\ CountInv'
      /\ handler' \in [Handlers -> Labels]
      /\ pending' \in [Sessions -> 0 .. 2 + Cardinality(Callers)]
  BY <1>1, <1>2, CountOfALightMove DEF Labels, Weight, Counting
<1>4. CallInv'
  BY <1>1, <1>2, Unmoved, MoveFacts DEF Labels
<1>5. /\ LockInv' /\ mutex' \in [Sessions -> Handlers \cup {Nobody}]
      /\ \A g \in Handlers : handler'[g] \in Locking => at[g] # here /\ handler'[g] = handler[g]
  <2>1. /\ LockInv' /\ mutex' \in [Sessions -> Handlers \cup {Nobody}]
        /\ \A g \in Handlers : handler'[g] \in Locking => g # h /\ at[g] # here
    BY <1>1, <1>2, UnlockFacts DEF Labels, Locking
  <2> QED
    BY <1>2, <2>1 DEF Goto, IInv, TypeOK
<1>6. CASE UNCHANGED <<agents, supervised>>
  <2>1. ListedInv' /\ LiveAgentsAreListed'
    BY <1>1, <1>5, <1>6 DEF supervised, IInv, ListedInv, LiveAgentsAreListed, Locking
  <2> QED
    BY <1>1, <1>3, <1>4, <1>5, <1>6, <2>1 DEF supervised, IInv, TypeOK, Labels
<1>7. ASSUME NEW w \in Workers,
             worker[w] = "free",
             worker' = [worker EXCEPT ![w] = "watching"],
             process' = [process EXCEPT ![w] = "loading"],
             home' = [home EXCEPT ![w] = here],
             agents' = [agents EXCEPT ![here] = w]
      PROVE  IInv'
  <2>1. \A o \in Sessions : agents[o] # w
    BY <1>7, NamesAssumption DEF IInv, ListedInv
  <2>2. /\ worker' \in [Workers -> {"free", "watching", "stopping", "backoff", "checking", "done"}]
        /\ process' \in [Workers -> {"none", "loading", "up", "revoked", "retiring", "parked"}]
        /\ home' \in [Workers -> Sessions]
        /\ agents' \in [Sessions -> Workers \cup {NoWorker}]
    BY <1>1, <1>7 DEF IInv, TypeOK
  <2>3. ASSUME NEW o \in Sessions, agents'[o] # NoWorker
        PROVE  home'[agents'[o]] = o /\ worker'[agents'[o]] # "free"
    <3>1. CASE o = here
      BY <1>7, <3>1 DEF IInv, TypeOK
    <3>2. CASE o # here
      BY <1>7, <2>1, <2>3, <3>2 DEF IInv, TypeOK, ListedInv
    <3> QED
      BY <3>1, <3>2
  <2>4. ASSUME NEW g \in Handlers, handler'[g] \in Locking
        PROVE  agents'[at[g]] = agents[at[g]] /\ handler'[g] = handler[g]
    BY <1>5, <1>7, <2>4 DEF IInv, TypeOK
  <2>5. ListedInv'
    BY <1>1, <2>3, <2>4 DEF IInv, ListedInv, Locking
  <2>6. LiveAgentsAreListed'
    BY <1>1, <1>7, NamesAssumption DEF IInv, TypeOK, LiveAgentsAreListed
  <2> QED
    BY <1>1, <1>3, <1>4, <1>5, <2>2, <2>5, <2>6 DEF IInv, TypeOK, Labels
<1> QED
  BY <1>6, <1>7 DEF LaunchAgent

\* Stop has waited for the worker.
LEMMA StoppedStep ==
    ASSUME IInv, NEW h \in Handlers, Stopped(h)
    PROVE  IInv'
<1>1. /\ handler[h] = "stopping" /\ at[h] \in Sessions
      /\ Goto(h, "idle") /\ Forget(at[h]) /\ Over(agents[at[h]]) /\ Unlock(at[h])
      /\ UNCHANGED <<file, update, phase, closing, shutdown, gui, pending, retire,
                     home, cancelled, process, at, local, ownerStopped>>
      /\ HelperKept
  BY ReplyFacts DEF Stopped, IInv, TypeOK
<1>2. h \in Callers
  BY <1>1 DEF IInv, CallInv, Handlers
<1>3. /\ CountInv'
      /\ handler' \in [Handlers -> Labels]
      /\ pending' \in [Sessions -> 0 .. 2 + Cardinality(Callers)]
  BY <1>1, <1>2, CountOfALightMove DEF Labels, Weight, Counting
<1>4. CallInv'
  BY <1>1, MoveFacts DEF Labels
<1>5. /\ LockInv' /\ mutex' \in [Sessions -> Handlers \cup {Nobody}]
      /\ \A g \in Handlers : handler'[g] \in Locking => g # h /\ at[g] # at[h]
  BY <1>1, UnlockFacts DEF Labels, Locking
<1>6. ListedInv'
  <2>1. ASSUME NEW g \in Handlers, handler'[g] \in Locking
        PROVE  agents'[at[g]] = agents[at[g]] /\ handler'[g] = handler[g] /\ at'[g] = at[g]
    BY <1>1, <1>5, <2>1 DEF IInv, TypeOK, Goto, Forget
  <2> QED
    BY <1>1, <2>1, ForgetFacts DEF IInv, ListedInv, Locking
<1> QED
  BY <1>1, <1>3, <1>4, <1>5, <1>6, ForgetFacts DEF IInv, TypeOK, HelperKept, Labels

-----------------------------------------------------------------------------
(* Workers and their agents.                                               *)

\* A step that leaves the handlers and s.pending alone, and the files of the session.
LEMMA WorkerTypes ==
    ASSUME IInv, NEW w \in Workers,
           \E label \in {"watching", "stopping", "backoff", "checking", "done"} : Become(w, label)
    PROVE  /\ worker' \in [Workers -> {"free", "watching", "stopping", "backoff", "checking", "done"}]
           /\ cancelled' \in [Workers -> BOOLEAN]
           /\ \A o \in Workers \ {w} : worker'[o] = worker[o]
           /\ worker'[w] \in {"watching", "stopping", "backoff", "checking", "done"}
  BY DEF Become, IInv, TypeOK

\* The goroutine of a worker goes from one live state to another, and to its end.
LEMMA SuperviseSteps ==
    ASSUME IInv, NEW w \in Workers, Supervise(w)
    PROVE  IInv'
<1>1. /\ \E label \in {"watching", "stopping", "backoff", "checking", "done"} : Become(w, label)
      /\ worker[w] \in {"watching", "stopping", "backoff", "checking"}
      /\ UNCHANGED <<file, session, home, calls, helpers>>
  BY DEF Supervise, Terminate, Ended, Exited, Backoff, Restart
<1>2. process' \in [Workers -> {"none", "loading", "up", "revoked", "retiring", "parked"}]
  BY DEF Supervise, Terminate, Ended, Exited, Backoff, Restart, Turn, IInv, TypeOK
<1>3. \A o \in Workers \ {w} : process'[o] = process[o]
  BY DEF Supervise, Terminate, Ended, Exited, Backoff, Restart, Turn, IInv, TypeOK
<1>4. process'[w] # "none" => worker'[w] \in {"watching", "stopping"}
  BY DEF Supervise, Terminate, Ended, Exited, Backoff, Restart, Turn, Become, IInv, TypeOK,
         LiveAgentsAreListed
<1>5. LiveAgentsAreListed'
  BY <1>1, <1>3, <1>4, WorkerTypes DEF IInv, LiveAgentsAreListed, session
<1>6. ListedInv' /\ LockInv' /\ CallInv' /\ CountInv'
  BY <1>1, WorkerTypes DEF IInv, TypeOK, ListedInv, LockInv, CallInv, CountInv, Counted, Own, session,
                           calls, helpers
<1> QED
  BY <1>1, <1>2, <1>5, <1>6, WorkerTypes DEF IInv, TypeOK, session, calls, helpers

\* What an agent process does, while it is there.
LEMMA AgentSteps ==
    ASSUME IInv, NEW w \in Workers, Agent(w) \/ Revoked(w) \/ Crash(w)
    PROVE  IInv'
<1>1. \E label \in {"none", "up", "revoked", "retiring", "parked"} : Turn(w, label)
  BY DEF Agent, Load, SaveRevoked, CallRetire, Revoked, Crash
<1>2. /\ process[w] # "none"
      /\ UNCHANGED <<worker, home, cancelled, calls, helpers, phase, mutex, closing, shutdown, gui,
                     pending, agents, update>>
      /\ file' \in {file, "revoked"} /\ retire' \in [Sessions -> BOOLEAN]
  <2>1. home[w] \in Sessions
    BY DEF IInv, TypeOK
  <2> QED
    BY <2>1 DEF Agent, Load, SaveRevoked, CallRetire, Revoked, Crash, session, supervised, IInv, TypeOK
<1>3. LiveAgentsAreListed'
  BY <1>1, <1>2 DEF IInv, TypeOK, LiveAgentsAreListed, Turn
<1>4. ListedInv' /\ LockInv' /\ CallInv' /\ CountInv'
  BY <1>2 DEF IInv, ListedInv, LockInv, CallInv, CountInv, Counted, Own, calls, helpers
<1> QED
  BY <1>1, <1>2, <1>3, <1>4 DEF IInv, TypeOK, Turn, calls, helpers

-----------------------------------------------------------------------------
(* The session, the helpers, and the rest.                                 *)

\* A step that only concerns where Run and the helpers are.
LEMMA QuietStep ==
    ASSUME IInv, TypeOK',
           UNCHANGED <<mutex, pending, agents, worker, home, process, handler, at>>,
           \A s \in Sessions :
               phase'[s] \in {"none", "starting"} => phase[s] \in {"none", "starting"},
           \A c \in Callers : helper'[c] \in Ready => helper[c] \in Ready \/ handler[c] = "idle"
    PROVE  IInv'
<1>1. LockInv' /\ ListedInv' /\ LiveAgentsAreListed'
  BY DEF IInv, LockInv, ListedInv, LiveAgentsAreListed
<1>2. CallInv'
  BY DEF IInv, CallInv, Ready
<1>3. CountInv'
  BY DEF IInv, CountInv, Counted, Own
<1> QED
  BY <1>1, <1>2, <1>3 DEF IInv

\* Run goes on, a window opens or closes, an update is prepared, Retire has the lock.
LEMMA RunSteps ==
    ASSUME IInv, NEW s \in Sessions,
           \/ Retire(s) \/ Launch(s) \/ QuitAtOnce(s) \/ Window(s) \/ ToldToQuit(s)
           \/ ShutDown(s) \/ Close(s) \/ Closed(s) \/ Release(s)
           \/ PrepareUpdate(s) \/ FinishUpdate(s)
    PROVE  IInv'
<1>1. /\ UNCHANGED <<file, mutex, pending, agents, worker, home, process, handler, at,
                     helper, local, ownerStopped>>
  BY DEF Retire, Launch, QuitAtOnce, Window, ToldToQuit, ShutDown, Close, Closed, Release,
         PrepareUpdate, FinishUpdate, calls, helpers, supervised
<1>2. cancelled' \in [Workers -> BOOLEAN]
  <2>1. Cancel(s) \/ UNCHANGED cancelled
    BY DEF Retire, Launch, QuitAtOnce, Window, ToldToQuit, ShutDown, Close, Closed, Release,
           PrepareUpdate, FinishUpdate, supervised
  <2> QED
    BY <2>1, Unmoved
<1>3. /\ phase' \in [Sessions -> {"none", "starting", "serving", "leaving",
                                  "closing", "closed", "released"}]
      /\ \A o \in Sessions :
             phase'[o] \in {"none", "starting"} => phase[o] \in {"none", "starting"}
  BY DEF Retire, Launch, QuitAtOnce, Window, ToldToQuit, ShutDown, Close, Closed, Release,
         PrepareUpdate, FinishUpdate, Move, IInv, TypeOK
<1>4. /\ closing' \in [Sessions -> BOOLEAN] /\ shutdown' \in [Sessions -> BOOLEAN]
      /\ gui' \in [Sessions -> BOOLEAN] /\ retire' \in [Sessions -> BOOLEAN] /\ update' \in BOOLEAN
  <2>1. /\ closing \in [Sessions -> BOOLEAN] /\ shutdown \in [Sessions -> BOOLEAN]
        /\ gui \in [Sessions -> BOOLEAN] /\ retire \in [Sessions -> BOOLEAN] /\ update \in BOOLEAN
    BY DEF IInv, TypeOK
  <2>2. closing' \in [Sessions -> BOOLEAN] /\ shutdown' \in [Sessions -> BOOLEAN]
    BY <2>1 DEF Retire, Launch, QuitAtOnce, Window, ToldToQuit, ShutDown, Close, Closed, Release,
                PrepareUpdate, FinishUpdate
  <2>3. gui' \in [Sessions -> BOOLEAN]
    BY <2>1 DEF Retire, Launch, QuitAtOnce, Window, ToldToQuit, ShutDown, Close, Closed, Release,
                PrepareUpdate, FinishUpdate
  <2>4. retire' \in [Sessions -> BOOLEAN] /\ update' \in BOOLEAN
    BY <2>1 DEF Retire, Launch, QuitAtOnce, Window, ToldToQuit, ShutDown, Close, Closed, Release,
                PrepareUpdate, FinishUpdate
  <2> QED
    BY <2>2, <2>3, <2>4
<1>5. TypeOK'
  BY <1>1, <1>2, <1>3, <1>4 DEF IInv, TypeOK
<1> QED
  BY <1>1, <1>3, <1>5, QuietStep

\* The goroutine begins, and counts.
LEMMA BeginStep ==
    ASSUME IInv, NEW s \in Sessions, Begin(s)
    PROVE  IInv'
<1>1. /\ handler[s] = "idle" /\ phase[s] = "starting" /\ Move(s, "serving") /\ Announce(s)
      /\ Goto(s, "look") /\ at' = [at EXCEPT ![s] = s]
      /\ UNCHANGED <<file, update, mutex, closing, shutdown, agents, retire, worker, home, process,
                     cancelled, helper, local, ownerStopped>>
  BY DEF Begin, IInv, CallInv, supervised, helpers
<1>2. s \in Handlers /\ s \notin Callers
  BY NamesAssumption DEF Handlers
<1>3. /\ handler' \in [Handlers -> Labels] /\ at' \in [Handlers -> Sessions]
      /\ handler'[s] = "look" /\ at'[s] = s
      /\ \A g \in Handlers \ {s} : handler'[g] = handler[g] /\ at'[g] = at[g]
  BY <1>1, <1>2 DEF Goto, IInv, TypeOK, Labels
<1>4. LockInv' /\ ListedInv' /\ LiveAgentsAreListed'
  <2>1. \A g \in Handlers : handler'[g] \in Locking => handler'[g] = handler[g] /\ at'[g] = at[g]
    BY <1>3 DEF Locking
  <2> QED
    BY <1>1, <2>1 DEF IInv, LockInv, ListedInv, LiveAgentsAreListed, Locking
<1>5. CallInv'
  BY <1>1, <1>2, <1>3 DEF IInv, TypeOK, CallInv, Move, Handlers
<1>6. CountInv' /\ pending' \in [Sessions -> 0 .. 2 + Cardinality(Callers)]
  <2>1. \A o \in Sessions : Counted(o)' = Counted(o)
    BY <1>2, <1>3 DEF Counted, CountedIn, Handlers
  <2>2. \A o \in Sessions \ {s} : Own(o)' = Own(o)
    BY <1>3 DEF Own, Handlers
  <2>3. Own(s) = 0 /\ Own(s)' = 1
    BY <1>1, <1>3 DEF Own
  <2>4. \A o \in Sessions : Cardinality(Counted(o)) \in Nat /\ Own(o) \in 0 .. 2 /\ Own(o)' \in 0 .. 2
    BY CountedFacts DEF Counted, Own
  <2>5. pending' = [o \in Sessions |-> IF o = s THEN pending[o] + 1 ELSE pending[o]]
    BY <1>1 DEF Announce, IInv, TypeOK
  <2>6. ASSUME NEW o \in Sessions
        PROVE  pending'[o] = Cardinality(Counted(o)') + Own(o)'
    BY <2>1, <2>2, <2>3, <2>4, <2>5 DEF IInv, CountInv
  <2>7. CountInv'
    BY <2>6 DEF CountInv
  <2>8. \A o \in Sessions : \E own \in 0 .. 2 :
            pending'[o] = Cardinality(CountedIn(handler', at', o)) + own
    BY <2>4, <2>6 DEF Counted
  <2>9. pending' = [o \in Sessions |-> pending'[o]]
    BY <2>5
  <2> QED
    BY <2>7, <2>8, <2>9, PendingFacts
<1>7. gui' \in [Sessions -> BOOLEAN] /\ phase' \in [Sessions -> {"none", "starting", "serving", "leaving",
                                                                 "closing", "closed", "released"}]
  BY DEF Begin, Move, IInv, TypeOK
<1> QED
  BY <1>1, <1>3, <1>4, <1>5, <1>6, <1>7 DEF IInv, TypeOK, Labels

\* The tick forgets a worker that is over, while nobody has the lock.
LEMMA IdleStep ==
    ASSUME IInv, NEW s \in Sessions, Idle(s)
    PROVE  IInv'
<1>1. /\ Free(s) /\ Forget(s) /\ (agents[s] # NoWorker => Over(agents[s]))
      /\ Move(s, "leaving") \/ UNCHANGED phase
      /\ UNCHANGED <<file, update, mutex, closing, shutdown, gui, pending, retire, home,
                     cancelled, process, handler, at, helper, local, ownerStopped>>
  BY DEF Idle, calls, helpers
<1>2. LockInv' /\ CountInv'
  BY <1>1 DEF IInv, LockInv, CountInv, Counted, Own
<1>3. CallInv' /\ phase' \in [Sessions -> {"none", "starting", "serving", "leaving",
                                          "closing", "closed", "released"}]
  BY <1>1 DEF IInv, TypeOK, CallInv, Move
<1>4. ListedInv'
  <2>1. ASSUME NEW g \in Handlers, handler[g] \in Locking
        PROVE  at[g] \in Sessions \ {s}
    <3>1. mutex[at[g]] = g /\ g # Nobody /\ at[g] \in Sessions
      BY <2>1, NamesAssumption DEF IInv, TypeOK, LockInv
    <3> QED
      BY <1>1, <3>1 DEF Free
  <2> QED
    BY <1>1, <2>1, ForgetFacts DEF IInv, ListedInv, Locking
<1> QED
  BY <1>1, <1>2, <1>3, <1>4, ForgetFacts DEF IInv, TypeOK

\* The end of a session ends what runs in it, and leaves the other sessions as they are.
LEMMA VanishStep ==
    ASSUME IInv, NEW s \in Sessions, Vanish(s)
    PROVE  IInv'
<1>1. /\ Move(s, "none") /\ Unlock(s)
      /\ closing' = [closing EXCEPT ![s] = FALSE]
      /\ shutdown' = [shutdown EXCEPT ![s] = FALSE]
      /\ gui' = [gui EXCEPT ![s] = FALSE]
      /\ pending' = [pending EXCEPT ![s] = 0]
      /\ agents' = [agents EXCEPT ![s] = NoWorker]
      /\ retire' = [retire EXCEPT ![s] = FALSE]
      /\ worker' = [w \in Workers |-> IF home[w] = s THEN "free" ELSE worker[w]]
      /\ process' = [w \in Workers |-> IF home[w] = s THEN "none" ELSE process[w]]
      /\ handler' = [h \in Handlers |-> IF at[h] = s THEN "idle" ELSE handler[h]]
      /\ cancelled' = [w \in Workers |-> IF home[w] = s THEN FALSE ELSE cancelled[w]]
      /\ UNCHANGED <<file, update, home, at, helper, local, ownerStopped>>
  BY DEF Vanish, helpers
<1>2. TypeOK'
  <2>1. /\ phase' \in [Sessions -> {"none", "starting", "serving", "leaving",
                                    "closing", "closed", "released"}]
        /\ mutex' \in [Sessions -> Handlers \cup {Nobody}]
        /\ agents' \in [Sessions -> Workers \cup {NoWorker}]
    BY <1>1 DEF Move, Unlock, IInv, TypeOK
  <2>2. /\ closing' \in [Sessions -> BOOLEAN] /\ shutdown' \in [Sessions -> BOOLEAN]
        /\ gui' \in [Sessions -> BOOLEAN] /\ retire' \in [Sessions -> BOOLEAN]
        /\ cancelled' \in [Workers -> BOOLEAN]
    BY <1>1 DEF IInv, TypeOK
  <2>3. pending' \in [Sessions -> 0 .. 2 + Cardinality(Callers)]
    BY <1>1, FS_CardinalityType, NamesAssumption DEF IInv, TypeOK
  <2>4. /\ worker' \in [Workers -> {"free", "watching", "stopping", "backoff", "checking", "done"}]
        /\ process' \in [Workers -> {"none", "loading", "up", "revoked", "retiring", "parked"}]
        /\ handler' \in [Handlers -> Labels]
    BY <1>1 DEF IInv, TypeOK, Labels
  <2> QED
    BY <1>1, <2>1, <2>2, <2>3, <2>4 DEF IInv, TypeOK, Labels
<1>3. ASSUME NEW h \in Handlers, handler'[h] # "idle"
      PROVE  at[h] \in Sessions \ {s} /\ handler'[h] = handler[h]
  BY <1>1, <1>3 DEF IInv, TypeOK
<1>4. LockInv'
  BY <1>1, <1>3 DEF IInv, TypeOK, LockInv, Unlock, Locking
<1>5. ListedInv'
  <2>1. ASSUME NEW o \in Sessions, agents'[o] # NoWorker
        PROVE  home'[agents'[o]] = o /\ worker'[agents'[o]] # "free"
    BY <1>1, <2>1 DEF IInv, TypeOK, ListedInv
  <2> QED
    BY <1>1, <1>3, <2>1 DEF IInv, TypeOK, ListedInv
<1>6. LiveAgentsAreListed'
  BY <1>1 DEF IInv, TypeOK, LiveAgentsAreListed
<1>7. CallInv'
  BY <1>1 DEF IInv, TypeOK, CallInv, Move, Handlers
<1>8. CountInv'
  <2>1. Counted(s)' = {} /\ Own(s)' = 0
    <3>1. handler'[s] = "idle"
      BY <1>1 DEF IInv, CallInv, Handlers
    <3> QED
      BY <1>1, <3>1 DEF Counted, CountedIn, Own, Counting, Handlers
  <2>2. ASSUME NEW o \in Sessions \ {s}
        PROVE  Counted(o)' = Counted(o) /\ Own(o)' = Own(o)
    <3>1. handler'[o] = handler[o]
      BY <1>1 DEF IInv, CallInv, Handlers
    <3> QED
      BY <1>1, <3>1 DEF Counted, CountedIn, Own, Handlers
  <2> QED
    <3>1. pending'[s] = Cardinality(Counted(s)') + Own(s)'
      BY <1>1, <2>1, FS_EmptySet DEF IInv, TypeOK
    <3>2. ASSUME NEW o \in Sessions \ {s}
          PROVE  pending'[o] = Cardinality(Counted(o)') + Own(o)'
      BY <1>1, <2>2 DEF IInv, TypeOK, CountInv
    <3> QED
      BY <3>1, <3>2 DEF CountInv
<1> QED
  BY <1>2, <1>4, <1>5, <1>6, <1>7, <1>8 DEF IInv

\* A helper calls a method, or goes on by itself.
LEMMA HelpSteps ==
    ASSUME IInv, NEW c \in Callers, Help(c)
    PROVE  IInv'
<1>1. UNCHANGED <<session, supervised>> /\ c \in Handlers
  BY DEF Help, BeginPause, BeginResume, CallStop, SaveStopped, SaveRun, CallStart, StartFails,
         Restore, HelperEnds, Handlers
<1>2. file' \in {"run", "stopped", "revoked"} /\ local' \in [Callers -> {"run", "stopped", "revoked"}]
  BY DEF Help, BeginPause, BeginResume, CallStop, SaveStopped, SaveRun, CallStart, StartFails,
         Restore, HelperEnds, IInv, TypeOK
<1>3. ownerStopped' \in BOOLEAN
  BY DEF Help, BeginPause, BeginResume, CallStop, SaveStopped, SaveRun, CallStart, StartFails,
         Restore, HelperEnds, IInv, TypeOK
<1>4. PICK label \in {"idle", "stop", "stopCalling", "saveStopped",
                      "saveRun", "start", "startCalling", "restore"} : Continue(c, label)
  BY DEF Help, BeginPause, BeginResume, CallStop, SaveStopped, SaveRun, CallStart, StartFails,
         Restore, HelperEnds
<1>5. helper' \in [Callers -> {"idle", "stop", "stopCalling", "saveStopped",
                               "saveRun", "start", "startCalling", "restore"}]
  BY <1>4 DEF Continue, IInv, TypeOK
<1>6. CASE UNCHANGED calls
  <2>1. helper'[c] \in Ready => handler[c] = "idle"
    <3>1. CASE BeginPause(c) \/ BeginResume(c)
      BY <3>1 DEF BeginPause, BeginResume
    <3>2. CASE SaveRun(c)
      BY <3>2 DEF SaveRun, IInv, CallInv
    <3>3. CASE CallStop(c) \/ CallStart(c)
      BY <3>3 DEF CallStop, CallStart, Continue, Ready, IInv, TypeOK
    <3>4. CASE SaveStopped(c) \/ StartFails(c) \/ Restore(c) \/ HelperEnds(c)
      <4>1. helper' = [helper EXCEPT ![c] = "idle"] \/ helper' = [helper EXCEPT ![c] = "restore"]
        BY <3>4 DEF SaveStopped, StartFails, Restore, HelperEnds, Continue
      <4>2. helper'[c] \in {"idle", "restore"}
        BY <4>1 DEF IInv, TypeOK
      <4> QED
        BY <4>2 DEF Ready
    <3> QED
      BY <3>1, <3>2, <3>3, <3>4 DEF Help
  <2>2. \A d \in Callers : helper'[d] \in Ready => helper[d] \in Ready \/ handler[d] = "idle"
    BY <1>4, <2>1 DEF Continue, IInv, TypeOK
  <2>3. TypeOK'
    BY <1>1, <1>2, <1>3, <1>5, <1>6 DEF IInv, TypeOK, session, supervised, calls
  <2> QED
    BY <1>1, <1>6, <2>2, <2>3, QuietStep DEF session, supervised, calls
<1>7. CASE CallStop(c) \/ CallStart(c)
  <2>1. handler[c] = "idle" /\ helper'[c] \notin Ready
    BY <1>7 DEF CallStop, CallStart, Continue, IInv, TypeOK, CallInv, Ready
  <2>2. PICK s \in Sessions, method \in {"stopLock", "enter"} :
            at' = [at EXCEPT ![c] = s] /\ Goto(c, method)
    BY <1>7 DEF CallStop, CallStart, Call
  <2>3. /\ handler' \in [Handlers -> Labels] /\ at' \in [Handlers -> Sessions]
        /\ handler'[c] = method
        /\ \A g \in Handlers \ {c} : handler'[g] = handler[g] /\ at'[g] = at[g]
    BY <1>1, <2>2 DEF Goto, IInv, TypeOK, Labels
  <2>4. LockInv' /\ ListedInv' /\ LiveAgentsAreListed'
    <3>1. \A g \in Handlers : handler'[g] \in Locking => handler'[g] = handler[g] /\ at'[g] = at[g]
      BY <2>2, <2>3 DEF Locking
    <3> QED
      BY <1>1, <3>1 DEF IInv, LockInv, ListedInv, LiveAgentsAreListed, Locking, session, supervised
  <2>5. CallInv'
    <3>1. \A d \in Callers \ {c} : helper'[d] = helper[d]
      BY <1>4 DEF Continue
    <3>2. \A d \in Callers : d \in Handlers
      BY DEF Handlers
    <3>3. \A s1 \in Sessions : s1 \in Handlers \ {c}
      BY NamesAssumption DEF Handlers
    <3> QED
      BY <1>1, <2>1, <2>2, <2>3, <3>1, <3>2, <3>3 DEF IInv, CallInv, Ready, session
  <2>6. CountInv'
    <3>1. ASSUME NEW o \in Sessions
          PROVE  Counted(o)' = Counted(o) /\ Own(o)' = Own(o)
      <4>1. o # c /\ o \in Handlers /\ Callers \subseteq Handlers
        BY NamesAssumption DEF Handlers
      <4> QED
        BY <2>1, <2>2, <2>3, <4>1 DEF Counted, CountedIn, Own, Counting
    <3> QED
      BY <1>1, <3>1 DEF IInv, CountInv, session
  <2> QED
    BY <1>1, <1>2, <1>3, <1>5, <2>3, <2>4, <2>5, <2>6 DEF IInv, TypeOK, Labels, session, supervised
<1> QED
  BY <1>6, <1>7 DEF Help, BeginPause, BeginResume, SaveStopped, SaveRun, StartFails, Restore,
                    HelperEnds

-----------------------------------------------------------------------------
(* The theorems.                                                           *)

\* Before the first session nobody has the lock, no worker runs and nothing is counted.
LEMMA InitIInv == Init => IInv
<1> SUFFICES ASSUME Init PROVE IInv
  OBVIOUS
<1>1. TypeOK
  <2>1. 0 \in 0 .. 2 + Cardinality(Callers)
    BY FS_CardinalityType, NamesAssumption
  <2>2. pending \in [Sessions -> 0 .. 2 + Cardinality(Callers)]
    BY <2>1 DEF Init
  <2>3. home \in [Workers -> Sessions] /\ at \in [Handlers -> Sessions]
    BY DEF Init
  <2> QED
    BY <2>2, <2>3 DEF Init, TypeOK
<1>2. LockInv /\ ListedInv /\ LiveAgentsAreListed
  BY DEF Init, LockInv, ListedInv, LiveAgentsAreListed, Locking
<1>3. CallInv
  BY DEF Init, CallInv, Handlers
<1>4. ASSUME NEW s \in Sessions
      PROVE  pending[s] = Cardinality(Counted(s)) + Own(s)
  <2>1. Counted(s) = {} /\ Own(s) = 0 /\ pending[s] = 0
    BY DEF Init, Counted, CountedIn, Own, Counting, Handlers
  <2> QED
    BY <2>1, FS_EmptySet
<1> QED
  BY <1>1, <1>2, <1>3, <1>4 DEF IInv, CountInv

\* Every step keeps the invariant.
LEMMA NextKeepsIInv ==
    ASSUME IInv, [Next]_vars
    PROVE  IInv'
<1>1. CASE UNCHANGED vars
  <2>1. TypeOK'
    BY <1>1 DEF IInv, TypeOK, vars, session, supervised, calls, helpers
  <2> QED
    BY <1>1, <2>1, QuietStep DEF vars, session, supervised, calls, helpers
<1>2. ASSUME NEW h \in Handlers, Handle(h)
      PROVE  IInv'
  BY <1>2, UnlockedSteps, LockSteps, ReplacedStep, LaunchAgentStep, StoppedStep DEF Handle
<1>3. ASSUME NEW w \in Workers, Supervise(w) \/ Agent(w) \/ Revoked(w) \/ Crash(w)
      PROVE  IInv'
  BY <1>3, SuperviseSteps, AgentSteps
<1>4. ASSUME NEW s \in Sessions,
             \/ Retire(s) \/ Launch(s) \/ QuitAtOnce(s) \/ Begin(s) \/ Window(s)
             \/ Idle(s) \/ ToldToQuit(s) \/ End(s) \/ Killed(s)
             \/ PrepareUpdate(s) \/ FinishUpdate(s)
      PROVE  IInv'
  BY <1>4, RunSteps, BeginStep, IdleStep, VanishStep DEF End, Exit, Killed
<1>5. CASE AbandonUpdate
  <2>1. UNCHANGED <<mutex, pending, agents, worker, home, process, handler, at, phase, helper>>
    BY <1>5 DEF AbandonUpdate, supervised, calls, helpers
  <2>2. TypeOK'
    BY <1>5 DEF AbandonUpdate, supervised, calls, helpers, IInv, TypeOK
  <2> QED
    BY <2>1, <2>2, QuietStep
<1>6. ASSUME NEW c \in Callers, Help(c)
      PROVE  IInv'
  BY <1>6, HelpSteps
<1> QED
  BY <1>1, <1>2, <1>3, <1>4, <1>5, <1>6 DEF Next

\* The inductive invariant: who has s.mu, what s.agents lists, and what s.pending counts,
\* at every step of every handler, worker, session and helper.
THEOREM Inductive == Spec => []IInv
  BY InitIInv, NextKeepsIInv, PTL DEF Spec

\* TypeOK; s.pending in particular never falls below zero, and is at most two above the
\* number of helpers, however they and the sessions come and go.
THEOREM TypeCorrect == Spec => []TypeOK
  BY Inductive, PTL DEF IInv

\* Whoever finds no worker in s.agents, or one that is over, may rely on it: no agent of the
\* connection runs that s.agents does not list.
THEOREM AgentsListed == Spec => []LiveAgentsAreListed
  BY Inductive, PTL DEF IInv

=============================================================================
