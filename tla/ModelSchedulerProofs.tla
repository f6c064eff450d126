------------------------ MODULE ModelSchedulerProofs ------------------------
(***************************************************************************)
(* Proofs about ModelScheduler for every set of requests and keys and all  *)
(* limits with 0 < PerKeyOutstanding < MaxWaiting.                         *)
(***************************************************************************)
EXTENDS ModelSchedulerRefinement, FiniteSetTheorems, SequenceTheorems, TLAPS

-----------------------------------------------------------------------------
(* The inductive invariant: TypeOK says nothing about a counter's lower    *)
(* bound when it is decremented, so the counters are tied to the requests  *)
(* they count, and the slot and the send queue to the requests in them.    *)

\* The senders blocked on the channel: each at "parked", and each once.
ParkedInv ==
    /\ \A i \in 1..Len(parked) : pc[parked[i]] = "parked"
    /\ \A i, j \in 1..Len(parked) : parked[i] = parked[j] => i = j

\* The token and its owner, without counting.
OwnerInv ==
    /\ \A r, q \in Requests : pc[r] \in Holding /\ pc[q] \in Holding => r = q
    /\ slot = 1 <=> \E r \in Requests : pc[r] \in Holding
    /\ parked # <<>> => slot = 1

\* The two counters.
Charged(k) == {q \in With(Inside) : KeyOf[q] = k}

CountInv ==
    /\ activity.waiting = Cardinality(With(Queued))
    /\ activity.waiting <= MaxWaiting
    /\ \A k \in Keys : /\ keys[k] = Cardinality(Charged(k))
                       /\ keys[k] <= PerKeyOutstanding

IInv == TypeOK /\ ParkedInv /\ OwnerInv /\ ActivityTellsWhoRuns /\ CountInv

-----------------------------------------------------------------------------
\* What the departure from the middle of the send queue leaves.
LEMMA RemoveAtProperties ==
    ASSUME NEW S, NEW s \in Seq(S), NEW i \in 1..Len(s)
    PROVE  /\ RemoveAt(s, i) \in Seq(S)
           /\ Len(RemoveAt(s, i)) = Len(s) - 1
           /\ \A j \in 1..Len(s) - 1 :
                 RemoveAt(s, i)[j] = s[IF j < i THEN j ELSE j + 1]
<1> DEFINE a == SubSeq(s, 1, i - 1)
           b == SubSeq(s, i + 1, Len(s))
<1>0. \A j \in 1..Len(s) : s[j] \in S
  BY ElementOfSeq
<1>1. a \in Seq(S) /\ Len(a) = i - 1 /\ \A j \in 1..i - 1 : a[j] = s[j]
  <2>1. \A j \in 1..i - 1 : s[j] \in S
    BY <1>0
  <2> QED
    BY <2>1, SubSeqProperties
<1>2. b \in Seq(S) /\ Len(b) = Len(s) - i /\ \A j \in 1..Len(s) - i : b[j] = s[i + j]
  <2>1. \A j \in i + 1..Len(s) : s[j] \in S
    BY <1>0
  <2> QED
    BY <2>1, SubSeqProperties
<1>3. RemoveAt(s, i) = a \o b
  BY DEF RemoveAt
<1> HIDE DEF a, b
<1>4. /\ a \o b \in Seq(S)
      /\ Len(a \o b) = Len(a) + Len(b)
      /\ \A j \in 1..Len(a) + Len(b) :
            (a \o b)[j] = IF j <= Len(a) THEN a[j] ELSE b[j - Len(a)]
  BY <1>1, <1>2, ConcatProperties
<1>5. Len(s) \in Nat /\ Len(a) + Len(b) = Len(s) - 1
  BY <1>1, <1>2, LenProperties
<1>6. ASSUME NEW j \in 1..Len(s) - 1
      PROVE  (a \o b)[j] = s[IF j < i THEN j ELSE j + 1]
  <2>1. CASE j < i
    BY <1>1, <1>4, <1>5, <2>1
  <2>2. CASE ~(j < i)
    <3>1. j - (i - 1) \in 1..Len(s) - i /\ i + (j - (i - 1)) = j + 1
      BY <1>5, <2>2
    <3> QED
      BY <1>1, <1>2, <1>4, <1>5, <2>2, <3>1
  <2> QED
    BY <2>1, <2>2
<1> QED
  BY <1>3, <1>4, <1>5, <1>6

\* A request that moves to a label joins or leaves each set of labels.
LEMMA WithAfterGoto ==
    ASSUME TypeOK, NEW r \in Requests, NEW label, Goto(r, label), NEW s
    PROVE  With(s)' = IF label \in s THEN With(s) \cup {r} ELSE With(s) \ {r}
  BY DEF With, Goto, TypeOK

\* Every set of requests is finite, so it can be counted.
LEMMA WithIsFinite ==
    /\ \A s : With(s) \subseteq Requests /\ IsFiniteSet(With(s))
    /\ \A k : Charged(k) \subseteq Requests /\ IsFiniteSet(Charged(k))
<1>1. \A s : With(s) \subseteq Requests /\ IsFiniteSet(With(s))
  BY RequestsAssumption, FS_Subset DEF With
<1>2. \A k : Charged(k) \subseteq Requests /\ IsFiniteSet(Charged(k))
  BY <1>1, RequestsAssumption, FS_Subset DEF Charged
<1> QED
  BY <1>1, <1>2

\* A request that moves within a set of labels does not change its size.
LEMMA CountAfterGoto ==
    ASSUME TypeOK, NEW r \in Requests, NEW label, Goto(r, label), NEW s
    PROVE  /\ (label \in s <=> pc[r] \in s) =>
                 Cardinality(With(s)') = Cardinality(With(s))
           /\ label \in s /\ pc[r] \notin s =>
                 Cardinality(With(s)') = Cardinality(With(s)) + 1
           /\ label \notin s /\ pc[r] \in s =>
                 Cardinality(With(s)') = Cardinality(With(s)) - 1
<1>1. With(s)' = IF label \in s THEN With(s) \cup {r} ELSE With(s) \ {r}
  BY WithAfterGoto
<1>2. r \in With(s) <=> pc[r] \in s
  BY DEF With
<1>3. IsFiniteSet(With(s))
  BY WithIsFinite
<1>4. /\ Cardinality(With(s) \cup {r}) =
            IF r \in With(s) THEN Cardinality(With(s)) ELSE Cardinality(With(s)) + 1
      /\ Cardinality(With(s) \ {r}) =
            IF r \in With(s) THEN Cardinality(With(s)) - 1 ELSE Cardinality(With(s))
  BY <1>3, FS_AddElement, FS_RemoveElement
<1>5. CASE label \in s
  BY <1>1, <1>2, <1>4, <1>5
<1>6. CASE label \notin s
  BY <1>1, <1>2, <1>4, <1>6
<1> QED
  BY <1>5, <1>6

\* A request that enters or leaves changes the charge of its own key by one.
LEMMA ChargeAfterGoto ==
    ASSUME TypeOK, NEW r \in Requests, NEW label, Goto(r, label), NEW k
    PROVE  /\ (label \in Inside <=> pc[r] \in Inside) \/ k # KeyOf[r] =>
                 Cardinality(Charged(k)') = Cardinality(Charged(k))
           /\ label \in Inside /\ pc[r] \notin Inside /\ k = KeyOf[r] =>
                 Cardinality(Charged(k)') = Cardinality(Charged(k)) + 1
           /\ label \notin Inside /\ pc[r] \in Inside /\ k = KeyOf[r] =>
                 Cardinality(Charged(k)') = Cardinality(Charged(k)) - 1
<1>1. \A q \in Requests : pc'[q] = IF q = r THEN label ELSE pc[q]
  BY DEF TypeOK, Goto
<1>2. r \in Charged(k) <=> pc[r] \in Inside /\ k = KeyOf[r]
  BY DEF Charged, With
<1>3. CASE (label \in Inside <=> pc[r] \in Inside) \/ k # KeyOf[r]
  <2>1. Charged(k)' = Charged(k)
    BY <1>1, <1>3 DEF Charged, With
  <2> QED
    BY <2>1, <1>3
<1>4. CASE label \in Inside /\ pc[r] \notin Inside /\ k = KeyOf[r]
  <2>1. Charged(k)' = Charged(k) \cup {r}
    BY <1>1, <1>4 DEF Charged, With
  <2>2. Cardinality(Charged(k) \cup {r}) = Cardinality(Charged(k)) + 1
    BY <1>2, <1>4, WithIsFinite, FS_AddElement
  <2> QED
    BY <2>1, <2>2, <1>4
<1>5. CASE label \notin Inside /\ pc[r] \in Inside /\ k = KeyOf[r]
  <2>1. Charged(k)' = Charged(k) \ {r}
    BY <1>1, <1>5 DEF Charged, With
  <2>2. Cardinality(Charged(k) \ {r}) = Cardinality(Charged(k)) - 1
    BY <1>2, <1>5, WithIsFinite, FS_RemoveElement
  <2> QED
    BY <2>1, <2>2, <1>5
<1> QED
  BY <1>3, <1>4, <1>5

-----------------------------------------------------------------------------
LEMMA InitIInv == Init => IInv
<1> SUFFICES ASSUME Init PROVE IInv
  OBVIOUS
<1>1. TypeOK
  BY EmptySeq DEF Init, TypeOK, PcValues, Inside
<1>2. ParkedInv
  BY DEF Init, ParkedInv
<1>3. OwnerInv
  BY DEF Init, OwnerInv, Holding
<1>4. ActivityTellsWhoRuns
  BY DEF Init, ActivityTellsWhoRuns, With
<1>5. CountInv
  <2>1. With(Queued) = {}
    BY DEF Init, With, Queued
  <2>2. \A k \in Keys : Charged(k) = {}
    BY DEF Init, With, Charged, Queued, Inside, Holding
  <2>3. Cardinality({}) = 0 /\ 0 <= MaxWaiting /\ 0 <= PerKeyOutstanding
    BY FS_EmptySet, LimitsAssumption
  <2>4. \A k \in Keys : keys[k] = 0
    BY DEF Init
  <2>5. activity.waiting = 0
    BY DEF Init
  <2> QED
    BY <2>1, <2>2, <2>3, <2>4, <2>5 DEF CountInv
<1> QED
  BY <1>1, <1>2, <1>3, <1>4, <1>5 DEF IInv

(* One lemma per action: what it does to each part of the invariant.       *)

LEMMA ArriveKeepsIInv ==
    ASSUME IInv, NEW r \in Requests, Arrive(r)
    PROVE  IInv'
<1> USE DEF IInv
<1>0. /\ KeyOf[r] \in Keys
      /\ pc[r] = "idle"
      /\ Goto(r, "counted")
      /\ UNCHANGED <<slot, parked, activity>>
      /\ \A q \in Requests : pc'[q] = IF q = r THEN "counted" ELSE pc[q]
  BY RequestsAssumption DEF Arrive, Goto, TypeOK
<1>1. TypeOK'
  BY <1>0 DEF Arrive, TypeOK, Goto, PcValues, Inside
<1>2. ParkedInv'
  BY <1>0, ElementOfSeq DEF TypeOK, ParkedInv
<1>3. OwnerInv'
  BY <1>0 DEF OwnerInv, Holding
<1>4. ActivityTellsWhoRuns'
  BY <1>0 DEF ActivityTellsWhoRuns, With
<1>5. CountInv'
  <2>1. Cardinality(With(Queued)') = Cardinality(With(Queued))
    BY <1>0, CountAfterGoto DEF Queued
  <2>2. \A k \in Keys : Cardinality(Charged(k)') =
                 Cardinality(Charged(k)) + IF k = KeyOf[r] THEN 1 ELSE 0
    BY <1>0, ChargeAfterGoto, WithIsFinite, FS_CardinalityType
        DEF Inside, Queued, Holding
  <2>3. ASSUME NEW k \in Keys
        PROVE  keys'[k] = Cardinality(Charged(k)') /\ keys'[k] <= PerKeyOutstanding
    BY <2>2, <1>0, LimitsAssumption DEF Arrive, CountInv, TypeOK
  <2> QED
    BY <2>1, <2>3, <1>0 DEF CountInv
<1> QED
  BY <1>1, <1>2, <1>3, <1>4, <1>5

LEMMA AcquireKeepsIInv ==
    ASSUME IInv, NEW r \in Requests, Acquire(r)
    PROVE  IInv'
<1> USE DEF IInv
<1>0. UNCHANGED <<parked, keys>> /\ pc[r] = "counted"
  BY DEF Acquire
<1>1. PICK label \in {"running", "forgetting", "waiting"} : Goto(r, label)
  BY DEF Acquire, TakeFreeSlot
<1>2. \A q \in Requests : pc'[q] = IF q = r THEN label ELSE pc[q]
  BY <1>1 DEF Goto, TypeOK
<1>3. \A k \in Keys : Cardinality(Charged(k)') = Cardinality(Charged(k))
  BY <1>0, <1>1, ChargeAfterGoto DEF Inside, Queued, Holding
<1>4. ParkedInv'
  BY <1>0, <1>2, ElementOfSeq DEF TypeOK, ParkedInv
<1>5. CASE TakeFreeSlot(r)
  <2>0. label = "running"
    BY <1>1, <1>2, <1>5 DEF TakeFreeSlot, Goto, TypeOK
  <2>1. TypeOK'
    BY <1>0, <1>5, RequestsAssumption DEF TakeFreeSlot, TypeOK, Goto, PcValues, Inside, Holding
  <2>2. OwnerInv'
    BY <1>0, <1>2, <1>5, <2>0 DEF TakeFreeSlot, OwnerInv, Holding
  <2>3. ActivityTellsWhoRuns'
    <3>1. \A q \in Requests : pc[q] \notin Holding
      BY <1>5 DEF OwnerInv, TakeFreeSlot
    <3>2. With({"running", "dropping"})' = {r}
      BY <1>2, <2>0, <3>1 DEF With, Holding
    <3>3. activity'.running = 1 /\ activity'.model = ModelOf[r]
      BY <1>5 DEF TakeFreeSlot, TypeOK
    <3> QED
      BY <3>2, <3>3 DEF ActivityTellsWhoRuns
  <2>4. CountInv'
    <3>1. activity'.waiting = activity.waiting
      BY <1>5 DEF TakeFreeSlot, TypeOK
    <3>2. Cardinality(With(Queued)') = Cardinality(With(Queued))
      BY <1>0, <1>1, <2>0, CountAfterGoto DEF Queued
    <3> QED
      BY <1>0, <1>3, <3>1, <3>2 DEF CountInv
  <2> QED
    BY <2>1, <1>4, <2>2, <2>3, <2>4
<1>6. CASE slot = 1 /\ QueueFull /\ Goto(r, "forgetting") /\ UNCHANGED <<slot, activity>>
  <2>0. label = "forgetting"
    BY <1>1, <1>2, <1>6 DEF Goto, TypeOK
  <2>1. TypeOK'
    BY <1>0, <1>6 DEF TypeOK, Goto, PcValues, Inside
  <2>2. OwnerInv'
    BY <1>0, <1>2, <1>6, <2>0 DEF OwnerInv, Holding
  <2>3. ActivityTellsWhoRuns'
    BY <1>0, <1>2, <1>6, <2>0 DEF ActivityTellsWhoRuns, With
  <2>4. CountInv'
    <3>1. Cardinality(With(Queued)') = Cardinality(With(Queued))
      BY <1>0, <1>1, <2>0, CountAfterGoto DEF Queued
    <3> QED
      BY <1>0, <1>3, <1>6, <3>1 DEF CountInv
  <2> QED
    BY <2>1, <1>4, <2>2, <2>3, <2>4
<1>7. CASE /\ slot = 1 /\ ~QueueFull /\ Goto(r, "waiting") /\ UNCHANGED slot
           /\ activity' = [activity EXCEPT !.waiting = @ + 1]
  <2>0. label = "waiting"
    BY <1>1, <1>2, <1>7 DEF Goto, TypeOK
  <2>1. TypeOK'
    <3>1. pc' \in [Requests -> PcValues]
      BY <1>0, <1>7 DEF TypeOK, Goto, PcValues, Inside, Queued
    <3>2. activity' \in [model : Models \cup {NoModel}, running : {0, 1}, waiting : Nat]
      <4>1. activity \in [model : Models \cup {NoModel}, running : {0, 1}, waiting : Nat]
        BY DEF TypeOK
      <4>2. activity' = [activity EXCEPT !.waiting = activity.waiting + 1]
        BY <1>7
      <4> QED
        BY <4>1, <4>2
    <3> QED
      BY <1>0, <1>7, <3>1, <3>2 DEF TypeOK
  <2>2. OwnerInv'
    BY <1>0, <1>2, <1>7, <2>0 DEF OwnerInv, Holding
  <2>3. ActivityTellsWhoRuns'
    BY <1>0, <1>2, <1>7, <2>0 DEF ActivityTellsWhoRuns, With, TypeOK
  <2>4. CountInv'
    <3>1. Cardinality(With(Queued)') = Cardinality(With(Queued)) + 1
      BY <1>0, <1>1, <2>0, CountAfterGoto DEF Queued
    <3>2. activity'.waiting = activity.waiting + 1 /\ activity'.waiting <= MaxWaiting
      BY <1>7, LimitsAssumption DEF TypeOK, QueueFull
    <3> QED
      BY <1>0, <1>3, <3>1, <3>2 DEF CountInv
  <2> QED
    BY <2>1, <1>4, <2>2, <2>3, <2>4
<1> QED
  BY <1>5, <1>6, <1>7 DEF Acquire

LEMMA SelectKeepsIInv ==
    ASSUME IInv, NEW r \in Requests, Select(r)
    PROVE  IInv'
<1> USE DEF IInv
<1>0. UNCHANGED <<activity, keys>> /\ pc[r] = "waiting"
  BY DEF Select
<1>1. PICK label \in {"granted", "parked"} : Goto(r, label)
  BY DEF Select
<1>2. \A q \in Requests : pc'[q] = IF q = r THEN label ELSE pc[q]
  BY <1>1 DEF Goto, TypeOK
<1>3. CountInv'
  <2>1. \A k \in Keys : Cardinality(Charged(k)') = Cardinality(Charged(k))
    BY <1>0, <1>1, ChargeAfterGoto DEF Inside, Queued, Holding
  <2>2. Cardinality(With(Queued)') = Cardinality(With(Queued))
    BY <1>0, <1>1, CountAfterGoto DEF Queued
  <2> QED
    BY <1>0, <2>1, <2>2 DEF CountInv
<1>4. ActivityTellsWhoRuns'
  BY <1>0, <1>2 DEF ActivityTellsWhoRuns, With
<1>5. CASE slot = 0 /\ slot' = 1 /\ Goto(r, "granted") /\ UNCHANGED parked
  <2>0. label = "granted"
    BY <1>1, <1>2, <1>5 DEF Goto, TypeOK
  <2>1. TypeOK'
    BY <1>0, <1>5 DEF TypeOK, Goto, PcValues, Inside, Queued
  <2>2. ParkedInv'
    BY <1>0, <1>2, <1>5, ElementOfSeq DEF TypeOK, ParkedInv
  <2>3. OwnerInv'
    BY <1>2, <1>5, <2>0 DEF OwnerInv, Holding
  <2> QED
    BY <1>3, <1>4, <2>1, <2>2, <2>3
<1>6. CASE /\ slot = 1 /\ Goto(r, "parked") /\ UNCHANGED slot
           /\ parked' = Append(parked, r)
  <2>0. label = "parked"
    BY <1>1, <1>2, <1>6 DEF Goto, TypeOK
  <2>1. TypeOK'
    BY <1>0, <1>6, AppendProperties DEF TypeOK, Goto, PcValues, Inside, Queued
  <2>2. ParkedInv'
    <3>1. /\ Len(parked') = Len(parked) + 1
          /\ \A i \in 1..Len(parked) : parked'[i] = parked[i]
          /\ parked'[Len(parked) + 1] = r
          /\ Len(parked) \in Nat
      BY <1>6, AppendProperties, LenProperties DEF TypeOK
    <3>2. \A i \in 1..Len(parked) : parked[i] \in Requests /\ parked[i] # r
      BY <1>0, ElementOfSeq DEF TypeOK, ParkedInv
    <3> QED
      BY <1>2, <2>0, <3>1, <3>2 DEF ParkedInv
  <2>3. OwnerInv'
    BY <1>0, <1>2, <1>6, <2>0 DEF OwnerInv, Holding
  <2> QED
    BY <1>3, <1>4, <2>1, <2>2, <2>3
<1> QED
  BY <1>5, <1>6 DEF Select

LEMMA GiveUpKeepsIInv ==
    ASSUME IInv, NEW r \in Requests, GiveUp(r)
    PROVE  IInv'
<1> USE DEF IInv
<1>0. /\ UNCHANGED <<slot, activity, keys>>
      /\ pc[r] \in {"waiting", "parked"}
      /\ Goto(r, "leaving")
  BY DEF GiveUp
<1>2. \A q \in Requests : pc'[q] = IF q = r THEN "leaving" ELSE pc[q]
  BY <1>0 DEF Goto, TypeOK
<1>3. CountInv'
  <2>1. \A k \in Keys : Cardinality(Charged(k)') = Cardinality(Charged(k))
    BY <1>0, ChargeAfterGoto DEF Inside, Queued, Holding
  <2>2. Cardinality(With(Queued)') = Cardinality(With(Queued))
    BY <1>0, CountAfterGoto DEF Queued
  <2> QED
    BY <1>0, <2>1, <2>2 DEF CountInv
<1>4. ActivityTellsWhoRuns'
  BY <1>0, <1>2 DEF ActivityTellsWhoRuns, With
<1>5. CASE pc[r] = "waiting" /\ UNCHANGED parked
  <2>1. TypeOK'
    BY <1>0, <1>5 DEF TypeOK, Goto, PcValues, Inside, Queued
  <2>2. ParkedInv'
    BY <1>2, <1>5, ElementOfSeq DEF TypeOK, ParkedInv
  <2>3. OwnerInv'
    BY <1>0, <1>2, <1>5 DEF OwnerInv, Holding
  <2> QED
    BY <1>3, <1>4, <2>1, <2>2, <2>3
<1>6. CASE /\ pc[r] = "parked"
           /\ \E i \in DOMAIN parked : parked[i] = r /\ parked' = RemoveAt(parked, i)
  <2>0. PICK i \in 1..Len(parked) : parked[i] = r /\ parked' = RemoveAt(parked, i)
    BY <1>6, LenProperties DEF TypeOK
  <2>1. /\ parked' \in Seq(Requests)
        /\ Len(parked') = Len(parked) - 1
        /\ Len(parked) \in Nat
        /\ \A j \in 1..Len(parked) - 1 :
              parked'[j] = parked[IF j < i THEN j ELSE j + 1]
    BY <2>0, RemoveAtProperties, LenProperties DEF TypeOK
  <2>2. TypeOK'
    BY <1>0, <2>1 DEF TypeOK, Goto, PcValues, Inside, Queued
  <2>3. ParkedInv'
    <3> DEFINE Old(j) == IF j < i THEN j ELSE j + 1
    <3>1. \A j \in 1..Len(parked') : /\ Old(j) \in 1..Len(parked)
                                     /\ Old(j) # i
                                     /\ parked'[j] = parked[Old(j)]
      BY <2>1
    <3>2. \A j, l \in 1..Len(parked') : Old(j) = Old(l) => j = l
      BY <2>1
    <3> HIDE DEF Old
    <3>3. \A j \in 1..Len(parked') : /\ parked'[j] \in Requests
                                     /\ parked'[j] # r
                                     /\ pc[parked'[j]] = "parked"
      BY <2>0, <3>1, ElementOfSeq DEF TypeOK, ParkedInv
    <3>4. \A j \in 1..Len(parked') : pc'[parked'[j]] = "parked"
      BY <1>2, <3>3
    <3>5. \A j, l \in 1..Len(parked') : parked'[j] = parked'[l] => Old(j) = Old(l)
      BY <3>1 DEF ParkedInv
    <3>6. \A j, l \in 1..Len(parked') : parked'[j] = parked'[l] => j = l
      BY <3>2, <3>5
    <3> QED
      BY <3>4, <3>6 DEF ParkedInv
  <2>4. OwnerInv'
    <3>1. parked # <<>>
      BY <2>0
    <3> QED
      BY <1>0, <1>2, <1>6, <3>1 DEF OwnerInv, Holding
  <2> QED
    BY <1>3, <1>4, <2>2, <2>3, <2>4
<1> QED
  BY <1>5, <1>6 DEF GiveUp

LEMMA LeaveKeepsIInv ==
    ASSUME IInv, NEW r \in Requests, Leave(r)
    PROVE  IInv'
<1> USE DEF IInv
<1>0. /\ UNCHANGED <<slot, parked, keys>>
      /\ pc[r] = "leaving"
      /\ Goto(r, "forgetting")
      /\ \A q \in Requests : pc'[q] = IF q = r THEN "forgetting" ELSE pc[q]
  BY DEF Leave, Goto, TypeOK
<1>1. /\ activity'.waiting = Cardinality(With(Queued)')
      /\ activity'.waiting \in Nat
      /\ activity'.waiting <= activity.waiting
      /\ activity'.running = activity.running
      /\ activity'.model = activity.model
  <2>1. Cardinality(With(Queued)') = Cardinality(With(Queued)) - 1
    BY <1>0, CountAfterGoto DEF Queued
  <2>2. r \in With(Queued)
    BY <1>0 DEF With, Queued
  <2>3. Cardinality(With(Queued)) # 0
    BY <2>2, WithIsFinite, FS_EmptySet
  <2>4. activity' = [activity EXCEPT !.waiting = @ - 1]
    BY DEF Leave
  <2> QED
    BY <2>1, <2>3, <2>4 DEF CountInv, TypeOK
<1>2. TypeOK'
  <2>1. activity' = [activity EXCEPT !.waiting = @ - 1]
    BY DEF Leave
  <2>2. activity' \in [model : Models \cup {NoModel}, running : {0, 1}, waiting : Nat]
    BY <1>1, <2>1 DEF TypeOK
  <2>3. pc' \in [Requests -> PcValues]
    BY <1>0 DEF TypeOK, Goto, PcValues, Inside
  <2> QED
    BY <1>0, <2>2, <2>3 DEF TypeOK
<1>3. ParkedInv'
  BY <1>0, ElementOfSeq DEF TypeOK, ParkedInv
<1>4. OwnerInv'
  BY <1>0 DEF OwnerInv, Holding
<1>5. ActivityTellsWhoRuns'
  BY <1>0, <1>1 DEF ActivityTellsWhoRuns, With
<1>6. CountInv'
  <2>1. \A k \in Keys : Cardinality(Charged(k)') = Cardinality(Charged(k))
    BY <1>0, ChargeAfterGoto DEF Inside, Queued, Holding
  <2> QED
    BY <1>0, <1>1, <2>1, LimitsAssumption DEF CountInv, TypeOK
<1> QED
  BY <1>2, <1>3, <1>4, <1>5, <1>6

LEMMA AdmitKeepsIInv ==
    ASSUME IInv, NEW r \in Requests, Admit(r)
    PROVE  IInv'
<1> USE DEF IInv
<1>0. UNCHANGED <<slot, parked, keys>> /\ pc[r] = "granted"
  BY DEF Admit
<1>1. PICK label \in {"running", "dropping"} : Goto(r, label)
  BY DEF Admit
<1>2. \A q \in Requests : pc'[q] = IF q = r THEN label ELSE pc[q]
  BY <1>1 DEF Goto, TypeOK
<1>3. /\ activity'.waiting = Cardinality(With(Queued)')
      /\ activity'.waiting \in Nat
      /\ activity'.waiting <= activity.waiting
  <2>1. Cardinality(With(Queued)') = Cardinality(With(Queued)) - 1
    BY <1>0, <1>1, CountAfterGoto DEF Queued
  <2>2. r \in With(Queued)
    BY <1>0 DEF With, Queued
  <2>3. Cardinality(With(Queued)) # 0
    BY <2>2, WithIsFinite, FS_EmptySet
  <2>4. activity'.waiting = activity.waiting - 1
    BY DEF Admit
  <2> QED
    BY <2>1, <2>3, <2>4 DEF CountInv, TypeOK
<1>4. TypeOK'
  <2>1. activity' = [model |-> ModelOf[r], running |-> 1, waiting |-> activity.waiting - 1]
    BY DEF Admit
  <2>2. activity' \in [model : Models \cup {NoModel}, running : {0, 1}, waiting : Nat]
    BY <1>3, <2>1, RequestsAssumption
  <2>3. pc' \in [Requests -> PcValues]
    BY <1>1 DEF TypeOK, Goto, PcValues, Inside, Holding
  <2> QED
    BY <1>0, <2>2, <2>3 DEF TypeOK
<1>5. ParkedInv'
  BY <1>0, <1>2, ElementOfSeq DEF TypeOK, ParkedInv
<1>6. OwnerInv'
  BY <1>0, <1>2 DEF OwnerInv, Holding
<1>7. ActivityTellsWhoRuns'
  <2>1. With({"running", "dropping"})' = {r}
    BY <1>0, <1>2 DEF With, OwnerInv, Holding
  <2>2. activity'.running = 1 /\ activity'.model = ModelOf[r]
    BY DEF Admit
  <2> QED
    BY <2>1, <2>2 DEF ActivityTellsWhoRuns
<1>8. CountInv'
  <2>1. \A k \in Keys : Cardinality(Charged(k)') = Cardinality(Charged(k))
    BY <1>0, <1>1, ChargeAfterGoto DEF Inside, Queued, Holding
  <2> QED
    BY <1>0, <1>3, <2>1, LimitsAssumption DEF CountInv, TypeOK
<1> QED
  BY <1>4, <1>5, <1>6, <1>7, <1>8

LEMMA ForgetKeepsIInv ==
    ASSUME IInv, NEW r \in Requests, Forget(r)
    PROVE  IInv'
<1> USE DEF IInv
<1>0. /\ KeyOf[r] \in Keys
      /\ pc[r] = "forgetting"
      /\ Goto(r, "idle")
      /\ UNCHANGED <<slot, parked, activity>>
      /\ \A q \in Requests : pc'[q] = IF q = r THEN "idle" ELSE pc[q]
  BY RequestsAssumption DEF Forget, Goto, TypeOK
<1>1. \A k \in Keys : Cardinality(Charged(k)') =
                 Cardinality(Charged(k)) - IF k = KeyOf[r] THEN 1 ELSE 0
  BY <1>0, ChargeAfterGoto, WithIsFinite, FS_CardinalityType
      DEF Inside, Queued, Holding
<1>2. Cardinality(Charged(KeyOf[r])) # 0
  <2>1. r \in Charged(KeyOf[r])
    BY <1>0 DEF Charged, With, Inside
  <2> QED
    BY <2>1, WithIsFinite, FS_EmptySet
<1>3. keys' \in [Keys -> Nat]
  BY <1>0, <1>2 DEF Forget, CountInv, TypeOK
<1>4. TypeOK'
  BY <1>0, <1>3 DEF TypeOK, Goto, PcValues
<1>5. ParkedInv'
  BY <1>0, ElementOfSeq DEF TypeOK, ParkedInv
<1>6. OwnerInv'
  BY <1>0 DEF OwnerInv, Holding
<1>7. ActivityTellsWhoRuns'
  BY <1>0 DEF ActivityTellsWhoRuns, With
<1>8. CountInv'
  <2>1. Cardinality(With(Queued)') = Cardinality(With(Queued))
    BY <1>0, CountAfterGoto DEF Queued
  <2>2. ASSUME NEW k \in Keys
        PROVE  keys'[k] = Cardinality(Charged(k)') /\ keys'[k] <= PerKeyOutstanding
    BY <1>0, <1>1, LimitsAssumption DEF Forget, CountInv, TypeOK
  <2> QED
    BY <2>1, <2>2, <1>0 DEF CountInv
<1> QED
  BY <1>4, <1>5, <1>6, <1>7, <1>8

\* The receive with a parked sender: the releasing request moves out of the
\* slot and the longest-parked one moves in.
LEMMA ReleaseKeepsIInv ==
    ASSUME IInv, NEW r \in Requests, Release(r)
    PROVE  IInv'
<1> USE DEF IInv
<1>0. /\ UNCHANGED keys
      /\ pc[r] \in {"running", "dropping"}
      /\ activity' = [activity EXCEPT !.model = NoModel, !.running = 0]
      /\ slot = 1
      /\ \A q \in Requests : pc[q] \in Holding => q = r
  BY DEF Release, OwnerInv, Holding
<1>1. /\ activity'.model = NoModel
      /\ activity'.running = 0
      /\ activity'.waiting = activity.waiting
      /\ activity' \in [model : Models \cup {NoModel}, running : {0, 1}, waiting : Nat]
  BY <1>0 DEF TypeOK
<1>2. CASE parked = <<>> /\ slot' = 0 /\ Goto(r, "forgetting") /\ UNCHANGED parked
  <2>0. \A q \in Requests : pc'[q] = IF q = r THEN "forgetting" ELSE pc[q]
    BY <1>2 DEF Goto, TypeOK
  <2>1. TypeOK'
    BY <1>0, <1>1, <1>2 DEF TypeOK, Goto, PcValues, Inside
  <2>2. ParkedInv'
    BY <1>0, <1>2, <2>0, ElementOfSeq DEF TypeOK, ParkedInv
  <2>3. OwnerInv'
    BY <1>0, <1>2, <2>0 DEF OwnerInv, Holding
  <2>4. ActivityTellsWhoRuns'
    <3>1. With({"running", "dropping"})' = {}
      BY <1>0, <2>0 DEF With, Holding
    <3> QED
      BY <1>1, <3>1 DEF ActivityTellsWhoRuns
  <2>5. CountInv'
    <3>1. \A k \in Keys : Cardinality(Charged(k)') = Cardinality(Charged(k))
      BY <1>0, <1>2, ChargeAfterGoto DEF Inside, Queued, Holding
    <3>2. Cardinality(With(Queued)') = Cardinality(With(Queued))
      BY <1>0, <1>2, CountAfterGoto DEF Queued
    <3> QED
      BY <1>0, <1>1, <3>1, <3>2 DEF CountInv
  <2> QED
    BY <2>1, <2>2, <2>3, <2>4, <2>5
<1>3. CASE /\ parked # <<>> /\ parked' = Tail(parked) /\ UNCHANGED slot
           /\ pc' = [pc EXCEPT ![r] = "forgetting", ![Head(parked)] = "granted"]
  <2> DEFINE h == parked[1]
  <2>0. /\ Len(parked) \in Nat
        /\ 1 \in 1..Len(parked)
        /\ Head(parked) = h
        /\ h \in Requests
        /\ pc[h] = "parked"
        /\ h # r
    BY <1>0, <1>3, ElementOfSeq, LenProperties, EmptySeq, HeadTailProperties
        DEF TypeOK, ParkedInv
  <2>1. /\ parked' \in Seq(Requests)
        /\ Len(parked') = Len(parked) - 1
        /\ \A i \in 1..Len(parked) - 1 : parked'[i] = parked[i + 1]
    BY <1>3, <2>0, HeadTailProperties DEF TypeOK
  <2> HIDE DEF h
  <2>2. \A q \in Requests : pc'[q] = IF q = r THEN "forgetting"
                                     ELSE IF q = h THEN "granted" ELSE pc[q]
    BY <1>3, <2>0 DEF TypeOK
  <2>3. TypeOK'
    <3>1. pc' \in [Requests -> PcValues]
      BY <1>3, <2>0 DEF TypeOK, PcValues, Inside, Queued
    <3> QED
      BY <1>0, <1>1, <1>3, <2>1, <3>1 DEF TypeOK
  <2>4. ParkedInv'
    <3>1. \A i \in 1..Len(parked') : i + 1 \in 1..Len(parked) /\ i + 1 # 1
      BY <2>0, <2>1
    <3>2. \A i \in 1..Len(parked') : /\ parked'[i] \in Requests
                                     /\ pc[parked'[i]] = "parked"
                                     /\ parked'[i] # h
      <4> SUFFICES ASSUME NEW i \in 1..Len(parked')
                   PROVE  /\ parked'[i] \in Requests
                          /\ pc[parked'[i]] = "parked"
                          /\ parked'[i] # h
        OBVIOUS
      <4>1. parked'[i] = parked[i + 1] /\ i + 1 \in 1..Len(parked) /\ i + 1 # 1
        BY <2>0, <2>1, <3>1
      <4>2. parked[i + 1] \in Requests
        BY <4>1, ElementOfSeq DEF TypeOK
      <4>3. parked[1] = h /\ 1 \in 1..Len(parked)
        BY <2>0, HeadTailProperties DEF TypeOK
      <4> QED
        BY <4>1, <4>2, <4>3 DEF ParkedInv
    <3>3. \A i, j \in 1..Len(parked') : parked'[i] = parked'[j] => i = j
      BY <2>1, <3>1 DEF ParkedInv
    <3>4. \A i \in 1..Len(parked') : pc'[parked'[i]] = "parked"
      BY <1>0, <2>2, <3>2
    <3> QED
      BY <3>3, <3>4 DEF ParkedInv
  <2>5. OwnerInv'
    <3>1. \A q \in Requests : pc'[q] \in Holding <=> q = h
      BY <1>0, <2>0, <2>2 DEF Holding
    <3>2. slot' = 1
      BY <1>0, <1>3
    <3> QED
      BY <2>0, <3>1, <3>2 DEF OwnerInv
  <2>6. ActivityTellsWhoRuns'
    <3>1. With({"running", "dropping"})' = {}
      BY <1>0, <2>0, <2>2 DEF With, Holding
    <3> QED
      BY <1>1, <3>1 DEF ActivityTellsWhoRuns
  <2>7. CountInv'
    <3>1. With(Queued)' = With(Queued)
      BY <1>0, <2>0, <2>2 DEF With, Queued
    <3>2. \A q \in Requests : pc'[q] \in Inside <=> pc[q] \in Inside
      BY <1>0, <2>0, <2>2 DEF Inside, Queued, Holding
    <3>3. \A k \in Keys : Charged(k)' = Charged(k)
      BY <3>2 DEF Charged, With
    <3> QED
      BY <1>0, <1>1, <3>1, <3>3 DEF CountInv
  <2> QED
    BY <2>3, <2>4, <2>5, <2>6, <2>7
<1> QED
  BY <1>2, <1>3 DEF Release

-----------------------------------------------------------------------------
LEMMA StepKeepsIInv == IInv /\ [Next]_vars => IInv'
<1> SUFFICES ASSUME IInv, [Next]_vars PROVE IInv'
  OBVIOUS
<1>1. CASE Next
  <2>1. PICK r \in Requests : Step(r)
    BY <1>1 DEF Next
  <2> QED
    BY <2>1, ArriveKeepsIInv, AcquireKeepsIInv, SelectKeepsIInv, GiveUpKeepsIInv,
       LeaveKeepsIInv, AdmitKeepsIInv, ForgetKeepsIInv, ReleaseKeepsIInv
       DEF Step, Proceed
<1>2. CASE UNCHANGED vars
  BY <1>2 DEF vars, IInv, TypeOK, ParkedInv, OwnerInv, ActivityTellsWhoRuns,
              CountInv, Charged, With
<1> QED
  BY <1>1, <1>2

(* The inductive invariant holds in every reachable state.                 *)
THEOREM Inductive == Spec => []IInv
  BY InitIInv, StepKeepsIInv, PTL DEF Spec

(* Every variable keeps its type; in particular no counter goes below      *)
(* zero, which a place given back twice would do.                          *)
THEOREM TypeCorrect == Spec => []TypeOK
  BY Inductive, PTL DEF IInv

(* One inference at a time: the token in the slot channel is owned by      *)
(* exactly one request, from the moment the channel hands it over.         *)
THEOREM OneInferenceAtATime == Spec => []SlotHasOneOwner
<1>1. IInv => SlotHasOneOwner
  <2> SUFFICES ASSUME IInv PROVE SlotHasOneOwner
    OBVIOUS
  <2>1. CASE slot = 0
    <3>1. With(Holding) = {}
      BY <2>1 DEF IInv, OwnerInv, With
    <3> QED
      BY <2>1, <3>1, FS_EmptySet DEF SlotHasOneOwner
  <2>2. CASE slot = 1
    <3>1. PICK r \in Requests : With(Holding) = {r}
      BY <2>2 DEF IInv, OwnerInv, With
    <3> QED
      BY <2>2, <3>1, FS_Singleton DEF SlotHasOneOwner
  <2> QED
    BY <2>1, <2>2 DEF IInv, TypeOK
<1> QED
  BY <1>1, Inductive, PTL

(* The published activity names the model of the running request, and no   *)
(* model while none runs.                                                  *)
THEOREM ActivityIsTrue == Spec => []ActivityTellsWhoRuns
  BY Inductive, PTL DEF IInv

(* activity.Waiting is the number of queue places in use, at most          *)
(* MaxWaiting.                                                             *)
THEOREM QueueCounted == Spec => []QueueIsCounted
<1>1. IInv => QueueIsCounted
  BY DEF IInv, CountInv, QueueIsCounted
<1> QED
  BY <1>1, Inductive, PTL

(* What is shown of the queue is true, for every number of requests, keys  *)
(* and models.                                                             *)
THEOREM ActivityTold == Spec => []ActivityIsTold
  BY ActivityIsTrue, QueueCounted, PTL DEF ActivityIsTold

(* A key is charged for its requests inside, within its share, and the     *)
(* queue is never full of one key's requests alone.                        *)
THEOREM KeysShare == Spec => []KeysShareTheQueue
<1>1. IInv => KeysShareTheQueue
  <2> SUFFICES ASSUME IInv PROVE KeysShareTheQueue
    OBVIOUS
  <2>1. \A k \in Keys : keys[k] = Cardinality(Charged(k)) /\ keys[k] <= PerKeyOutstanding
    BY DEF IInv, CountInv
  <2>2. ASSUME QueueFull,
               \A p, q \in With(Queued) : KeyOf[p] = KeyOf[q]
        PROVE  FALSE
    <3>1. Cardinality(With(Queued)) >= MaxWaiting
      BY <2>2 DEF IInv, CountInv, QueueFull
    <3>2. With(Queued) # {}
      BY <3>1, FS_EmptySet, LimitsAssumption
    <3>3. PICK p \in With(Queued) : TRUE
      BY <3>2
    <3>4. With(Queued) \subseteq Charged(KeyOf[p])
      BY <2>2, <3>3 DEF Charged, With, Inside
    <3>5. Cardinality(With(Queued)) <= Cardinality(Charged(KeyOf[p]))
      BY <3>4, WithIsFinite, FS_Subset
    <3>6. KeyOf[p] \in Keys
      BY <3>3, RequestsAssumption DEF With
    <3>7. Cardinality(Charged(KeyOf[p])) <= PerKeyOutstanding
      BY <2>1, <3>6
    <3>8. Cardinality(With(Queued)) \in Nat /\ Cardinality(Charged(KeyOf[p])) \in Nat
      BY WithIsFinite, FS_CardinalityType
    <3> QED
      BY <3>1, <3>5, <3>7, <3>8, LimitsAssumption
  <2> QED
    BY <2>1, <2>2 DEF KeysShareTheQueue, Charged
<1> QED
  BY <1>1, Inductive, PTL

-----------------------------------------------------------------------------
(* The scheduler implements InferenceSlot.                                 *)

\* The instance counts with an instance of the same definition.
LEMMA SlotCardinality == \A S : Slot!Cardinality(S) = Cardinality(S)
  BY DEF Slot!Cardinality, Slot!IsFiniteSet, Cardinality, IsFiniteSet

\* The mapped variables, elementwise and without CHOOSE.
LEMMA MappedRunning ==
    ASSUME IInv, NEW r \in Requests
    PROVE  /\ TheRunning = r <=> pc[r] \in {"running", "dropping"}
           /\ TheRunning = NoRequest <=> With({"running", "dropping"}) = {}
  BY NoRequestAssumption DEF IInv, OwnerInv, Holding, With, TheRunning

LEMMA MappedRunningAfter ==
    ASSUME IInv', NEW r \in Requests
    PROVE  /\ TheRunning' = r <=> pc'[r] \in {"running", "dropping"}
           /\ TheRunning' = NoRequest <=> With({"running", "dropping"})' = {}
  BY NoRequestAssumption DEF IInv, OwnerInv, Holding, With, TheRunning

\* A step that moves only requests outside the slot leaves it as it was.
LEMMA RunningKept ==
    ASSUME IInv, IInv',
           \A q \in Requests : pc'[q] \in {"running", "dropping"} <=> pc[q] \in {"running", "dropping"}
    PROVE  TheRunning' = TheRunning
<1>1. With({"running", "dropping"})' = With({"running", "dropping"})
  BY DEF With
<1>2. CASE With({"running", "dropping"}) = {}
  BY <1>1, <1>2 DEF TheRunning
<1>3. CASE With({"running", "dropping"}) # {}
  <2>1. PICK r \in Requests : pc[r] \in {"running", "dropping"}
    BY <1>3 DEF With
  <2> QED
    BY <2>1, MappedRunning, MappedRunningAfter
<1> QED
  BY <1>2, <1>3

\* A step after which the running request and both sets are the same.
LEMMA Stutters ==
    ASSUME IInv, IInv',
           \A q \in Requests : /\ pc'[q] \in {"running", "dropping"} <=> pc[q] \in {"running", "dropping"}
                               /\ pc'[q] \in Queued <=> pc[q] \in Queued
                               /\ pc'[q] \in Inside <=> pc[q] \in Inside
    PROVE  UNCHANGED Slot!vars
<1>1. With(Queued)' = With(Queued) /\ With(Inside)' = With(Inside)
  BY DEF With
<1>3. TheRunning' = TheRunning
  BY RunningKept
<1> QED
  BY <1>1, <1>3 DEF Slot!vars

LEMMA StepRefines == IInv /\ IInv' /\ [Next]_vars => [Slot!Next]_(Slot!vars)
<1> SUFFICES ASSUME IInv, IInv', [Next]_vars
             PROVE  [Slot!Next]_(Slot!vars)
  OBVIOUS
<1> USE DEF IInv
<1>1. CASE Next
  <2>1. PICK r \in Requests : Step(r)
    BY <1>1 DEF Next
  <2>2. ASSUME NEW label, Goto(r, label)
        PROVE  \A q \in Requests : pc'[q] = IF q = r THEN label ELSE pc[q]
    BY <2>2 DEF Goto, TypeOK
  <2>3. CASE Arrive(r)
    <3>1. \A q \in Requests : pc'[q] = IF q = r THEN "counted" ELSE pc[q]
      BY <2>2, <2>3 DEF Arrive
    <3>2. pc[r] = "idle" /\ KeyOf[r] \in Keys
      BY <2>3, RequestsAssumption DEF Arrive
    <3>3. With(Queued)' = With(Queued) /\ With(Inside)' = With(Inside) \cup {r}
      BY <3>1, <3>2 DEF With, Inside, Queued, Holding
    <3>4. TheRunning' = TheRunning
      BY <3>1, <3>2, RunningKept
    <3>5. Slot!SameKey(r) = Charged(KeyOf[r])
      BY DEF Slot!SameKey, Charged
    <3>6. Cardinality(Slot!SameKey(r)) < PerKeyOutstanding
      BY <2>3, <3>2, <3>5 DEF Arrive, CountInv
    <3>7. r \notin With(Inside)
      BY <3>2 DEF With, Inside, Queued, Holding
    <3>8. Slot!Enter(r)
      BY <3>3, <3>4, <3>6, <3>7, SlotCardinality DEF Slot!Enter
    <3> QED
      BY <3>8 DEF Slot!Next
  <2>4. CASE Acquire(r)
    <3>0. pc[r] = "counted" /\ r \in With(Inside) /\ r \notin With(Queued)
      BY <2>4 DEF Acquire, With, Inside, Queued
    <3>1. CASE TakeFreeSlot(r)
      <4>1. \A q \in Requests : pc'[q] = IF q = r THEN "running" ELSE pc[q]
        BY <2>2, <3>1 DEF TakeFreeSlot
      <4>2. With({"running", "dropping"}) = {}
        BY <3>1 DEF TakeFreeSlot, OwnerInv, With, Holding
      <4>3. TheRunning = NoRequest /\ TheRunning' = r
        BY <4>1, <4>2, MappedRunningAfter DEF TheRunning
      <4>4. With(Queued)' = With(Queued) /\ With(Inside)' = With(Inside)
        BY <3>0, <4>1 DEF With, Inside, Queued, Holding
      <4>5. With(Queued)' = With(Queued) \ {r}
        BY <3>0, <4>4
      <4> QED
        BY <3>0, <4>3, <4>4, <4>5 DEF Slot!Next, Slot!Start
    <3>2. CASE slot = 1 /\ QueueFull /\ Goto(r, "forgetting") /\ UNCHANGED <<slot, activity>>
      <4>1. \A q \in Requests : pc'[q] = IF q = r THEN "forgetting" ELSE pc[q]
        BY <2>2, <3>2
      <4> QED
        BY <3>0, <4>1, Stutters DEF Inside, Queued, Holding
    <3>3. CASE /\ slot = 1 /\ ~QueueFull /\ Goto(r, "waiting") /\ UNCHANGED slot
               /\ activity' = [activity EXCEPT !.waiting = @ + 1]
      <4>1. \A q \in Requests : pc'[q] = IF q = r THEN "waiting" ELSE pc[q]
        BY <2>2, <3>3
      <4>2. With(Queued)' = With(Queued) \cup {r} /\ With(Inside)' = With(Inside)
        BY <3>0, <4>1 DEF With, Inside, Queued, Holding
      <4>3. TheRunning' = TheRunning
        BY <3>0, <4>1, RunningKept
      <4>4. r # TheRunning
        BY <3>0, MappedRunning
      <4>5. Cardinality(With(Queued)) < MaxWaiting
        BY <3>3, LimitsAssumption DEF QueueFull, CountInv, TypeOK
      <4>6. Slot!Wait(r)
        BY <3>0, <4>2, <4>3, <4>4, <4>5, SlotCardinality DEF Slot!Wait
      <4> QED
        BY <4>6 DEF Slot!Next
    <3> QED
      BY <2>4, <3>1, <3>2, <3>3 DEF Acquire
  <2>5. CASE Select(r) \/ GiveUp(r)
    <3>1. pc[r] \in {"waiting", "parked"}
      BY <2>5 DEF Select, GiveUp
    <3>2. PICK label \in {"granted", "parked", "leaving"} : Goto(r, label)
      BY <2>5 DEF Select, GiveUp
    <3>3. \A q \in Requests : pc'[q] = IF q = r THEN label ELSE pc[q]
      BY <2>2, <3>2
    <3> QED
      BY <3>1, <3>3, Stutters DEF Inside, Queued, Holding
  <2>6. CASE Leave(r)
    <3>1. \A q \in Requests : pc'[q] = IF q = r THEN "forgetting" ELSE pc[q]
      BY <2>2, <2>6 DEF Leave
    <3>2. pc[r] = "leaving" /\ r \in With(Queued)
      BY <2>6 DEF Leave, With, Queued
    <3>3. With(Queued)' = With(Queued) \ {r} /\ With(Inside)' = With(Inside)
      BY <3>1, <3>2 DEF With, Inside, Queued, Holding
    <3>4. TheRunning' = TheRunning
      BY <3>1, <3>2, RunningKept
    <3> QED
      BY <3>2, <3>3, <3>4 DEF Slot!Next, Slot!GiveUp
  <2>7. CASE Admit(r)
    <3>0. PICK label \in {"running", "dropping"} : Goto(r, label)
      BY <2>7 DEF Admit
    <3>1. \A q \in Requests : pc'[q] = IF q = r THEN label ELSE pc[q]
      BY <2>2, <3>0
    <3>2. pc[r] = "granted" /\ r \in With(Inside)
      BY <2>7 DEF Admit, With, Inside, Queued
    <3>3. With({"running", "dropping"}) = {}
      BY <3>2 DEF OwnerInv, With, Holding
    <3>4. TheRunning = NoRequest /\ TheRunning' = r
      BY <3>1, <3>3, MappedRunningAfter DEF TheRunning
    <3>5. With(Queued)' = With(Queued) \ {r} /\ With(Inside)' = With(Inside)
      BY <3>1, <3>2 DEF With, Inside, Queued, Holding
    <3> QED
      BY <3>2, <3>4, <3>5 DEF Slot!Next, Slot!Start
  <2>8. CASE Release(r)
    <3>1. pc[r] \in {"running", "dropping"} /\ TheRunning = r
      BY <2>8, MappedRunning DEF Release
    <3>2. \A q \in Requests : /\ pc'[q] \notin {"running", "dropping"}
                              /\ pc'[q] \in Queued <=> pc[q] \in Queued
                              /\ pc'[q] \in Inside <=> pc[q] \in Inside
      <4>1. CASE Goto(r, "forgetting")
        <5>1. \A q \in Requests : pc'[q] = IF q = r THEN "forgetting" ELSE pc[q]
          BY <2>2, <4>1
        <5> QED
          BY <3>1, <5>1 DEF OwnerInv, Inside, Queued, Holding
      <4>2. CASE /\ parked # <<>>
                 /\ pc' = [pc EXCEPT ![r] = "forgetting", ![Head(parked)] = "granted"]
        <5>1. Head(parked) \in Requests /\ pc[Head(parked)] = "parked"
          BY <4>2, ElementOfSeq, LenProperties, EmptySeq, HeadTailProperties
              DEF TypeOK, ParkedInv
        <5>2. \A q \in Requests : pc'[q] =
                  IF q = Head(parked) THEN "granted"
                  ELSE IF q = r THEN "forgetting" ELSE pc[q]
          BY <3>1, <4>2, <5>1 DEF TypeOK
        <5> QED
          BY <3>1, <5>1, <5>2 DEF OwnerInv, Inside, Queued, Holding
      <4> QED
        BY <2>8, <4>1, <4>2 DEF Release
    <3>3. With(Queued)' = With(Queued) /\ With(Inside)' = With(Inside)
      BY <3>2 DEF With
    <3>4. TheRunning' = NoRequest
      BY <3>2 DEF TheRunning, With
    <3> QED
      BY <3>1, <3>3, <3>4 DEF Slot!Next, Slot!Stop
  <2>9. CASE Forget(r)
    <3>1. \A q \in Requests : pc'[q] = IF q = r THEN "idle" ELSE pc[q]
      BY <2>2, <2>9 DEF Forget
    <3>2. pc[r] = "forgetting" /\ r \in With(Inside) /\ r \notin With(Queued)
      BY <2>9 DEF Forget, With, Inside, Queued
    <3>3. With(Queued)' = With(Queued) /\ With(Inside)' = With(Inside) \ {r}
      BY <3>1, <3>2 DEF With, Inside, Queued, Holding
    <3>4. TheRunning' = TheRunning /\ r # TheRunning
      BY <3>1, <3>2, RunningKept, MappedRunning
    <3> QED
      BY <3>2, <3>3, <3>4 DEF Slot!Next, Slot!Exit
  <2> QED
    BY <2>1, <2>3, <2>4, <2>5, <2>6, <2>7, <2>8, <2>9 DEF Step, Proceed
<1>2. CASE UNCHANGED vars
  BY <1>2, Stutters DEF vars
<1> QED
  BY <1>1, <1>2

(* One inference at a time, a bounded queue, a share per key: the detailed *)
(* queue keeps the abstract promise.                                       *)
THEOREM Refinement == Spec => KeepsTheInferenceSlot
<1>1. Init => Slot!Init
  BY DEF Init, Slot!Init, TheRunning, With, Queued, Inside, Holding
<1> QED
  BY <1>1, Inductive, StepRefines, PTL DEF Spec, KeepsTheInferenceSlot, Slot!Spec
=============================================================================
