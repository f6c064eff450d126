------------------------ MODULE LocalInferenceProofs ------------------------
(***************************************************************************)
(* Proofs about LocalInference for every finite set of requests, every     *)
(* set of keys and every allowance, scheduled or not.                      *)
(***************************************************************************)
EXTENDS LocalInference, FiniteSetTheorems, TLAPS

-----------------------------------------------------------------------------
(* The inductive invariant, in parts that need each other.                 *)

\* An authorization that admit will read is one, not a refusal.
AuthInv ==
    \A r \in Requests : /\ pc[r] = "answered" => auth[r] # NoAnswer
                        /\ pc[r] = "authorized" => auth[r] \in Answers

\* The requests that count in inFlight.
Proxied == {r \in Requests : pc[r] \in {"proxying", "releasing"}}

\* What a handler holds it gives back before it is done.
HandlerInv ==
    /\ slotOwner # NoRequest => pc[slotOwner] # "idle"
    /\ inFlight = Cardinality(Proxied)

\* The control plane has counted what its answer acknowledges.
AnswerInv ==
    reporter = "counted" => result \in Answers /\ acknowledged + reported <= counted

\* A queued request is reason enough for a report.
EventsInv == usageQueued > 0 => usageEvents

UsageInv == UsageIsConserved /\ ReservationsAreReported /\ NoStrandedUsage
            /\ AnswerInv /\ EventsInv

\* Once the handlers have settled, nothing new is recorded: the report that
\* begins then empties the queue, and only its own failure fills it again.
DrainInv ==
    /\ phase \in {"settled", "drained"} => \A r \in Requests : pc[r] = "idle"
    /\ phase = "drained" => reporter = "off"
    /\ finalReports <= 1
    /\ finalReports = 1 => phase \notin {"open", "waiting"}
    /\ finalReports = 1 /\ phase = "settled" /\ usageEvents => reporter = "off"

IInv == TypeOK /\ AuthInv /\ HandlerInv /\ UsageInv /\ DrainInv

-----------------------------------------------------------------------------
(* What each group of actions leaves alone.                                *)

\* What the control plane answers is an answer, whatever it has counted.
LEMMA AnswersAreAnswers ==
    ASSUME TypeOK, NEW total \in Nat
    PROVE  Answer(total) \in Answers
  BY BoundsAssumption DEF TypeOK, Answer, Answers, LeftAfter

\* A handler touches the accounting only where it completes.
Quiet(r) == \/ Call(r) \/ Lookup(r) \/ ControlAnswers(r) \/ Receive(r)
            \/ Reject(r) \/ TakeSlot(r) \/ Admit(r) \/ Fail(r) \/ Release(r)
            \/ Leave(r)

\* The other steps of a handler move only itself, the slot and the cache.
LEMMA QuietHandlers ==
    ASSUME NEW r \in Requests, Quiet(r)
    PROVE  UNCHANGED <<usage, phase, control, completed, acknowledged,
                       reportFailed, finalReports>>
  BY DEF Quiet, Call, Lookup, ControlAnswers, Receive, Reject, TakeSlot, Admit,
         Fail, Release, Leave, rest, history

\* The cache and the subscription change nothing of the handlers or of the usage.
LEMMA QuietOthers ==
    ASSUME (\E k \in Keys : Expire(k)) \/ Subscribe
    PROVE  UNCHANGED <<pc, auth, inFlight, slotOwner, usage, phase, counted,
                       history>>
  BY DEF Expire, Subscribe, rest, control, request, handling, admission

\* The reporter moves no handler and completes nothing.
LEMMA ReportsLeaveHandlers ==
    ASSUME Report
    PROVE  UNCHANGED <<request, inFlight, phase, trial, completed>>
  BY DEF Report, NextReport, ControlCounts, ReportTaken, ReportFailed,
         admission, control

\* Drain only waits: it changes its own phase.
LEMMA DrainsChangeThePhase ==
    ASSUME DrainBegins \/ Drain \/ DrainTimesOut
    PROVE  UNCHANGED allButPhase
  BY DEF DrainBegins, Drain, HandlersSettle, DrainEnds, DrainTimesOut

\* Next, by the groups above.
LEMMA NextByGroups ==
    ASSUME Next
    PROVE  \/ \E r \in Requests : Quiet(r)
           \/ \E r \in Requests : Complete(r)
           \/ (\E k \in Keys : Expire(k)) \/ Subscribe
           \/ Report
           \/ DrainBegins \/ Drain \/ DrainTimesOut
  BY DEF Next, Handle, Quiet

-----------------------------------------------------------------------------
(* The steps of one request.                                               *)

\* A handler moves itself only.
LEMMA HandlersMoveThemselves ==
    ASSUME TypeOK, NEW r \in Requests, Quiet(r) \/ Complete(r)
    PROVE  \E label \in PcValues : Goto(r, label)
<1>1. CASE Call(r) \/ Lookup(r) \/ ControlAnswers(r)
  BY <1>1 DEF Call, Lookup, ControlAnswers, Follow, PcValues
<1>2. CASE Receive(r) \/ Reject(r) \/ TakeSlot(r)
  BY <1>2 DEF Receive, Reject, TakeSlot, Follow, PcValues
<1>3. CASE Admit(r) \/ Fail(r) \/ Release(r) \/ Leave(r) \/ Complete(r)
  BY <1>3 DEF Admit, Fail, Release, Leave, Complete, PcValues
<1> QED
  BY <1>1, <1>2, <1>3 DEF Quiet

\* The requests in flight as one handler moves: one more, one fewer, or as many.
LEMMA ProxiedAfterGoto ==
    ASSUME TypeOK, NEW r \in Requests, NEW label \in PcValues, Goto(r, label)
    PROVE  /\ Cardinality(Proxied) \in Nat
           /\ (label \in {"proxying", "releasing"} <=> r \in Proxied) =>
                 Cardinality(Proxied') = Cardinality(Proxied)
           /\ label \in {"proxying", "releasing"} /\ r \notin Proxied =>
                 Cardinality(Proxied') = Cardinality(Proxied) + 1
           /\ label \notin {"proxying", "releasing"} /\ r \in Proxied =>
                 Cardinality(Proxied') = Cardinality(Proxied) - 1
<1>1. Proxied' = IF label \in {"proxying", "releasing"}
                 THEN Proxied \cup {r} ELSE Proxied \ {r}
  BY DEF Proxied, Goto, TypeOK
<1>2. IsFiniteSet(Proxied)
  BY RequestsAssumption, FS_Subset DEF Proxied
<1>3. /\ Cardinality(Proxied \cup {r}) =
            IF r \in Proxied THEN Cardinality(Proxied) ELSE Cardinality(Proxied) + 1
      /\ Cardinality(Proxied \ {r}) =
            IF r \in Proxied THEN Cardinality(Proxied) - 1 ELSE Cardinality(Proxied)
  BY <1>2, FS_AddElement, FS_RemoveElement
<1>4. Cardinality(Proxied) \in Nat
  BY <1>2, FS_CardinalityType
<1>5. CASE label \in {"proxying", "releasing"}
  BY <1>1, <1>3, <1>4, <1>5
<1>6. CASE label \notin {"proxying", "releasing"}
  BY <1>1, <1>3, <1>4, <1>6
<1> QED
  BY <1>5, <1>6

\* What the authorization of a request is when it follows an answer.
LEMMA FollowedAnswer ==
    ASSUME TypeOK, NEW r \in Requests, NEW answer \in Answers \cup {Refused},
           NEW isFresh \in BOOLEAN, Follow(r, answer, isFresh)
    PROVE  /\ pc' \in [Requests -> PcValues]
           /\ auth' \in [Requests -> Answers \cup {NoAnswer, Refused}]
           /\ fresh' \subseteq Requests
           /\ pc'[r] \in {"leaving", "queueing", "authorized"}
           /\ pc'[r] = "authorized" => auth'[r] \in Answers
           /\ \A q \in Requests \ {r} : pc'[q] = pc[q] /\ auth'[q] = auth[q]
  BY AnswersAssumption DEF TypeOK, Follow, Goto, PcValues

\* The steps of a handler keep every variable's type and its authorization one.
LEMMA HandlersKeepTypes ==
    ASSUME IInv, NEW r \in Requests, Quiet(r) \/ Complete(r)
    PROVE  TypeOK' /\ AuthInv'
<1> USE DEF IInv
<1>1. CASE Call(r)
  BY <1>1 DEF Call, TypeOK, AuthInv, Goto, PcValues, handling, admission, rest,
             usage, control, history
<1>2. CASE Lookup(r)
  <2> USE <1>2 DEF Lookup
  <2>0. UNCHANGED <<cache, slotOwner, admission, rest>>
    OBVIOUS
  <2>1. CASE Goto(r, "asking") /\ UNCHANGED <<auth, fresh>>
    BY <2>0, <2>1 DEF TypeOK, AuthInv, Goto, PcValues, admission, rest, usage,
               control, history
  <2>2. CASE cache[KeyOf[r]] # NoAnswer /\ Follow(r, cache[KeyOf[r]], FALSE)
    <3>1. cache[KeyOf[r]] \in Answers \cup {Refused}
      BY <2>2, RequestsAssumption DEF TypeOK
    <3>2. /\ pc' \in [Requests -> PcValues]
          /\ auth' \in [Requests -> Answers \cup {NoAnswer, Refused}]
          /\ fresh' \subseteq Requests
          /\ pc'[r] \in {"leaving", "queueing", "authorized"}
          /\ pc'[r] = "authorized" => auth'[r] \in Answers
          /\ \A q \in Requests \ {r} : pc'[q] = pc[q] /\ auth'[q] = auth[q]
      BY <2>2, <3>1, FollowedAnswer
    <3>3. TypeOK'
      BY <2>0, <3>2 DEF TypeOK, admission, rest, usage, control, history
    <3>4. AuthInv'
      BY <3>2 DEF AuthInv
    <3> QED
      BY <3>3, <3>4
  <2> QED
    BY <2>1, <2>2
<1>3. CASE ControlAnswers(r)
  <2>1. Answer(counted) \in Answers
    BY AnswersAreAnswers DEF TypeOK
  <2>2. /\ UNCHANGED <<fresh, cache, slotOwner, admission, rest>>
        /\ Goto(r, "answered")
        /\ \E a \in Answers \cup {Refused} : auth' = [auth EXCEPT ![r] = a]
    BY <1>3, <2>1 DEF ControlAnswers
  <2>3. TypeOK'
    BY <2>2 DEF TypeOK, Goto, PcValues, admission, rest, usage, control, history
  <2>4. AuthInv'
    BY <2>2, AnswersAssumption DEF TypeOK, AuthInv, Goto
  <2> QED
    BY <2>3, <2>4
<1>4. CASE Receive(r)
  <2>1. \E a \in Answers \cup {Refused} :
           /\ Follow(r, a, TRUE)
           /\ cache' \in {cache, [cache EXCEPT ![KeyOf[r]] = a]}
    BY <1>4 DEF Receive, TypeOK, AuthInv
  <2>2. UNCHANGED <<slotOwner, admission, rest>>
    BY <1>4 DEF Receive
  <2>3. PICK a \in Answers \cup {Refused} :
           /\ Follow(r, a, TRUE)
           /\ cache' \in {cache, [cache EXCEPT ![KeyOf[r]] = a]}
    BY <2>1
  <2>4. /\ pc' \in [Requests -> PcValues]
        /\ auth' \in [Requests -> Answers \cup {NoAnswer, Refused}]
        /\ fresh' \subseteq Requests
        /\ pc'[r] \in {"leaving", "queueing", "authorized"}
        /\ pc'[r] = "authorized" => auth'[r] \in Answers
        /\ \A q \in Requests \ {r} : pc'[q] = pc[q] /\ auth'[q] = auth[q]
    BY <2>3, FollowedAnswer
  <2>5. cache' \in [Keys -> Answers \cup {NoAnswer, Refused}]
    BY <2>3 DEF TypeOK
  <2>6. TypeOK'
    BY <2>2, <2>4, <2>5 DEF TypeOK, admission, rest, usage, control, history
  <2>7. AuthInv'
    BY <2>4 DEF AuthInv
  <2> QED
    BY <2>6, <2>7
<1>5. CASE Reject(r)
  BY <1>5 DEF Reject, Forget, TypeOK, AuthInv, Goto, PcValues, admission, rest,
             usage, control, history
<1>6. CASE TakeSlot(r)
  BY <1>6 DEF TakeSlot, TypeOK, AuthInv, Goto, PcValues, admission, rest,
             usage, control, history
<1>7. CASE Admit(r)
  <2>1. auth[r] \in Answers
    BY <1>7 DEF Admit, AuthInv
  <2>2. Synced(r) \in Int
    BY <2>1, BoundsAssumption DEF TypeOK, Synced, Answers
  <2>3. inFlight' \in Nat
    BY <1>7 DEF Admit, TypeOK
  <2>4. \E label \in {"leaving", "proxying"} : Goto(r, label)
    BY <1>7 DEF Admit
  <2>5. disturbed' \in BOOLEAN
    BY <1>7 DEF Admit, Note
  <2>6. /\ UNCHANGED <<cache, slotOwner, usage, phase, control, completed,
                       acknowledged, reportFailed, finalReports>>
        /\ trialRemaining' = Synced(r) /\ Forget(r)
    BY <1>7 DEF Admit
  <2>7. pc' \in [Requests -> PcValues]
    BY <2>4 DEF TypeOK, Goto, PcValues
  <2>8. TypeOK'
    BY <2>2, <2>3, <2>5, <2>6, <2>7 DEF TypeOK, Forget, usage, control
  <2>9. AuthInv'
    BY <2>4, <2>6 DEF AuthInv, Forget, Goto, TypeOK
  <2> QED
    BY <2>8, <2>9
<1>8. CASE Fail(r)
  BY <1>8 DEF Fail, TypeOK, AuthInv, Goto, PcValues, handling, admission, rest,
             usage, control, history
<1>9. CASE Release(r)
  <2>1. /\ UNCHANGED <<handling, trialRemaining, rest>>
        /\ inFlight' = inFlight - 1 /\ Goto(r, "leaving") /\ pc[r] = "releasing"
    BY <1>9 DEF Release
  <2>2. inFlight' \in Nat
    <3>1. r \in Proxied /\ inFlight = Cardinality(Proxied)
      BY <2>1 DEF Proxied, HandlerInv
    <3>2. IsFiniteSet(Proxied)
      BY RequestsAssumption, FS_Subset DEF Proxied
    <3>3. inFlight # 0
      BY <3>1, <3>2, FS_EmptySet
    <3> QED
      BY <2>1, <3>3 DEF TypeOK
  <2>3. TypeOK'
    BY <2>1, <2>2 DEF TypeOK, Goto, PcValues, handling, rest, usage, control, history
  <2>4. AuthInv'
    BY <2>1 DEF AuthInv, TypeOK, Goto, handling
  <2> QED
    BY <2>3, <2>4
<1>10. CASE Leave(r)
  BY <1>10 DEF Leave, TypeOK, AuthInv, Goto, PcValues, admission, rest,
              usage, control, history
<1>11. CASE Complete(r)
  <2>1. Completions(r) \in Nat
    BY DEF Completions
  <2>2. /\ UNCHANGED <<handling, inFlight, reported, result, phase, control,
                       acknowledged, reportFailed, finalReports>>
        /\ Goto(r, "releasing")
        /\ disturbed' \in BOOLEAN
        /\ usageEvents' = TRUE
        /\ completed' \in Nat /\ usageQueued' \in Nat
        /\ reporter' \in {"off", "top", "calling", "counted"}
    BY <1>11, <2>1 DEF Complete, Note, TypeOK
  <2>3. pendingUsage' \in Nat /\ trialRemaining' \in Int
    BY <1>11, <2>1 DEF Complete, TypeOK
  <2>4. TypeOK'
    BY <2>2, <2>3 DEF TypeOK, Goto, PcValues, handling, control
  <2>5. AuthInv'
    BY <2>2 DEF AuthInv, TypeOK, Goto, handling
  <2> QED
    BY <2>4, <2>5
<1> QED
  BY <1>1, <1>2, <1>3, <1>4, <1>5, <1>6, <1>7, <1>8, <1>9, <1>10, <1>11 DEF Quiet

\* inFlight and the slot are given back by whoever holds them.
LEMMA HandlersKeepHandlerInv ==
    ASSUME IInv, NEW r \in Requests, Quiet(r) \/ Complete(r)
    PROVE  HandlerInv'
<1> USE DEF IInv
<1>1. PICK label \in PcValues : Goto(r, label)
  BY HandlersMoveThemselves
<1>2. \A q \in Requests : pc'[q] = IF q = r THEN label ELSE pc[q]
  BY <1>1 DEF Goto, TypeOK
<1>3. slotOwner' # NoRequest => pc'[slotOwner'] # "idle"
  <2>1. CASE Leave(r)
    BY <2>1, <1>2, RequestsAssumption DEF Leave, TypeOK, HandlerInv
  <2>2. CASE ~Leave(r)
    <3>1. label # "idle"
      BY <2>2, <1>1, <1>2
         DEF Quiet, Call, Lookup, ControlAnswers, Receive, Reject, TakeSlot,
             Admit, Fail, Release, Complete, Follow, Goto, TypeOK
    <3>2. slotOwner' \in {slotOwner, r}
      BY <2>2 DEF Quiet, Call, Lookup, ControlAnswers, Receive, Reject,
                  TakeSlot, Admit, Fail, Release, Complete, handling
    <3> QED
      BY <3>1, <3>2, <1>2 DEF HandlerInv, TypeOK
  <2> QED
    BY <2>1, <2>2
<1>4. inFlight' = Cardinality(Proxied')
  <2>1. CASE Admit(r)
    <3>1. r \notin Proxied
      BY <2>1 DEF Admit, Proxied
    <3>2. \/ label = "leaving" /\ inFlight' = inFlight
          \/ label = "proxying" /\ inFlight' = inFlight + 1
      BY <2>1, <1>1, <1>2 DEF Admit, Goto, TypeOK
    <3> QED
      BY <3>1, <3>2, <1>1, ProxiedAfterGoto DEF HandlerInv
  <2>2. CASE Release(r)
    <3>1. r \in Proxied /\ label = "leaving" /\ inFlight' = inFlight - 1
      BY <2>2, <1>1, <1>2 DEF Release, Proxied, Goto, TypeOK
    <3> QED
      BY <3>1, <1>1, ProxiedAfterGoto DEF HandlerInv
  <2>3. CASE Fail(r) \/ Complete(r)
    <3>1. r \in Proxied /\ label = "releasing" /\ inFlight' = inFlight
      BY <2>3, <1>1, <1>2 DEF Fail, Complete, Proxied, Goto, TypeOK, admission
    <3> QED
      BY <3>1, <1>1, ProxiedAfterGoto DEF HandlerInv
  <2>4. CASE \/ Call(r) \/ Lookup(r) \/ ControlAnswers(r) \/ Receive(r)
             \/ Reject(r) \/ TakeSlot(r) \/ Leave(r)
    <3>1. r \notin Proxied /\ inFlight' = inFlight
      BY <2>4 DEF Call, Lookup, ControlAnswers, Receive, Reject, TakeSlot,
                  Leave, Proxied, admission
    <3>2. label \notin {"proxying", "releasing"}
      BY <2>4, <1>1, <1>2
         DEF Call, Lookup, ControlAnswers, Receive, Reject, TakeSlot, Leave,
             Follow, Goto, TypeOK
    <3> QED
      BY <3>1, <3>2, <1>1, ProxiedAfterGoto DEF HandlerInv
  <2> QED
    BY <2>1, <2>2, <2>3, <2>4 DEF Quiet
<1> QED
  BY <1>3, <1>4 DEF HandlerInv

\* A completed request is queued, and its reservation with it.
LEMMA CompletionsKeepUsageInv ==
    ASSUME IInv, NEW r \in Requests, Complete(r)
    PROVE  UsageInv'
<1> USE DEF IInv
<1>1. Completions(r) \in Nat
  BY DEF Completions
<1>2. /\ completed' = completed + Completions(r)
      /\ usageQueued' = usageQueued + Completions(r)
      /\ pendingUsage' \in {pendingUsage, pendingUsage + Completions(r)}
      /\ usageEvents' = TRUE
      /\ reporter' = IF reporter = "off" THEN "top" ELSE reporter
      /\ UNCHANGED <<reported, result, counted, acknowledged, reportFailed>>
  BY DEF Complete, control
<1>3. InReport' = InReport /\ InReport \in Nat
  BY <1>2 DEF InReport, TypeOK
<1>4. UsageIsConserved' /\ ReservationsAreReported'
  BY <1>1, <1>2, <1>3
     DEF UsageInv, UsageIsConserved, ReservationsAreReported, TypeOK
<1>5. NoStrandedUsage' /\ AnswerInv' /\ EventsInv'
  BY <1>2 DEF UsageInv, NoStrandedUsage, AnswerInv, EventsInv, TypeOK
<1> QED
  BY <1>4, <1>5 DEF UsageInv

\* The other steps of a handler leave the accounting alone.
LEMMA QuietKeepsUsageInv ==
    ASSUME UsageInv, UNCHANGED <<usage, counted, completed, acknowledged, reportFailed>>
    PROVE  UsageInv'
  BY DEF UsageInv, UsageIsConserved, ReservationsAreReported, NoStrandedUsage,
         AnswerInv, EventsInv, InReport, usage

-----------------------------------------------------------------------------
(* The steps of the reporter.                                              *)

\* The steps of the reporter keep types, and an answer one until it is taken.
LEMMA ReportsKeepTypes ==
    ASSUME IInv, Report
    PROVE  TypeOK' /\ AuthInv' /\ HandlerInv'
<1> USE DEF IInv
<1>1. UNCHANGED <<request, inFlight, phase, trial, completed>>
  BY ReportsLeaveHandlers
<1>2. AuthInv' /\ HandlerInv'
  BY <1>1 DEF AuthInv, HandlerInv, Proxied, request, handling
<1>3. /\ pc' \in [Requests -> PcValues]
      /\ auth' \in [Requests -> Answers \cup {NoAnswer, Refused}]
      /\ fresh' \subseteq Requests
      /\ cache' \in [Keys -> Answers \cup {NoAnswer, Refused}]
      /\ slotOwner' \in Requests \cup {NoRequest}
      /\ inFlight' \in Nat
      /\ phase' \in {"open", "waiting", "settled", "drained", "abandoned"}
      /\ trial' \in BOOLEAN
      /\ completed' \in Nat
  BY <1>1 DEF TypeOK, request, handling
<1>4. trialRemaining' \in Int /\ pendingUsage' \in Nat /\ result' \in Answers \cup {NoAnswer}
  <2>1. CASE NextReport \/ ReportFailed
    BY <2>1 DEF NextReport, ReportFailed, TypeOK, admission
  <2>2. CASE ControlCounts
    <3>1. counted' \in Nat /\ result' = Answer(counted')
      BY <2>2 DEF ControlCounts, TypeOK
    <3>2. result' \in Answers
      BY <3>1, AnswersAreAnswers
    <3> QED
      BY <2>2, <3>2 DEF ControlCounts, TypeOK, admission
  <2>3. CASE ReportTaken
    <3>1. result \in Answers
      BY <2>3 DEF ReportTaken, UsageInv, AnswerInv
    <3>2. result.left \in Int
      BY <3>1, BoundsAssumption DEF Answers
    <3>3. PendingAfter \in Nat
      BY DEF PendingAfter, TypeOK
    <3>4. /\ trialRemaining' = IF result.trial THEN result.left - PendingAfter ELSE -1
          /\ pendingUsage' = PendingAfter
          /\ result' = NoAnswer
      BY <2>3 DEF ReportTaken
    <3>5. result.left - PendingAfter \in Int /\ -1 \in Int
      BY <3>2, <3>3
    <3>6. trialRemaining' \in Int
      BY <3>4, <3>5
    <3> QED
      BY <3>3, <3>4, <3>6
  <2> QED
    BY <2>1, <2>2, <2>3 DEF Report
<1>5. /\ usageQueued' \in Nat
      /\ usageEvents' \in BOOLEAN
      /\ reporter' \in {"off", "top", "calling", "counted"}
      /\ reported' \in Nat
  <2>1. CASE NextReport
    <3>1. reported' \in Nat /\ usageQueued' \in Nat
      BY <2>1 DEF NextReport, TypeOK
    <3>2. usageEvents' \in BOOLEAN
      BY <2>1 DEF NextReport, TypeOK
    <3>3. reporter' \in {"off", "top", "calling", "counted"}
      BY <2>1 DEF NextReport
    <3> QED
      BY <3>1, <3>2, <3>3
  <2>2. CASE ControlCounts
    BY <2>2 DEF ControlCounts, TypeOK
  <2>3. CASE ReportTaken
    BY <2>3 DEF ReportTaken, AfterTaken, TypeOK
  <2>4. CASE ReportFailed
    <3>1. reported' \in Nat /\ usageQueued' \in Nat
      BY <2>4 DEF ReportFailed, Requeued, TypeOK
    <3>2. usageEvents' \in BOOLEAN
      BY <2>4 DEF ReportFailed
    <3>3. reporter' \in {"off", "top", "calling", "counted"}
      BY <2>4 DEF ReportFailed, AfterFailed
    <3> QED
      BY <3>1, <3>2, <3>3
  <2> QED
    BY <2>1, <2>2, <2>3, <2>4 DEF Report
<1>6. /\ counted' \in Nat
      /\ acknowledged' \in Nat
      /\ finalReports' \in Nat
  BY DEF Report, NextReport, ControlCounts, ReportTaken, ReportFailed,
         BeginReport, TypeOK, control
<1>7. reportFailed' \in BOOLEAN /\ disturbed' \in BOOLEAN
  <2>1. CASE NextReport
    BY <2>1 DEF NextReport, TypeOK
  <2>2. CASE ControlCounts
    BY <2>2 DEF ControlCounts, Note, TypeOK
  <2>3. CASE ReportTaken
    BY <2>3 DEF ReportTaken, Note, TypeOK
  <2>4. CASE ReportFailed
    BY <2>4 DEF ReportFailed, TypeOK
  <2> QED
    BY <2>1, <2>2, <2>3, <2>4 DEF Report
<1>8. TypeOK'
  BY <1>3, <1>4, <1>5, <1>6, <1>7 DEF TypeOK
<1> QED
  BY <1>2, <1>8

\* A report moves usage from the queue to itself, then to the acknowledged, or back.
LEMMA ReportsKeepUsageInv ==
    ASSUME IInv, Report
    PROVE  UsageInv'
<1> USE DEF IInv, UsageInv
<1>1. completed' = completed
  BY ReportsLeaveHandlers
<1>2. CASE NextReport
  <2>1. UNCHANGED <<pendingUsage, acknowledged, counted, reportFailed>>
    BY <1>2 DEF NextReport, control
  <2>2. CASE ~usageEvents /\ reporter' = "off" /\ UNCHANGED <<usageQueued, usageEvents, reported>>
    BY <1>1, <1>2, <2>1, <2>2
       DEF NextReport, UsageIsConserved, ReservationsAreReported,
           NoStrandedUsage, AnswerInv, EventsInv, InReport
  <2>3. CASE /\ usageEvents /\ reporter' = "calling" /\ reported' = usageQueued
             /\ usageQueued' = 0 /\ usageEvents' = FALSE
    BY <1>1, <1>2, <2>1, <2>3
       DEF NextReport, UsageIsConserved, ReservationsAreReported,
           NoStrandedUsage, AnswerInv, EventsInv, InReport, TypeOK
  <2> QED
    BY <1>2, <2>2, <2>3 DEF NextReport
<1>3. CASE ControlCounts
  <2>1. /\ UNCHANGED <<pendingUsage, usageQueued, usageEvents, reported,
                       acknowledged, reportFailed>>
        /\ reporter = "calling" /\ reporter' = "counted"
        /\ counted' = counted + reported
    BY <1>3 DEF ControlCounts
  <2>2. result' \in Answers
    BY <1>3, AnswersAreAnswers DEF ControlCounts, TypeOK
  <2>3. AnswerInv'
    BY <2>1, <2>2 DEF AnswerInv, UsageIsConserved, TypeOK
  <2>4. UsageIsConserved' /\ ReservationsAreReported'
    BY <1>1, <2>1 DEF UsageIsConserved, ReservationsAreReported, InReport, TypeOK
  <2>5. NoStrandedUsage' /\ EventsInv'
    BY <2>1 DEF NoStrandedUsage, EventsInv
  <2> QED
    BY <2>3, <2>4, <2>5
<1>4. CASE ReportTaken
  <2>1. /\ UNCHANGED <<usageQueued, usageEvents, counted>>
        /\ reporter = "counted" /\ reporter' = "top"
        /\ pendingUsage' = PendingAfter
        /\ acknowledged' = acknowledged + reported
    BY <1>4 DEF ReportTaken, AfterTaken, control
  <2>2. UsageIsConserved'
    BY <1>1, <2>1 DEF UsageIsConserved, AnswerInv, InReport, TypeOK
  <2>3. ReservationsAreReported'
    BY <2>1 DEF ReservationsAreReported, PendingAfter, InReport, TypeOK
  <2>4. NoStrandedUsage' /\ AnswerInv' /\ EventsInv'
    BY <2>1 DEF NoStrandedUsage, AnswerInv, EventsInv
  <2> QED
    BY <2>2, <2>3, <2>4
<1>5. CASE ReportFailed
  <2>1. /\ UNCHANGED <<pendingUsage, acknowledged, counted>>
        /\ reporter \in {"calling", "counted"} /\ reporter' = "off"
        /\ usageQueued' = usageQueued + reported
        /\ usageEvents' = TRUE /\ reportFailed' = TRUE
    BY <1>5 DEF ReportFailed, Requeued, AfterFailed, control
  <2>2. UsageIsConserved' /\ ReservationsAreReported'
    BY <1>1, <2>1 DEF UsageIsConserved, ReservationsAreReported, InReport, TypeOK
  <2>3. NoStrandedUsage' /\ AnswerInv' /\ EventsInv'
    BY <2>1 DEF NoStrandedUsage, AnswerInv, EventsInv
  <2> QED
    BY <2>2, <2>3
<1> QED
  BY <1>2, <1>3, <1>4, <1>5 DEF Report

-----------------------------------------------------------------------------
(* The drain.                                                              *)

\* No handler begins, and none records, once they have settled.
LEMMA StepsKeepDrainInv ==
    ASSUME IInv, Next
    PROVE  DrainInv'
<1> USE DEF IInv
<1>1. CASE \E r \in Requests : Quiet(r) \/ Complete(r)
  <2>1. PICK r \in Requests : Quiet(r) \/ Complete(r)
    BY <1>1
  <2>2. phase \notin {"settled", "drained"}
    <3>1. CASE Call(r)
      BY <3>1 DEF Call, Open
    <3>2. CASE ~Call(r)
      <4>1. pc[r] # "idle"
        BY <2>1, <3>2, RequestsAssumption
           DEF Quiet, Lookup, ControlAnswers, Receive, Reject, TakeSlot, Admit,
               Fail, Release, Leave, Complete
      <4> QED
        BY <4>1 DEF DrainInv
    <3> QED
      BY <3>1, <3>2
  <2>3. UNCHANGED <<phase, finalReports>>
    BY <2>1, QuietHandlers DEF Complete
  <2> QED
    BY <2>2, <2>3 DEF DrainInv
<1>2. CASE (\E k \in Keys : Expire(k)) \/ Subscribe
  BY <1>2, QuietOthers DEF DrainInv, usage, history
<1>3. CASE Report
  <2>1. UNCHANGED <<pc, phase>>
    BY <1>3, ReportsLeaveHandlers DEF request
  <2>2. CASE NextReport
    BY <2>1, <2>2 DEF NextReport, BeginReport, DrainInv, TypeOK
  <2>3. CASE ControlCounts \/ ReportTaken \/ ReportFailed
    BY <2>1, <2>3 DEF ControlCounts, ReportTaken, ReportFailed, AfterTaken,
                      AfterFailed, DrainInv
  <2> QED
    BY <1>3, <2>2, <2>3 DEF Report
<1>4. CASE DrainBegins \/ Drain \/ DrainTimesOut
  <2>1. UNCHANGED allButPhase
    BY <1>4, DrainsChangeThePhase
  <2>2. UNCHANGED <<pc, reporter, usageEvents, finalReports>>
    BY <2>1 DEF allButPhase, request, usage, history
  <2> QED
    BY <1>4, <2>2 DEF DrainBegins, Drain, HandlersSettle, Settled, DrainEnds,
                      DrainTimesOut, DrainInv
<1> QED
  BY <1>1, <1>2, <1>3, <1>4, NextByGroups

-----------------------------------------------------------------------------

\* The initial states satisfy the inductive invariant.
LEMMA InitHolds == Init => IInv
<1> SUFFICES ASSUME Init PROVE IInv
  OBVIOUS
<1>1. TypeOK
  <2>1. /\ pc \in [Requests -> PcValues]
        /\ auth \in [Requests -> Answers \cup {NoAnswer, Refused}]
        /\ cache \in [Keys -> Answers \cup {NoAnswer, Refused}]
    BY DEF Init, PcValues
  <2>2. trialRemaining \in Int
    BY DEF Init
  <2> QED
    BY <2>1, <2>2 DEF Init, TypeOK
<1>2. AuthInv
  BY DEF Init, AuthInv
<1>3. HandlerInv
  <2>1. Proxied = {}
    BY DEF Init, Proxied
  <2> QED
    BY <2>1, FS_EmptySet DEF Init, HandlerInv
<1>4. UsageInv
  BY DEF Init, UsageInv, UsageIsConserved, ReservationsAreReported,
         NoStrandedUsage, AnswerInv, EventsInv, InReport
<1>5. DrainInv
  BY DEF Init, DrainInv
<1> QED
  BY <1>1, <1>2, <1>3, <1>4, <1>5 DEF IInv

\* And every step keeps it.
LEMMA StepsKeepIInv == IInv /\ [Next]_vars => IInv'
<1> SUFFICES ASSUME IInv, [Next]_vars PROVE IInv'
  OBVIOUS
<1>1. CASE UNCHANGED vars
  BY <1>1 DEF IInv, TypeOK, AuthInv, HandlerInv, Proxied, UsageInv,
              UsageIsConserved, ReservationsAreReported, NoStrandedUsage,
              AnswerInv, EventsInv, InReport, DrainInv, vars, request, handling,
              admission, rest, usage, control, history
<1>2. CASE Next
  <2>0. DrainInv'
    BY <1>2, StepsKeepDrainInv
  <2>1. CASE \E r \in Requests : Quiet(r)
    <3>1. PICK r \in Requests : Quiet(r)
      BY <2>1
    <3>2. TypeOK' /\ AuthInv' /\ HandlerInv'
      BY <3>1, HandlersKeepTypes, HandlersKeepHandlerInv
    <3>3. UsageInv'
      BY <3>1, QuietHandlers, QuietKeepsUsageInv DEF IInv, control
    <3> QED
      BY <2>0, <3>2, <3>3 DEF IInv
  <2>2. CASE \E r \in Requests : Complete(r)
    BY <2>0, <2>2, HandlersKeepTypes, HandlersKeepHandlerInv,
       CompletionsKeepUsageInv DEF IInv
  <2>3. CASE (\E k \in Keys : Expire(k)) \/ Subscribe
    <3>1. UNCHANGED <<pc, auth, inFlight, slotOwner, usage, phase, counted, history>>
      BY <2>3, QuietOthers
    <3>2. TypeOK'
      <4>1. CASE \E k \in Keys : Expire(k)
        BY <4>1 DEF IInv, TypeOK, Expire, rest, admission, usage, control, history
      <4>2. CASE Subscribe
        BY <4>2 DEF IInv, TypeOK, Subscribe, request, handling, admission, usage, history
      <4> QED
        BY <2>3, <4>1, <4>2
    <3>3. AuthInv' /\ HandlerInv'
      BY <3>1 DEF IInv, AuthInv, HandlerInv, Proxied
    <3>4. UsageInv'
      BY <3>1, QuietKeepsUsageInv DEF IInv, history
    <3> QED
      BY <2>0, <3>2, <3>3, <3>4 DEF IInv
  <2>4. CASE Report
    BY <2>0, <2>4, ReportsKeepTypes, ReportsKeepUsageInv DEF IInv
  <2>5. CASE DrainBegins \/ Drain \/ DrainTimesOut
    <3>1. UNCHANGED allButPhase
      BY <2>5, DrainsChangeThePhase
    <3>2. phase' \in {"waiting", "settled", "drained", "abandoned"}
      BY <2>5 DEF DrainBegins, Drain, HandlersSettle, DrainEnds, DrainTimesOut
    <3>3. TypeOK'
      BY <3>1, <3>2 DEF IInv, TypeOK, allButPhase, request, handling, admission,
                        usage, control, history
    <3>4. AuthInv' /\ HandlerInv'
      BY <3>1 DEF IInv, AuthInv, HandlerInv, Proxied, allButPhase, request,
                  handling, admission
    <3>5. UsageInv'
      BY <3>1, QuietKeepsUsageInv DEF IInv, allButPhase, control, history
    <3> QED
      BY <2>0, <3>3, <3>4, <3>5 DEF IInv
  <2> QED
    BY <1>2, <2>1, <2>2, <2>3, <2>4, <2>5, NextByGroups
<1> QED
  BY <1>1, <1>2

(* The inductive invariant of localInference.                              *)
THEOREM Inductive == Spec => []IInv
  BY InitHolds, StepsKeepIInv, PTL DEF Spec

(* Every reachable state is well typed: in particular, h.inFlight and      *)
(* h.pendingUsage never go below zero (release and reportUsage).           *)
THEOREM TypeCorrect == Spec => []TypeOK
<1>1. IInv => TypeOK
  BY DEF IInv
<1> QED
  BY <1>1, Inductive, PTL

(* recordUsage and reportUsage lose no completed request and count none    *)
(* twice, whatever fails while others complete.                            *)
THEOREM UsageConserved == Spec => []UsageIsConserved
<1>1. IInv => UsageIsConserved
  BY DEF IInv, UsageInv
<1> QED
  BY <1>1, Inductive, PTL

(* What pendingUsage reserves is on its way to the control plane.          *)
THEOREM ReservationsReported == Spec => []ReservationsAreReported
<1>1. IInv => ReservationsAreReported
  BY DEF IInv, UsageInv
<1> QED
  BY <1>1, Inductive, PTL

(* The reporter never ends over usage that it has not tried to report.     *)
THEOREM NoUsageStranded == Spec => []NoStrandedUsage
<1>1. IInv => NoStrandedUsage
  BY DEF IInv, UsageInv
<1> QED
  BY <1>1, Inductive, PTL

(* The accounts of recordUsage and reportUsage balance, for every number   *)
(* of requests, keys and allowance.                                        *)
THEOREM UsageAccounted == Spec => []UsageIsAccounted
  BY UsageConserved, ReservationsReported, NoUsageStranded, PTL DEF UsageIsAccounted

(* One report at most begins after the handlers settled: drain's timeout   *)
(* of two reports (drain.go:14) is enough.                                 *)
THEOREM TwoTimeoutsAreEnough == Spec => []OneMoreReport
<1>1. IInv => OneMoreReport
  BY DEF IInv, DrainInv, OneMoreReport
<1> QED
  BY <1>1, Inductive, PTL

(* A drain that ended by itself left no handler, no reporter, no slot and  *)
(* nothing unreported but a report that failed.                            *)
THEOREM DrainComplete == Spec => []DrainIsComplete
<1>1. IInv => DrainIsComplete
  <2> SUFFICES ASSUME IInv, phase = "drained"
               PROVE  /\ \A r \in Requests : pc[r] = "idle"
                      /\ inFlight = 0
                      /\ slotOwner = NoRequest
                      /\ reporter = "off"
                      /\ completed # acknowledged => reportFailed
    BY DEF DrainIsComplete
  <2>1. (\A r \in Requests : pc[r] = "idle") /\ reporter = "off"
    BY DEF IInv, DrainInv
  <2>2. Proxied = {}
    BY <2>1 DEF Proxied
  <2>3. inFlight = 0
    BY <2>2, FS_EmptySet DEF IInv, HandlerInv
  <2>4. slotOwner = NoRequest
    BY <2>1 DEF IInv, HandlerInv, TypeOK
  <2>5. completed # acknowledged => reportFailed
    <3>1. completed = acknowledged + usageQueued
      BY <2>1 DEF IInv, UsageInv, UsageIsConserved, InReport, TypeOK
    <3>2. completed # acknowledged => usageQueued > 0
      BY <3>1 DEF IInv, TypeOK
    <3> QED
      BY <2>1, <3>2 DEF IInv, UsageInv, EventsInv, NoStrandedUsage
  <2> QED
    BY <2>1, <2>3, <2>4, <2>5
<1> QED
  BY <1>1, Inductive, PTL

-----------------------------------------------------------------------------
(* The allowance of the trial.                                             *)

\* What the agent takes to be left and what it has completed add up to the allowance at
\* most; whoever is proxied has set it, and every completion that is not acknowledged is
\* reserved.
Spending ==
    /\ completed <= Allowance
    /\ trialRemaining >= 0 => completed + trialRemaining <= Allowance
    /\ trialRemaining < 0 => completed = 0
    /\ \A r \in Requests : pc[r] = "proxying" => trialRemaining >= 0
    /\ pendingUsage = completed - acknowledged

\* An answer on its way is the control plane's last word, and none speaks of a subscription.
LastWords ==
    /\ \A r \in Requests :
           r \in fresh \/ pc[r] = "answered" => auth[r] \in {Refused, Answer(counted)}
    /\ \A r \in Requests : auth[r] \in Answers => auth[r].trial
    /\ \A k \in Keys : cache[k] \in Answers => cache[k].trial
    /\ reporter = "counted" => result = Answer(counted)

\* Only an authorization that admit will read is fresh.
FreshInv == \A r \in fresh : pc[r] = "authorized"

\* While the trial lasts and neither of the two causes has happened.
AllowanceInv == FreshInv /\ (trial /\ ~disturbed => Spending /\ LastWords)

\* What an answer about the trial says is left, with the total that it is about.
LEMMA AnswerFacts ==
    ASSUME TypeOK, NEW total \in Nat, trial
    PROVE  LET answer == Answer(total) IN
           /\ answer \in Answers /\ answer # Refused /\ answer.trial
           /\ answer.left \in 0 .. Allowance
           /\ answer.left = 0 \/ answer.left = Allowance - total
<1>1. Answer(total) \in Answers /\ Answer(total) # Refused
  BY AnswersAreAnswers, AnswersAssumption
<1>2. Answer(total) = [trial |-> trial, left |-> LeftAfter(total)]
  BY DEF Answer
<1>3. LeftAfter(total) = 0 \/ LeftAfter(total) = Allowance - total
  BY DEF LeftAfter
<1>4. Answer(total).left \in 0 .. Allowance
  BY <1>1 DEF Answers
<1> QED
  BY <1>1, <1>2, <1>3, <1>4

\* Only what admit will read becomes fresh.
LEMMA FreshStays ==
    ASSUME TypeOK, FreshInv, Next
    PROVE  FreshInv'
<1>1. ASSUME NEW r \in Requests, NEW answer, NEW isFresh \in BOOLEAN, Follow(r, answer, isFresh),
             r \notin fresh
      PROVE  FreshInv'
  BY <1>1 DEF Follow, Goto, FreshInv, TypeOK
<1>2. ASSUME NEW r \in Requests, Lookup(r) \/ Receive(r)
      PROVE  FreshInv'
  <2>1. r \notin fresh
    BY <1>2 DEF Lookup, Receive, FreshInv
  <2>2. CASE Goto(r, "asking") /\ UNCHANGED fresh
    BY <2>1, <2>2 DEF Goto, FreshInv, TypeOK
  <2> QED
    BY <1>1, <1>2, <2>1, <2>2 DEF Lookup, Receive
<1>3. ASSUME NEW r \in Requests,
             Call(r) \/ ControlAnswers(r) \/ TakeSlot(r) \/ Complete(r) \/ Fail(r) \/ Release(r) \/ Leave(r)
      PROVE  FreshInv'
  <2>1. r \notin fresh \/ pc[r] = "leaving"
    BY <1>3 DEF FreshInv, Call, ControlAnswers, TakeSlot, Complete, Fail, Release, Leave
  <2>2. r \notin fresh /\ UNCHANGED fresh /\ \E label \in PcValues : Goto(r, label)
    BY <1>3, HandlersMoveThemselves DEF FreshInv, Call, ControlAnswers, TakeSlot, Complete, Fail, Release,
                                        Leave, Quiet, handling, rest
  <2> QED
    BY <2>2 DEF FreshInv, Goto, TypeOK
<1>4. ASSUME NEW r \in Requests, Reject(r) \/ Admit(r)
      PROVE  FreshInv'
  BY <1>4 DEF Reject, Admit, Forget, Goto, FreshInv, TypeOK
<1>5. CASE ~\E r \in Requests : Call(r) \/ Handle(r)
  <2>1. UNCHANGED <<pc, fresh>>
    BY <1>5 DEF Next, Expire, Subscribe, Report, NextReport, ControlCounts, ReportTaken, ReportFailed,
                DrainBegins, Drain, HandlersSettle, DrainEnds, DrainTimesOut, request, handling, allButPhase
  <2> QED
    BY <2>1 DEF FreshInv
<1> QED
  BY <1>2, <1>3, <1>4, <1>5 DEF Handle

\* The steps that neither admit, complete nor report.
LEMMA WordsStay ==
    ASSUME IInv, AllowanceInv, NEW r \in Requests, Quiet(r), ~Admit(r), trial, ~disturbed
    PROVE  Spending' /\ LastWords'
<1>1. Spending /\ LastWords /\ FreshInv /\ TypeOK
  BY DEF AllowanceInv, IInv
<1>2. /\ UNCHANGED <<trialRemaining, pendingUsage, completed, acknowledged, counted, trial, reporter, result>>
      /\ pc'[r] # "proxying"
      /\ \A q \in Requests \ {r} : pc'[q] = pc[q] /\ auth'[q] = auth[q] /\ (q \in fresh' <=> q \in fresh)
  BY <1>1 DEF Quiet, Call, Lookup, ControlAnswers, Receive, Reject, TakeSlot, Fail, Release, Leave, Follow,
              Forget, Goto, TypeOK, rest, usage, control, history, admission, handling
<1>3. Spending'
  BY <1>1, <1>2 DEF Spending
<1>4. /\ Answer(counted)' = Answer(counted)
      /\ Answer(counted) \in Answers /\ Answer(counted).trial
  BY <1>1, <1>2, AnswerFacts DEF TypeOK, Answer, LeftAfter
<1>5. /\ r \in fresh' \/ pc'[r] = "answered" => auth'[r] \in {Refused, Answer(counted)}
      /\ auth'[r] \in Answers => auth'[r].trial
      /\ \A k \in Keys : cache'[k] \in Answers => cache'[k].trial
  <2>1. CASE Call(r) \/ TakeSlot(r) \/ Fail(r) \/ Release(r) \/ Leave(r)
    BY <1>1, <2>1 DEF Call, TakeSlot, Fail, Release, Leave, Goto, TypeOK, LastWords, FreshInv, handling
  <2>2. CASE Reject(r)
    BY <1>1, <2>2, AnswersAssumption DEF Reject, Forget, Goto, TypeOK, LastWords
  <2>3. CASE ControlAnswers(r)
    BY <1>1, <1>4, <2>3, AnswersAssumption DEF ControlAnswers, Goto, TypeOK, LastWords
  <2>4. ASSUME NEW answer \in Answers \cup {Refused}, NEW isFresh \in BOOLEAN,
               Follow(r, answer, isFresh), r \notin fresh,
               answer \in Answers => answer.trial,
               isFresh => answer \in {Refused, Answer(counted)}
        PROVE  /\ r \in fresh' \/ pc'[r] = "answered" => auth'[r] \in {Refused, Answer(counted)}
               /\ auth'[r] \in Answers => auth'[r].trial
    BY <1>1, <2>4, AnswersAssumption DEF Follow, Goto, TypeOK
  <2>5. CASE Lookup(r)
    <3>1. r \notin fresh /\ UNCHANGED cache
      BY <1>1, <2>5 DEF Lookup, FreshInv
    <3>2. CASE Goto(r, "asking") /\ UNCHANGED <<auth, fresh>>
      BY <1>1, <3>1, <3>2 DEF Goto, TypeOK, LastWords
    <3>3. CASE cache[KeyOf[r]] # NoAnswer /\ Follow(r, cache[KeyOf[r]], FALSE)
      <4>1. /\ cache[KeyOf[r]] \in Answers \cup {Refused}
            /\ cache[KeyOf[r]] \in Answers => cache[KeyOf[r]].trial
        BY <1>1, <3>3, RequestsAssumption DEF TypeOK, LastWords
      <4> QED
        BY <1>1, <2>4, <3>1, <3>3, <4>1 DEF LastWords
    <3> QED
      BY <2>5, <3>2, <3>3 DEF Lookup
  <2>6. CASE Receive(r)
    <3>1. r \notin fresh
      BY <1>1, <2>6 DEF Receive, FreshInv
    <3>2. CASE pc[r] = "answered" /\ cache' = [cache EXCEPT ![KeyOf[r]] = auth[r]] /\ Follow(r, auth[r], TRUE)
      <4>1. auth[r] \in {Refused, Answer(counted)}
        BY <1>1, <3>2 DEF LastWords
      <4>2. auth[r] \in Answers \cup {Refused} /\ (auth[r] \in Answers => auth[r].trial)
        BY <1>4, <4>1, AnswersAssumption
      <4> QED
        BY <1>1, <2>4, <3>1, <3>2, <4>1, <4>2 DEF LastWords, TypeOK
    <3>3. CASE Follow(r, Refused, TRUE) /\ UNCHANGED cache
      BY <1>1, <2>4, <3>1, <3>3, AnswersAssumption DEF LastWords
    <3> QED
      BY <2>6, <3>2, <3>3 DEF Receive
  <2> QED
    BY <2>1, <2>2, <2>3, <2>5, <2>6 DEF Quiet
<1>6. LastWords'
  BY <1>1, <1>2, <1>4, <1>5 DEF LastWords
<1> QED
  BY <1>3, <1>6

\* An admission takes the allowance from an answer, minus what is reserved, or leaves it.
LEMMA AdmissionsSpend ==
    ASSUME IInv, AllowanceInv, NEW r \in Requests, Admit(r), trial, ~disturbed'
    PROVE  Spending' /\ LastWords'
<1>1. ~disturbed /\ Spending /\ LastWords /\ FreshInv /\ TypeOK
  BY DEF AllowanceInv, IInv, Admit, Note
<1>2. /\ UNCHANGED <<pendingUsage, completed, acknowledged, counted, trial, reporter, result, cache>>
      /\ pc' \in [Requests -> PcValues]
      /\ \A q \in Requests \ {r} : pc'[q] = pc[q] /\ auth'[q] = auth[q] /\ (q \in fresh' <=> q \in fresh)
      /\ auth'[r] = NoAnswer /\ r \notin fresh' /\ pc'[r] \in {"leaving", "proxying"}
      /\ trialRemaining' = Synced(r)
  BY <1>1 DEF Admit, Forget, Goto, TypeOK, usage, control, PcValues
<1>3. auth[r] \in Answers /\ auth[r].trial /\ auth[r].left \in 0 .. Allowance
  BY <1>1 DEF Admit, IInv, AuthInv, LastWords, Answers
<1>4. acknowledged <= counted /\ completed \in Nat /\ acknowledged \in Nat /\ counted \in Nat
      /\ Allowance \in Nat /\ pendingUsage \in Nat /\ trialRemaining \in Int
  BY <1>1, BoundsAssumption DEF IInv, UsageInv, UsageIsConserved, TypeOK
<1>5. trialRemaining' \in Int /\ trialRemaining' >= 0
  <2>1. ~(trialRemaining' < 0)
    BY <1>3 DEF Admit, Note
  <2>2. trialRemaining' \in Int
    BY <1>2, <1>3, <1>4 DEF Synced
  <2> QED
    BY <2>1, <2>2
<1>6. completed + trialRemaining' <= Allowance
  <2>1. CASE trialRemaining >= 0 /\ r \notin fresh
    BY <1>1, <1>2, <1>3, <1>4, <2>1 DEF Synced, Spending
  <2>2. CASE r \in fresh
    <3>1. auth[r] = Answer(counted)
      BY <1>1, <1>3, <2>2, AnswersAssumption DEF LastWords
    <3>2. auth[r].left = 0 \/ auth[r].left = Allowance - counted
      BY <1>1, <1>4, <3>1, AnswerFacts
    <3>3. trialRemaining' = auth[r].left - pendingUsage
      BY <1>2, <1>3, <2>2 DEF Synced
    <3>4. pendingUsage = completed - acknowledged /\ completed <= Allowance
      BY <1>1 DEF Spending
    <3> QED
      BY <1>3, <1>4, <1>5, <3>2, <3>3, <3>4
  <2>3. CASE trialRemaining < 0
    <3>1. completed = 0 /\ trialRemaining' = auth[r].left - pendingUsage
      BY <1>1, <1>2, <1>3, <2>3 DEF Synced, Spending
    <3> QED
      BY <1>3, <1>4, <3>1
  <2> QED
    BY <1>4, <2>1, <2>2, <2>3
<1>7. Spending'
  BY <1>1, <1>2, <1>4, <1>5, <1>6 DEF Spending
<1>8. LastWords'
  BY <1>1, <1>2, AnswersAssumption DEF LastWords, Answer, LeftAfter
<1> QED
  BY <1>7, <1>8

\* A completion moves one request from what is left to what is completed and reserved.
LEMMA CompletionsSpend ==
    ASSUME IInv, AllowanceInv, NEW r \in Requests, Complete(r), trial, ~disturbed'
    PROVE  Spending' /\ LastWords'
<1>1. ~disturbed /\ Spending /\ LastWords /\ FreshInv /\ TypeOK
  BY DEF AllowanceInv, IInv, Complete, Note
<1>2. /\ UNCHANGED <<auth, fresh, cache, acknowledged, counted, trial, result>>
      /\ \A q \in Requests : pc'[q] \in {"proxying", "answered"} => pc'[q] = pc[q]
      /\ reporter' = "counted" => reporter = "counted"
  BY <1>1 DEF Complete, Goto, TypeOK, handling, control
<1>3. trialRemaining >= 0
  BY <1>1 DEF Complete, Spending
<1>4. /\ completed' = completed + Completions(r)
      /\ trialRemaining' = trialRemaining - Completions(r)
      /\ pendingUsage' = pendingUsage + Completions(r)
  BY <1>3 DEF Complete
<1>5. Completions(r) \in Nat /\ completed \in Nat /\ acknowledged \in Nat /\ trialRemaining \in Int
      /\ pendingUsage \in Nat /\ Allowance \in Nat
  BY <1>1, BoundsAssumption DEF TypeOK, Completions
<1>6. trialRemaining' >= 0
  <2>1. ~(trialRemaining' < 0)
    BY <1>3 DEF Complete, Note
  <2> QED
    BY <1>4, <1>5, <2>1
<1>7. Spending'
  BY <1>1, <1>2, <1>3, <1>4, <1>5, <1>6 DEF Spending
<1>8. LastWords'
  BY <1>1, <1>2 DEF LastWords, Answer, LeftAfter
<1> QED
  BY <1>7, <1>8

\* A report gives back what it has told, and takes the allowance from what it is told.
LEMMA ReportsSpend ==
    ASSUME IInv, AllowanceInv, Report, trial, ~disturbed'
    PROVE  Spending' /\ LastWords'
<1>1. ~disturbed /\ Spending /\ LastWords /\ FreshInv /\ TypeOK
  <2>1. CASE NextReport
    BY <2>1 DEF NextReport, AllowanceInv, IInv
  <2>2. CASE ControlCounts
    BY <2>2 DEF ControlCounts, Note, AllowanceInv, IInv
  <2>3. CASE ReportTaken
    BY <2>3 DEF ReportTaken, Note, AllowanceInv, IInv
  <2>4. CASE ReportFailed
    BY <2>4 DEF ReportFailed, AllowanceInv, IInv
  <2> QED
    BY <2>1, <2>2, <2>3, <2>4 DEF Report
<1>2. UNCHANGED <<pc, auth, fresh, cache, trial, completed>>
  BY ReportsLeaveHandlers DEF request, handling
<1>3. completed \in Nat /\ acknowledged \in Nat /\ counted \in Nat /\ Allowance \in Nat
      /\ pendingUsage \in Nat /\ trialRemaining \in Int /\ reported \in Nat /\ usageQueued \in Nat
  BY <1>1, BoundsAssumption DEF TypeOK
<1>4. CASE NextReport \/ ReportFailed
  <2>1. UNCHANGED <<trialRemaining, pendingUsage, acknowledged, counted>> /\ reporter' # "counted"
    BY <1>4 DEF NextReport, ReportFailed, AfterFailed, admission, control
  <2> QED
    BY <1>1, <1>2, <2>1 DEF Spending, LastWords, Answer, LeftAfter
<1>5. CASE ControlCounts
  <2>1. UNCHANGED <<trialRemaining, pendingUsage, acknowledged>> /\ result' = Answer(counted')
    BY <1>5 DEF ControlCounts, admission
  <2>2. ~Overtaken
    BY <1>1, <1>5 DEF ControlCounts, Note
  <2>3. \A r \in Requests : r \notin fresh /\ pc[r] # "answered"
    BY <2>2 DEF Overtaken
  <2>4. Answer(counted)' = Answer(counted')
    BY <1>2 DEF Answer, LeftAfter
  <2> QED
    BY <1>1, <1>2, <2>1, <2>3, <2>4 DEF Spending, LastWords
<1>6. CASE ReportTaken
  <2>1. /\ result = Answer(counted) /\ acknowledged + reported <= counted
        /\ completed = acknowledged + usageQueued + reported
    BY <1>1, <1>6 DEF ReportTaken, LastWords, IInv, UsageInv, AnswerInv, UsageIsConserved, InReport
  <2>2. result.trial /\ result.left \in 0 .. Allowance /\ (result.left = 0 \/ result.left = Allowance - counted)
    BY <1>1, <1>3, <2>1, AnswerFacts
  <2>3. pendingUsage = usageQueued + reported
    BY <1>1, <1>3, <2>1 DEF Spending
  <2>4. PendingAfter = usageQueued
    BY <1>3, <2>3 DEF PendingAfter
  <2>5. /\ pendingUsage' = usageQueued /\ acknowledged' = acknowledged + reported
        /\ trialRemaining' = result.left - usageQueued
        /\ UNCHANGED counted /\ reporter' # "counted" /\ trialRemaining' >= 0
    <3>1. /\ pendingUsage' = usageQueued /\ acknowledged' = acknowledged + reported
          /\ trialRemaining' = result.left - usageQueued
          /\ UNCHANGED counted /\ reporter' # "counted"
      BY <1>6, <2>2, <2>4 DEF ReportTaken, AfterTaken, control
    <3>2. ~(trialRemaining' < 0)
      BY <1>6, <2>2 DEF ReportTaken, Note
    <3>3. trialRemaining' \in Int
      BY <1>3, <2>2, <3>1
    <3> QED
      BY <3>1, <3>2, <3>3
  <2>6. completed + trialRemaining' <= Allowance
    BY <1>1, <1>3, <2>1, <2>2, <2>5 DEF Spending
  <2>7. Spending'
    BY <1>1, <1>2, <1>3, <2>1, <2>5, <2>6 DEF Spending
  <2>8. LastWords'
    BY <1>1, <1>2, <2>5 DEF LastWords, Answer, LeftAfter
  <2> QED
    BY <2>7, <2>8
<1> QED
  BY <1>4, <1>5, <1>6 DEF Report

\* Every step keeps the trial within its allowance until one of the two causes happens.
LEMMA StepsKeepAllowanceInv == IInv /\ AllowanceInv /\ [Next]_vars => AllowanceInv'
<1> SUFFICES ASSUME IInv, AllowanceInv, [Next]_vars PROVE AllowanceInv'
  OBVIOUS
<1>1. CASE UNCHANGED vars
  BY <1>1 DEF AllowanceInv, FreshInv, Spending, LastWords, Answer, LeftAfter, vars, request, handling,
              admission, rest, usage, control, history
<1>2. CASE Next
  <2>1. FreshInv'
    BY <1>2, FreshStays DEF IInv, AllowanceInv
  <2>2. ASSUME trial', ~disturbed'
        PROVE  Spending' /\ LastWords'
    <3>1. CASE \E r \in Requests : Quiet(r) \/ Complete(r)
      <4>1. PICK r \in Requests : Quiet(r) \/ Complete(r)
        BY <3>1
      <4>2. UNCHANGED trial
        BY <4>1, QuietHandlers DEF Complete, control
      <4>3. CASE Admit(r)
        BY <2>2, <4>2, <4>3, AdmissionsSpend
      <4>4. CASE Complete(r)
        BY <2>2, <4>2, <4>4, CompletionsSpend
      <4>5. CASE Quiet(r) /\ ~Admit(r)
        <5>1. UNCHANGED disturbed
          BY <4>5 DEF Quiet, Call, Lookup, ControlAnswers, Receive, Reject, TakeSlot, Fail, Release, Leave,
                      rest, history
        <5> QED
          BY <2>2, <4>2, <4>5, <5>1, WordsStay
      <4> QED
        BY <4>1, <4>3, <4>4, <4>5
    <3>2. CASE Subscribe
      BY <2>2, <3>2 DEF Subscribe
    <3>3. CASE \E k \in Keys : Expire(k)
      <4>1. /\ UNCHANGED <<pc, auth, fresh, rest, admission>>
            /\ \A k \in Keys : cache'[k] \in Answers => cache'[k] = cache[k]
        BY <3>3, AnswersAssumption DEF Expire, IInv, TypeOK
      <4> QED
        BY <2>2, <4>1 DEF AllowanceInv, Spending, LastWords, Answer, LeftAfter, rest, admission, usage,
                          control, history
    <3>4. CASE Report
      <4>1. UNCHANGED trial
        BY <3>4, ReportsLeaveHandlers
      <4> QED
        BY <2>2, <3>4, <4>1, ReportsSpend
    <3>5. CASE DrainBegins \/ Drain \/ DrainTimesOut
      <4>1. UNCHANGED allButPhase
        BY <3>5, DrainsChangeThePhase
      <4> QED
        BY <2>2, <4>1 DEF AllowanceInv, Spending, LastWords, Answer, LeftAfter, allButPhase, request,
                          handling, admission, usage, control, history
    <3> QED
      BY <1>2, <3>1, <3>2, <3>3, <3>4, <3>5, NextByGroups
  <2> QED
    BY <2>1, <2>2 DEF AllowanceInv
<1> QED
  BY <1>1, <1>2

\* The trial completes no more than its allowance, whatever the number of requests and
\* keys, unless a report overtakes an answer or the allowance comes out negative: admit
\* (inference.go:171) and reportUsage (inference.go:234) have no third way to overshoot.
THEOREM OvershootCauses == Spec => []OvershootHasTwoCauses
<1>1. Init => AllowanceInv
  BY BoundsAssumption, AnswersAssumption DEF Init, AllowanceInv, FreshInv, Spending, LastWords
<1>2. AllowanceInv /\ IInv => OvershootHasTwoCauses
  BY BoundsAssumption DEF AllowanceInv, Spending, OvershootHasTwoCauses, IInv, TypeOK
<1> QED
  BY <1>1, <1>2, StepsKeepAllowanceInv, Inductive, PTL DEF Spec

=============================================================================
