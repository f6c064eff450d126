--------------------------- MODULE DesktopUIProofs ---------------------------
(***************************************************************************)
(* Proofs about DesktopUI, however often the connection changes elsewhere. *)
(***************************************************************************)
EXTENDS DesktopUI, TLAPS

-----------------------------------------------------------------------------
(* The inductive invariant, in parts.                                      *)

\* A refresh that is under way while an action is, or that looked before its effect, has
\* lost the revision; a new one has it.
RefreshInv ==
    /\ query.got # "nothing" => query.on
    /\ ~query.on => same
    /\ busy # "none" /\ query.on => ~same
    /\ stale => query.on /\ ~same

\* The owner waits for one thing at a time, and over the question whether to exit no
\* action begins but a stop.
OwnerInv ==
    /\ loading => busy = "none"
    /\ question = "exit" => busy \in {"none", "stopAll"}

\* Nothing is under way when the application does not run.
StoppedInv ==
    ~running => /\ busy = "none" /\ answer = NoAnswer
                /\ ~loading /\ ~editing /\ question = "none"
                /\ query = NoRequest /\ poll = NoRequest

IInv == TypeOK /\ RefreshInv /\ OwnerInv /\ StoppedInv

-----------------------------------------------------------------------------
(* The records.                                                            *)

\* The records that the window's requests and answers are made of.
LEMMA Records ==
    /\ SignedOut \in State /\ NoRequest \in Request /\ Asking \in Request
    /\ ~NoRequest.on /\ NoRequest.got = "nothing"
    /\ Asking.on /\ Asking.got = "nothing"
    /\ NoAnswer \in [got : {"nothing", "failed", "ok", "waiting", "outage"}, state : State]
    /\ NoAnswer.got = "nothing"
  BY DEF SignedOut, State, NoRequest, Request, Asking, NoAnswer

\* A request that has looked is a request.
LEMMA LookedFacts ==
    ASSUME world \in State, NEW q \in Request, NEW got \in {"failed", "state"}
    PROVE  Looked(q, got) \in Request /\ Looked(q, got).on = q.on /\ Looked(q, got).got = got
  BY Records DEF Looked, Request

\* A helper's effect leads from a state of the world to another.
LEMMA EffectFacts ==
    ASSUME world \in State, NEW ready \in BOOLEAN
    PROVE  Effect(ready) \in State
  BY Records DEF Effect, State

-----------------------------------------------------------------------------
(* The refresh, the poll and the dialogs.                                  *)

\* The refresh keeps the invariant.
LEMMA RefreshSteps ==
    ASSUME IInv, Tick \/ Refresh \/ Look \/ Refreshed
    PROVE  IInv'
<1>1. CASE Tick
  BY <1>1, Records DEF Tick, MayRefresh, window, owner, IInv, TypeOK, RefreshInv, OwnerInv, StoppedInv
<1>2. CASE Refresh
  BY <1>2, Records DEF Refresh, MayRefresh, Working, IInv, TypeOK, RefreshInv, OwnerInv, StoppedInv
<1>3. CASE Look
  <2>1. PICK got \in {"failed", "state"} : query' = Looked(query, got)
    BY <1>3 DEF Look
  <2>2. query' \in Request /\ query'.on = query.on
    BY <2>1, LookedFacts DEF IInv, TypeOK
  <2> QED
    BY <1>3, <2>2, Records DEF Look, window, owner, IInv, TypeOK, RefreshInv, OwnerInv, StoppedInv
<1>4. CASE Refreshed
  <2>1. shown' \in State /\ unavailable' \in BOOLEAN /\ result' \in {"none", "waiting", "online"}
    BY <1>4 DEF Refreshed, Apply, ResultAfter, window, IInv, TypeOK, Request
  <2> QED
    BY <1>4, <2>1, Records DEF Refreshed, EndQuery, Current, IInv, TypeOK, RefreshInv, OwnerInv, StoppedInv
<1> QED
  BY <1>1, <1>2, <1>3, <1>4

\* begin, whatever it is begun from.
LEMMA StartFacts ==
    ASSUME IInv, NEW action \in Actions, Start(action), UNCHANGED <<query, stale, loading, poll>>
    PROVE  /\ busy = "none" /\ ~loading /\ busy' = action
           /\ same' \in BOOLEAN /\ result' \in {"none", "waiting", "online"}
           /\ RefreshInv'
  BY DEF Start, MayBegin, Working, IInv, TypeOK, RefreshInv

\* What the owner does keeps it: an action begins only while none is under way.
LEMMA OwnerSteps ==
    ASSUME IInv, Begin \/ Question \/ Confirm \/ Decline \/ EditSharing \/ CloseSheet
    PROVE  IInv'
<1>1. CASE Begin
  <2>1. PICK action \in Actions : Start(action) /\ (Covered => action = "stopAll")
    BY <1>1 DEF Begin, Offered, SignInOffers, SetupOffers, CardOffers, Actions
  <2>2. /\ busy = "none" /\ ~loading /\ busy' = action
        /\ same' \in BOOLEAN /\ result' \in {"none", "waiting", "online"}
        /\ RefreshInv'
    BY <1>1, <2>1, StartFacts DEF Begin
  <2> QED
    BY <1>1, <2>1, <2>2 DEF Begin, Covered, IInv, TypeOK, OwnerInv, StoppedInv
<1>2. CASE Question
  BY <1>2 DEF Question, MayAsk, Working, Asked, window, refreshes, IInv, TypeOK, RefreshInv, OwnerInv, StoppedInv
<1>3. CASE Confirm
  <2>1. CASE Start(question)
    <3>1. /\ busy = "none" /\ ~loading /\ busy' = question
          /\ same' \in BOOLEAN /\ result' \in {"none", "waiting", "online"}
          /\ RefreshInv'
      BY <1>3, <2>1, StartFacts DEF Confirm, Actions
    <3> QED
      BY <1>3, <2>1, <3>1 DEF Confirm, Actions, IInv, TypeOK, OwnerInv, StoppedInv
  <2>2. CASE UNCHANGED <<busy, same, result>>
    BY <1>3, <2>2 DEF Confirm, IInv, TypeOK, RefreshInv, OwnerInv, StoppedInv
  <2> QED
    BY <1>3, <2>1, <2>2 DEF Confirm
<1>4. CASE Decline
  BY <1>4 DEF Decline, window, refreshes, IInv, TypeOK, RefreshInv, OwnerInv, StoppedInv
<1>5. CASE EditSharing
  BY <1>5 DEF EditSharing, window, refreshes, IInv, TypeOK, RefreshInv, OwnerInv, StoppedInv
<1>6. CASE CloseSheet
  <2>1. CASE Start("resume")
    <3>1. /\ busy = "none" /\ ~loading /\ busy' = "resume"
          /\ same' \in BOOLEAN /\ result' \in {"none", "waiting", "online"}
          /\ RefreshInv'
      BY <1>6, <2>1, StartFacts DEF CloseSheet, Actions
    <3> QED
      BY <1>6, <3>1 DEF CloseSheet, Actions, IInv, TypeOK, OwnerInv, StoppedInv
  <2>2. CASE UNCHANGED <<busy, same, result>>
    BY <1>6, <2>2 DEF CloseSheet, IInv, TypeOK, RefreshInv, OwnerInv, StoppedInv
  <2> QED
    BY <1>6, <2>1, <2>2 DEF CloseSheet
<1> QED
  BY <1>1, <1>2, <1>3, <1>4, <1>5, <1>6

\* The end of a helper and of its answer keep it.
LEMMA HelperSteps ==
    ASSUME IInv, Help \/ Finish
    PROVE  IInv'
<1>1. CASE Help
  <2>1. /\ world' \in State
        /\ answer' \in [got : {"nothing", "failed", "ok", "waiting", "outage"}, state : State]
    <3>1. world' \in State
      BY <1>1, EffectFacts DEF Help, IInv, TypeOK
    <3>2. CASE \E ready \in BOOLEAN, ok \in BOOLEAN :
                  answer' = [got   |-> IF ~ok THEN "failed"
                                       ELSE IF busy = "connect" /\ ~ready THEN "waiting" ELSE "ok",
                             state |-> IF busy = "verify" /\ ok THEN world' ELSE SignedOut]
      BY <3>1, <3>2, Records
    <3>3. CASE \E got \in {"failed", "outage"} : answer' = [NoAnswer EXCEPT !.got = got]
      <4>1. PICK got \in {"failed", "outage"} : answer' = [got |-> got, state |-> SignedOut]
        BY <3>3 DEF NoAnswer
      <4> QED
        BY <3>1, <4>1, Records
    <3> QED
      BY <1>1, <3>1, <3>2, <3>3 DEF Help
  <2>2. stale' \in BOOLEAN /\ (stale' => stale \/ query.got # "nothing")
    <3>1. stale \in BOOLEAN /\ (Age \/ UNCHANGED stale)
      BY <1>1 DEF Help, IInv, TypeOK
    <3>2. CASE Age /\ query.got # "nothing"
      BY <3>2 DEF Age
    <3>3. CASE Age /\ query.got = "nothing"
      BY <3>1, <3>3 DEF Age
    <3> QED
      BY <3>1, <3>2, <3>3
  <2>3. busy # "none" /\ UNCHANGED <<events, running, window, busy, loading, editing, question, query, same, poll>>
    BY <1>1 DEF Help
  <2> QED
    BY <2>1, <2>2, <2>3 DEF window, IInv, TypeOK, RefreshInv, OwnerInv, StoppedInv
<1>2. CASE Finish
  <2>1. shown' \in State /\ unavailable' \in BOOLEAN /\ result' \in {"none", "waiting", "online"}
    <3>1. CASE AfterVerify \/ AfterSignOut
      <4>1. answer.state \in State /\ SignedOut \in State
        BY Records DEF IInv, TypeOK
      <4>2. result \in {"none", "waiting", "online"}
        BY DEF IInv, TypeOK
      <4> QED
        BY <3>1, <4>1, <4>2 DEF AfterVerify, AfterSignOut, Apply, ResultAfter
    <3>2. CASE AfterConnect
      BY <3>2 DEF AfterConnect, IInv, TypeOK, State
    <3>3. CASE AfterStopAll
      BY <3>3 DEF AfterStopAll, IInv, TypeOK, State
    <3>4. CASE AfterAct
      BY <3>4, Records DEF AfterAct, IInv, TypeOK, State
    <3>5. CASE UNCHANGED window
      BY <3>5 DEF window, IInv, TypeOK
    <3>6. CASE shown' = [SignedOut EXCEPT !.account = TRUE] /\ unavailable' = TRUE /\ UNCHANGED result
      BY <3>6, Records DEF IInv, TypeOK, State
    <3> QED
      BY <1>2, <3>1, <3>2, <3>3, <3>4, <3>5, <3>6 DEF Finish, Answered
  <2>2. /\ poll' \in Request /\ (poll'.got # "nothing" => poll'.on)
        /\ query' \in Request /\ (query' = query \/ (~query.on /\ query' = Asking))
    BY <1>2, Records DEF Finish, IInv, TypeOK, NoRequest, Request
  <2> QED
    BY <1>2, <2>1, <2>2, Records DEF Finish, IInv, TypeOK, RefreshInv, OwnerInv, StoppedInv
<1> QED
  BY <1>1, <1>2

\* The poll of the result screen keeps it.
LEMMA PollSteps ==
    ASSUME IInv, PollLooks \/ Polled
    PROVE  IInv'
<1>1. /\ UNCHANGED <<world, events, running, owner, refreshes>> /\ poll.on
  BY DEF PollLooks, Polled, IInv, TypeOK
<1>2. poll' \in Request /\ (poll'.got # "nothing" => poll'.on)
  <2>1. CASE PollLooks
    BY <2>1, Records, LookedFacts DEF PollLooks, IInv, TypeOK
  <2>2. CASE Polled
    <3>1. \A on \in BOOLEAN : /\ [NoRequest EXCEPT !.on = on] \in Request
                            /\ [NoRequest EXCEPT !.on = on].got = "nothing"
      BY Records DEF NoRequest, Request
    <3>2. poll.state.listed \in BOOLEAN /\ poll.state.online \in BOOLEAN
      BY DEF IInv, TypeOK, Request, State
    <3> QED
      BY <2>2, <3>1, <3>2, Records DEF Polled
  <2> QED
    BY <2>1, <2>2
<1>3. shown' \in State /\ unavailable' \in BOOLEAN /\ result' \in {"none", "waiting", "online"}
  BY DEF PollLooks, Polled, ResultAfter, window, IInv, TypeOK, Request
<1> QED
  BY <1>1, <1>2, <1>3, Records DEF owner, refreshes, IInv, TypeOK, RefreshInv, OwnerInv, StoppedInv

\* The end of the application, its next start, and changes from elsewhere keep it.
LEMMA ApplicationSteps ==
    ASSUME IInv, CloseWindow \/ ExitConfirmed \/ Open \/ Elsewhere
    PROVE  IInv'
<1>1. CASE Quit
  <2>1. world' \in State
    BY <1>1, EffectFacts DEF Quit, IInv, TypeOK
  <2> QED
    BY <1>1, <2>1, Records DEF Quit, EndQuery, IInv, TypeOK, RefreshInv, OwnerInv, StoppedInv
<1>2. CASE Open
  BY <1>2, Records DEF Open, window, IInv, TypeOK, RefreshInv, OwnerInv, StoppedInv
<1>3. CASE Elsewhere
  <2>1. world' \in State /\ events' \in 0 .. MaxEvents
    <3>1. /\ world \in State /\ events' \in 0 .. MaxEvents
          /\ \/ world' = [world EXCEPT !.account = FALSE]
             \/ world' = [SignedOut EXCEPT !.account = world.account]
             \/ world' = [world EXCEPT !.online = ~@]
             \/ world' = [world EXCEPT !.paused = TRUE]
      BY <1>3, EventsAssumption DEF Elsewhere, IInv, TypeOK
    <3> QED
      BY <3>1, Records DEF State
  <2> QED
    BY <1>3, <2>1 DEF Elsewhere, window, owner, refreshes, IInv, TypeOK, RefreshInv, OwnerInv, StoppedInv
<1> QED
  BY <1>1, <1>2, <1>3 DEF CloseWindow, ExitConfirmed

-----------------------------------------------------------------------------
(* The theorems.                                                           *)

\* A window that has just opened.
LEMMA InitIInv == Init => IInv
<1> SUFFICES ASSUME Init PROVE IInv
  OBVIOUS
<1>1. world \in State /\ shown \in State /\ events \in 0 .. MaxEvents
  BY Records, EventsAssumption DEF Init, State
<1> QED
  BY <1>1, Records DEF Init, IInv, TypeOK, RefreshInv, OwnerInv, StoppedInv

\* Every step keeps the invariant.
LEMMA NextKeepsIInv ==
    ASSUME IInv, [Next]_vars
    PROVE  IInv'
<1>1. CASE UNCHANGED vars
  BY <1>1 DEF vars, window, owner, refreshes, IInv, TypeOK, RefreshInv, OwnerInv, StoppedInv
<1> QED
  BY <1>1, RefreshSteps, OwnerSteps, HelperSteps, PollSteps, ApplicationSteps DEF Next

\* The inductive invariant: whatever is under way keeps the revision, the buttons and the
\* questions in step with it.
THEOREM Inductive == Spec => []IInv
  BY InitIInv, NextKeepsIInv, PTL DEF Spec

\* TypeOK, however many events there are.
THEOREM TypeCorrect == Spec => []TypeOK
  BY Inductive, PTL DEF IInv

\* A refresh that looked before the effect of the last action does not reach the window:
\* the revision and busy turn it away, in whatever order helpers and answers come.
THEOREM OldAnswersIgnored == Spec => OldAnswersAreIgnored
<1>1. ASSUME IInv, [Next]_vars, Refreshed, stale
      PROVE  UNCHANGED window
  BY <1>1 DEF Refreshed, Current, IInv, RefreshInv
<1> QED
  BY <1>1, Inductive, PTL DEF Spec, OldAnswersAreIgnored

\* The application ends under no action but a stop that was begun from the tray over the
\* question whether to exit.
THEOREM ExitKills == Spec => ExitKillsOnlyAStop
<1>1. ASSUME IInv, [Next]_vars, running, ~running', busy # "none"
      PROVE  busy = "stopAll"
  <2>1. CASE CloseWindow
    BY <1>1, <2>1 DEF CloseWindow, Working
  <2>2. CASE ExitConfirmed
    BY <1>1, <2>2 DEF ExitConfirmed, IInv, OwnerInv
  <2>3. CASE Next /\ ~CloseWindow /\ ~ExitConfirmed
    BY <1>1, <2>3 DEF Next, Tick, Refresh, Look, Refreshed, Begin, Question, Confirm, Decline,
                      EditSharing, CloseSheet, Help, Finish, PollLooks, Polled, Open, Elsewhere
  <2> QED
    BY <1>1, <2>1, <2>2, <2>3 DEF vars
<1> QED
  BY <1>1, Inductive, PTL DEF Spec, ExitKillsOnlyAStop

=============================================================================
