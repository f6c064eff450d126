------------------------------ MODULE DesktopUI ------------------------------
(***************************************************************************)
(* cmd/modeluplink-app: the window of the desktop application, for one     *)
(* connection.  Its state changes on the Fyne thread only, one callback    *)
(* after the other; every request runs in a helper process, and its answer *)
(* comes back as one more callback, in whatever order the helpers end.     *)
(* Three things can be under way at a time: one action of the owner (busy),*)
(* one refresh, and the poll of the result screen (awaitOnline).           *)
(***************************************************************************)
EXTENDS Naturals

CONSTANT MaxEvents      \* bound: changes of the connection that nobody asked for

ASSUME EventsAssumption == MaxEvents \in Nat

VARIABLES
    world,      \* the account and the connection as the helper reports them
    events,     \* changes from elsewhere so far
    running,    \* the application runs
    shown,      \* the account and the connection as the window shows them
    unavailable, \* signed in, but the connections could not be loaded
    result,     \* the address and key that are shown once: "online" or "waiting"
    busy,       \* the action whose helper runs; "connect" is u.connecting as well
    answer,     \* its answer
    loading,    \* a refresh that the owner waits for
    editing,    \* the sheet with the shared models is open
    question,   \* what a dialog asks the owner to confirm
    query,      \* the refresh
    same,       \* its revision is still that of the window
    stale,      \* it looked before the last action of the owner had its effect
    poll        \* awaitOnline

vars == <<world, events, running, shown, unavailable, result, busy, answer, loading,
          editing, question, query, same, stale, poll>>
refreshes == <<query, same, stale>>
window == <<shown, unavailable, result>>
owner == <<busy, answer, loading, editing, question>>

State == [account : BOOLEAN, listed : BOOLEAN, paused : BOOLEAN, online : BOOLEAN]
SignedOut == [account |-> FALSE, listed |-> FALSE, paused |-> FALSE, online |-> FALSE]

\* "resume" stands for share_models as well, "connect" for move_trial, "other" for
\* start_code, new_key, startup and the inspections of a local server.
Actions == {"verify", "connect", "pause", "resume", "delete", "stopAll", "signOut", "other"}

\* A helper of the action "state", and its answer.
Request == [on : BOOLEAN, got : {"nothing", "failed", "state"}, state : State]
NoRequest == [on |-> FALSE, got |-> "nothing", state |-> SignedOut]
Asking == [NoRequest EXCEPT !.on = TRUE]

NoAnswer == [got |-> "nothing", state |-> SignedOut]

TypeOK ==
    /\ {world, shown} \subseteq State
    /\ events \in 0 .. MaxEvents
    /\ {running, unavailable, loading, editing} \subseteq BOOLEAN
    /\ result \in {"none", "waiting", "online"}
    /\ busy \in Actions \cup {"none"}
    /\ answer \in [got : {"nothing", "failed", "ok", "waiting", "outage"}, state : State]
    /\ question \in {"none", "connect", "delete", "signOut", "exit"}
    /\ {query, poll} \subseteq Request
    /\ {same, stale} \subseteq BOOLEAN
    /\ loading => query.on /\ same
    /\ poll.got # "nothing" => poll.on

Working == busy # "none" \/ loading

\* main: the window asks for its state at once.
Init ==
    /\ world \in {[SignedOut EXCEPT !.account = a] : a \in BOOLEAN}
    /\ events = 0
    /\ running = TRUE
    /\ shown = SignedOut
    /\ unavailable = FALSE
    /\ result = "none"
    /\ busy = "none" /\ answer = NoAnswer
    /\ loading = TRUE
    /\ editing = FALSE
    /\ question = "none"
    /\ query = Asking /\ same = TRUE /\ stale = FALSE
    /\ poll = NoRequest

-----------------------------------------------------------------------------
(* What the window offers.                                                 *)

\* render.
Screen ==
    IF ~shown.account THEN IF loading THEN "waking" ELSE "signIn"
    ELSE IF unavailable THEN "unavailable"
    ELSE IF busy = "connect" THEN "connecting"
    ELSE IF result # "none" THEN "result"
    ELSE IF ~shown.listed THEN "setup" ELSE "connections"

\* What begins an action: the form of the sign-in, of the setup, the card of the
\* connection (a paused one can still release memory), and everywhere the menus of the
\* header and of the tray.
SignInOffers == {"verify"}
SetupOffers == {"connect"}
CardOffers == IF shown.paused THEN {"resume", "pause"} ELSE {"pause"}

Offered ==
    {"stopAll", "other"} \cup CASE Screen = "signIn"      -> SignInOffers
                                [] Screen = "setup"       -> SetupOffers
                                [] Screen = "connections" -> CardOffers
                                [] OTHER                  -> {}

\* A dialog or a sheet covers the window; the menu of the tray stays in reach.
Covered == editing \/ question # "none"

\* The confirmation dialogs.
Asked ==
    {"exit"} \cup (IF shown.account /\ ~editing THEN {"signOut"} ELSE {})
             \cup (IF Screen = "connections" /\ ~editing THEN {"delete"} ELSE {})
             \cup (IF Screen = "setup" THEN {"connect"} ELSE {})

\* Slip: the question comes up whatever is under way.
MayAskAlways == question = "none"

\* The buttons are disabled meanwhile, and the tray shows a message instead.
MayAsk == question = "none" /\ ~Working

-----------------------------------------------------------------------------
(* Answers.                                                                *)

\* apply: the screen of the result goes when its connection is gone.
ResultAfter(state) == IF state.listed THEN result ELSE "none"

Apply(state) ==
    /\ shown' = state
    /\ unavailable' = FALSE
    /\ result' = ResultAfter(state)

\* What a refresh has seen is out of date from the effect of an action on.
Age == stale' = (stale \/ query.got # "nothing")

-----------------------------------------------------------------------------
(* refresh.                                                                *)

MayRefresh == busy = "none" /\ ~query.on /\ ~editing

\* The background refresh, while somebody is signed in and no result is shown.
Tick ==
    /\ running
    /\ shown.account /\ result = "none"
    /\ MayRefresh
    /\ query' = Asking
    /\ UNCHANGED <<world, events, running, window, owner, same, stale, poll>>

\* The buttons that refresh; Done leaves the result screen first.
Refresh ==
    /\ running
    /\ ~Working /\ ~Covered
    /\ result' \in {result, "none"}
    /\ IF MayRefresh THEN query' = Asking /\ loading' = TRUE ELSE UNCHANGED <<query, loading>>
    /\ <<result, query>>' # <<result, query>>
    /\ UNCHANGED <<world, events, running, shown, unavailable, busy, answer, editing,
                   question, same, stale, poll>>

\* The helper looks: without a session, or with one that is refused, there is no
\* account to report.
Looked(q, got) ==
    [q EXCEPT !.got = got,
              !.state = IF got = "state" /\ world.account THEN world ELSE SignedOut]

Look ==
    /\ query.on /\ query.got = "nothing"
    /\ \E got \in {"failed", "state"} : query' = Looked(query, got)
    /\ UNCHANGED <<world, events, running, window, owner, same, stale, poll>>

\* Slip: an action that began and ended meanwhile does not matter.
CurrentIfIdle == busy = "none"

Current == same /\ busy = "none"

\* Slip: the refresh counts as under way until its answer is applied.
EndWhenCurrent ==
    /\ query' = IF Current THEN NoRequest ELSE [query EXCEPT !.got = "nothing"]
    /\ UNCHANGED <<same, stale>>

EndQuery == query' = NoRequest /\ same' = TRUE /\ stale' = FALSE

Refreshed ==
    /\ query.got # "nothing"
    /\ EndQuery
    /\ IF Current /\ query.got = "state" THEN Apply(query.state) ELSE UNCHANGED window
    /\ loading' = (loading /\ ~Current)
    /\ UNCHANGED <<world, events, running, busy, answer, editing, question, poll>>

-----------------------------------------------------------------------------
(* The actions of the owner: begin, the helper, and its answer.            *)

\* Slip: only another action is in the way.
MayBeginUnlessBusy == busy = "none"

MayBegin == ~Working

\* begin: whatever a refresh that is under way will bring is out of date.
Start(action) ==
    /\ MayBegin
    /\ busy' = action
    /\ same' = ~query.on
    /\ result' = IF action = "connect" THEN "none" ELSE result

Begin ==
    /\ running
    /\ \E action \in (IF Covered THEN {"stopAll"} ELSE Offered) : Start(action)
    /\ UNCHANGED <<world, events, running, shown, unavailable, answer, loading, editing,
                   question, query, stale, poll>>

\* Remove, Sign out, Exit and the move of a trial ask first; meanwhile everything else
\* goes on.
Question ==
    /\ running
    /\ MayAsk
    /\ question' \in Asked
    /\ UNCHANGED <<world, events, running, window, busy, answer, loading, editing,
                   refreshes, poll>>

Confirm ==
    /\ running
    /\ question \in {"connect", "delete", "signOut"}
    /\ question' = "none"
    /\ Start(question) \/ (~MayBegin /\ UNCHANGED <<busy, same, result>>)
    /\ UNCHANGED <<world, events, running, shown, unavailable, answer, loading, editing,
                   query, stale, poll>>

Decline ==
    /\ question # "none"
    /\ question' = "none"
    /\ UNCHANGED <<world, events, running, window, busy, answer, loading, editing,
                   refreshes, poll>>

\* The sheet with the shared models.  Saving hides it, and is lost while an action
\* that was begun from the tray is under way.
EditSharing ==
    /\ running
    /\ Screen = "connections"
    /\ ~Working /\ ~Covered
    /\ editing' = TRUE
    /\ UNCHANGED <<world, events, running, window, busy, answer, loading, question,
                   refreshes, poll>>

CloseSheet ==
    /\ editing /\ question = "none"
    /\ editing' = FALSE
    /\ \/ Start("resume")
       \/ UNCHANGED <<busy, same, result>>
    /\ UNCHANGED <<world, events, running, shown, unavailable, answer, loading, question,
                   query, stale, poll>>

\* What the helper leaves behind when it does what it was asked.
Effect(ready) ==
    CASE busy = "verify"               -> [world EXCEPT !.account = TRUE]
      [] busy = "signOut"              -> [world EXCEPT !.account = FALSE]
      [] busy = "connect"              -> [account |-> TRUE, listed |-> TRUE,
                                           paused |-> FALSE, online |-> ready]
      [] busy \in {"pause", "stopAll"} -> [world EXCEPT !.paused = world.listed]
      [] busy = "resume"               -> [world EXCEPT !.paused = FALSE]
      [] busy = "delete"               -> [SignedOut EXCEPT !.account = world.account]
      [] OTHER                         -> world

\* What it needs: connect a session and no connection, others the connection.
Possible ==
    CASE busy = "connect"                       -> world.account /\ ~world.listed
      [] busy \in {"pause", "resume", "delete"} -> world.listed
      [] OTHER                                  -> TRUE

\* The helper ends.  One that fails, or that the application kills because its time
\* is over, has done it or not.
Help ==
    /\ busy # "none" /\ answer.got = "nothing"
    /\ \/ /\ Possible
          /\ \E ready \in BOOLEAN, ok \in BOOLEAN :
                 /\ ready => busy = "connect"
                 /\ world' = Effect(ready)
                 /\ answer' = [got   |-> IF ~ok THEN "failed"
                                         ELSE IF busy = "connect" /\ ~ready THEN "waiting" ELSE "ok",
                               state |-> IF busy = "verify" /\ ok THEN world' ELSE SignedOut]
          /\ Age
       \/ /\ answer' = [NoAnswer EXCEPT !.got = "failed"]
          /\ UNCHANGED <<world, stale>>
       \/ /\ busy = "verify"        \* signed in, and then the state fails
          /\ world' = Effect(FALSE)
          /\ answer' = [NoAnswer EXCEPT !.got = "outage"]
          /\ Age
    /\ UNCHANGED <<events, running, window, busy, loading, editing, question, query, same, poll>>

\* The window after each action that succeeded.
AfterVerify == Apply(answer.state)

AfterConnect ==
    /\ shown' = [account |-> shown.account, listed |-> TRUE, paused |-> FALSE,
                 online |-> answer.got = "ok"]
    /\ result' = IF answer.got = "ok" THEN "online" ELSE "waiting"
    /\ UNCHANGED unavailable

AfterSignOut == shown' = SignedOut /\ result' = "none" /\ unavailable' = FALSE

AfterStopAll ==
    shown' = [shown EXCEPT !.paused = shown.listed] /\ UNCHANGED <<result, unavailable>>

AfterAct ==
    /\ shown' = CASE busy = "pause"   -> [shown EXCEPT !.paused = TRUE]
                  [] busy = "resume"  -> [shown EXCEPT !.paused = FALSE]
                  [] busy = "delete"  -> [SignedOut EXCEPT !.account = shown.account]
                  [] OTHER            -> shown
    /\ UNCHANGED <<result, unavailable>>

Answered ==
    \/ answer.got = "failed" /\ UNCHANGED window
    \/ /\ answer.got = "outage"
       /\ shown' = [SignedOut EXCEPT !.account = TRUE]
       /\ unavailable' = TRUE
       /\ UNCHANGED result
    \/ /\ answer.got \notin {"failed", "outage"}
       /\ CASE busy = "verify"  -> AfterVerify
            [] busy = "connect" -> AfterConnect
            [] busy = "signOut" -> AfterSignOut
            [] busy = "stopAll" -> AfterStopAll
            [] OTHER            -> AfterAct

\* finish.  A connection that is not online yet is polled, in place of an earlier
\* one, which has not got its slug; stopAll refreshes.
Finish ==
    /\ answer.got # "nothing"
    /\ busy' = "none" /\ answer' = NoAnswer
    /\ Answered
    /\ poll' = IF busy = "connect" /\ answer.got # "failed"
               THEN [NoRequest EXCEPT !.on = answer.got = "waiting"] ELSE poll
    /\ query' = IF busy = "stopAll" /\ ~query.on /\ ~editing THEN Asking ELSE query
    /\ UNCHANGED <<world, events, running, loading, editing, question, same, stale>>

-----------------------------------------------------------------------------
(* awaitOnline.                                                            *)

\* The timer: the poll ends when the result is not shown any more, or is online.
PollLooks ==
    /\ poll.on /\ poll.got = "nothing"
    /\ poll' \in IF result = "waiting" THEN {Looked(poll, "state"), Looked(poll, "failed")}
                 ELSE {NoRequest}
    /\ UNCHANGED <<world, events, running, window, owner, refreshes>>

\* Its answer is applied as long as the result is shown.
Polled ==
    /\ poll.got # "nothing"
    /\ IF poll.got = "failed"
       THEN poll' = [NoRequest EXCEPT !.on = TRUE] /\ UNCHANGED window
       ELSE IF result = "none"
       THEN poll' = NoRequest /\ UNCHANGED window
       ELSE LET online == poll.state.listed /\ poll.state.online IN
            /\ shown' = poll.state
            /\ unavailable' = FALSE
            /\ result' = IF online THEN "online" ELSE ResultAfter(poll.state)
            /\ poll' = [NoRequest EXCEPT !.on = ~online]
    /\ UNCHANGED <<world, events, running, owner, refreshes>>

-----------------------------------------------------------------------------
(* The application ends and is opened again.                               *)

\* What is under way is cancelled, and its helper killed.
Quit ==
    /\ running' = FALSE
    /\ world' \in IF busy # "none" /\ answer.got = "nothing" /\ Possible
                  THEN {world, Effect(FALSE)} ELSE {world}
    /\ shown' = SignedOut
    /\ unavailable' = FALSE
    /\ result' = "none"
    /\ busy' = "none" /\ answer' = NoAnswer
    /\ loading' = FALSE /\ editing' = FALSE /\ question' = "none"
    /\ EndQuery /\ poll' = NoRequest
    /\ UNCHANGED events

CloseWindow == running /\ ~Working /\ Quit

\* The tray asks before it exits, and looks at u.working() before it asks.
ExitConfirmed == question = "exit" /\ Quit

Open ==
    /\ ~running
    /\ running' = TRUE
    /\ loading' = TRUE
    /\ query' = Asking
    /\ UNCHANGED <<world, events, window, busy, answer, editing, question, same, stale, poll>>

\* The agent connects, or not; the dashboard removes the connection or ends the
\* session; the agent is revoked.
Elsewhere ==
    /\ events < MaxEvents
    /\ events' = events + 1
    /\ world' \in {[world EXCEPT !.account = FALSE],
                   [SignedOut EXCEPT !.account = world.account]}
              \cup (IF world.listed THEN {[world EXCEPT !.online = ~@], [world EXCEPT !.paused = TRUE]}
                    ELSE {})
    /\ world' # world
    /\ UNCHANGED <<running, window, owner, refreshes, poll>>

Next ==
    \/ Tick \/ Refresh \/ Look \/ Refreshed
    \/ Begin \/ Question \/ Confirm \/ Decline \/ EditSharing \/ CloseSheet
    \/ Help \/ Finish
    \/ PollLooks \/ Polled
    \/ CloseWindow \/ ExitConfirmed \/ Open
    \/ Elsewhere

Spec == Init /\ [][Next]_vars

\* A helper ends, at the latest when its time is over (90 seconds, 30 minutes for a
\* connect), and its answer reaches the window; the ticker ticks; and the state that
\* is asked for again and again is got some time.
Fairness ==
    /\ WF_vars(Help) /\ WF_vars(Finish)
    /\ WF_vars(Look) /\ WF_vars(Refreshed)
    /\ WF_vars(Tick)
    /\ SF_vars(Look /\ query'.got = "state")

FairSpec == Spec /\ Fairness

-----------------------------------------------------------------------------
(* Properties.                                                             *)

\* A refresh whose helper looked before the last action of the owner had its effect
\* leaves the window as it is: it neither undoes what the action showed (a
\* connection that is stopped, or removed) nor takes away the address and key of a
\* connection that it does not know yet (ui.go refresh, begin).  The poll of the
\* result screen tests no revision, and may show a stop as undone.
OldAnswersAreIgnored ==
    [][Refreshed /\ stale => UNCHANGED window]_vars

\* When the application ends while the helper of an action runs, that helper is
\* killed.  Only a stop that was begun from the tray over the question whether to
\* exit can meet that: never a connect, whose key would be lost (main.go, desktop.go).
ExitKillsOnlyAStop ==
    [][running /\ ~running' /\ busy # "none" => busy = "stopAll"]_vars

\* What desktop.go:32 tells the owner who exits during an action, "Please let this
\* step finish before exiting": no helper of an action is killed.
ExitWaits == [][running /\ ~running' => busy = "none"]_vars

\* Every action and every refresh the owner waits for comes to its end: the buttons
\* they disable are enabled again (ui.go begin, finish, refresh).
WorkEnds == Working ~> ~Working

\* The connection looks in the window as it is.
Agrees ==
    /\ shown.account = world.account
    /\ world.account => shown.listed = world.listed
    /\ world.account /\ world.listed
           => shown.paused = world.paused /\ shown.online = world.online

\* Whoever is signed in sees the connection as it is again and again, but for the
\* times of an action, of the sheet and of the result screen: no order of actions and
\* answers stops the background refresh (ui.go refresh, startBackgroundRefresh).
ScreenCatchesUp ==
    []<>(~running \/ ~shown.account \/ result # "none" \/ busy # "none" \/ editing
            \/ Agrees)
=============================================================================
