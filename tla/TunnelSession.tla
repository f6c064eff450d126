--------------------------- MODULE TunnelSession ---------------------------
(***************************************************************************)
(* The agent's tunnel: Runner.Run, runOnce and cancelAll in                *)
(* pkg/agent/agent.go, and the client streams multiplexed over one relay   *)
(* connection, startRaw, serveRaw, writeRaw and endRaw in                  *)
(* pkg/agent/opaque.go.                                                    *)
(*                                                                         *)
(* One goroutine reads the relay's frames; each accepted stream has a      *)
(* goroutine of its own, a server here, which ends by closing the stream,  *)
(* taking it off s.raw and writing END, in three steps that the frames of  *)
(* the relay and the end of the session may come between.  Nobody waits    *)
(* for a server: it may outlive its session.  Streams are byte-accurate in *)
(* FrameConn and requests in LocalInference; here a stream is open or      *)
(* closed.                                                                 *)
(***************************************************************************)
EXTENDS Naturals, Sequences

CONSTANTS
    StreamIds,          \* stream identifiers the relay uses
    Servers,            \* bound: serveRaw goroutines at one time
    none,               \* no server
    initialBackoff, maxBackoff,
    MaxFrames           \* bound: frames in flight to the agent

ASSUME TunnelAssumption ==
    /\ none \notin Servers
    /\ initialBackoff \in Nat \ {0}
    /\ maxBackoff \in Nat
    /\ initialBackoff <= maxBackoff
    /\ MaxFrames \in Nat

VARIABLES
    runner,     \* where Run and runOnce are
    stopping,   \* ctx is cancelled: Stop, sign-out, or the service manager
    socket,     \* the WebSocket; "lost" is closed by the network, silent for
                \* 30 s or failing a write, "revoked" has code 4001 on its way,
                \* "closed" is closed by the agent because ctx is cancelled
    inbox,      \* frames on their way to the agent
    raw,        \* s.raw: the server that the frames of a stream are given to
    server,     \* where each serveRaw is
    id,         \* the stream a serveRaw serves
    open,       \* servers whose conn.done is not closed
    earlier,    \* servers of the sessions before this one
    revoked,    \* err is CloseEndpointRevoked
    registered, \* what runOnce returned
    backoff     \* b.current

serving == <<server, id, open, earlier>>
result == <<revoked, registered>>
vars == <<runner, stopping, socket, inbox, raw, serving, result, backoff>>

\* A frame that ends the session: a head that is not opaque TLS, or a type the
\* agent does not know.
Frames == [kind : {"head", "data", "end"}, stream : StreamIds]
          \cup [kind : {"other", "unexpected"}]

TypeOK ==
    /\ runner \in {"dialing", "registering", "serving", "leaving", "draining",
                   "deciding", "waiting", "stopped", "revoked"}
    /\ stopping \in BOOLEAN
    /\ socket \in {"none", "open", "lost", "revoked", "closed"}
    /\ inbox \in Seq(Frames)
    /\ raw \in [StreamIds -> Servers \cup {none}]
    /\ server \in [Servers -> {"none", "handshake", "serving", "finishing",
                               "closed", "unlisted"}]
    /\ id \in [Servers -> StreamIds \cup {none}]
    /\ open \subseteq Servers
    /\ earlier \subseteq Servers
    /\ revoked \in BOOLEAN
    /\ registered \in BOOLEAN
    /\ backoff \in 0..maxBackoff

Unlisted == [i \in StreamIds |-> none]

Init ==
    /\ runner = "dialing"
    /\ stopping = FALSE
    /\ socket = "none"
    /\ inbox = <<>>
    /\ raw = Unlisted
    /\ server = [x \in Servers |-> "none"]
    /\ id = [x \in Servers |-> none]
    /\ open = {} /\ earlier = {}
    /\ revoked = FALSE /\ registered = FALSE
    /\ backoff = 0

-----------------------------------------------------------------------------
(* The relay, the network and the owner.                                   *)

\* The relay may open a stream again, and send to one that is over.
RelaySends ==
    /\ socket = "open"
    /\ runner = "serving"
    /\ Len(inbox) < MaxFrames
    /\ \E frame \in Frames : inbox' = Append(inbox, frame)
    /\ UNCHANGED <<runner, stopping, socket, raw, serving, result, backoff>>

\* The close frame of a revocation may be lost with its connection.
ConnectionBreaks ==
    /\ \/ socket = "open" /\ socket' \in {"lost", "revoked"}
       \/ socket = "revoked" /\ socket' = "lost"
    /\ UNCHANGED <<runner, stopping, inbox, raw, serving, result, backoff>>

Stop ==
    /\ ~stopping
    /\ stopping' = TRUE
    /\ UNCHANGED <<runner, socket, inbox, raw, serving, result, backoff>>

-----------------------------------------------------------------------------
(* runOnce.                                                                *)

\* Leave runOnce, with a session to take down ("leaving") or without.
ReturnTo(place, accepted) ==
    /\ runner' = place
    /\ registered' = accepted
    /\ revoked' = (socket = "revoked")

\* DialContext fails when ctx is cancelled.
Dial ==
    /\ runner = "dialing"
    /\ \/ /\ ~stopping
          /\ runner' = "registering"
          /\ socket' = "open"
       \/ /\ runner' = "deciding"
          /\ UNCHANGED socket
    /\ registered' = FALSE
    /\ revoked' = FALSE
    /\ UNCHANGED <<stopping, inbox, raw, serving, backoff>>

(* REGISTER and its answer.  The connection fails, the relay rejects the   *)
(* endpoint, there is no TLS configuration, or a session begins: its map   *)
(* of streams is new, and servers still at work belong to an earlier one.  *)
Register ==
    /\ runner = "registering"
    /\ \/ /\ ReturnTo("deciding", FALSE)
          /\ UNCHANGED <<raw, earlier>>
       \/ /\ socket = "open"
          /\ ReturnTo("deciding", TRUE)
          /\ UNCHANGED <<raw, earlier>>
       \/ /\ socket = "open"
          /\ runner' = "serving"
          /\ raw' = Unlisted
          /\ earlier' = {x \in Servers : server[x] # "none"}
          /\ UNCHANGED result
    /\ UNCHANGED <<stopping, socket, inbox, server, id, open, backoff>>

\* Slip: only the wait for the registration is interrupted.
InterruptibleBefore == runner = "registering"

Interruptible == runner \in {"registering", "serving"}

\* context.AfterFunc closes an established connection; a Read blocked in it
\* returns.
Interrupt ==
    /\ stopping
    /\ Interruptible
    /\ socket # "closed"
    /\ socket' = "closed"
    /\ UNCHANGED <<runner, stopping, inbox, raw, serving, result, backoff>>

\* Frames that arrived before the relay's close frame are read before it.
ReadFails ==
    /\ runner = "serving"
    /\ socket # "open"
    /\ socket = "revoked" => inbox = <<>>
    /\ ReturnTo("leaving", TRUE)
    /\ UNCHANGED <<stopping, socket, inbox, raw, serving, backoff>>

ReadFrame(kind) ==
    /\ runner = "serving"
    /\ socket # "closed"
    /\ inbox # <<>>
    /\ Head(inbox).kind = kind
    /\ inbox' = Tail(inbox)

Accepts(i) == raw[i] = none

\* startRaw.  A head for another host is answered with ERROR, and one for a
\* stream that exists is ignored; an accepted one gets a server.
StartRaw ==
    /\ ReadFrame("head")
    /\ LET i == Head(inbox).stream IN
       \/ UNCHANGED <<raw, serving>>
       \/ \E x \in Servers :
             /\ Accepts(i)
             /\ server[x] = "none"
             /\ raw' = [raw EXCEPT ![i] = x]
             /\ server' = [server EXCEPT ![x] = "handshake"]
             /\ id' = [id EXCEPT ![x] = i]
             /\ open' = open \cup {x}
             /\ UNCHANGED earlier
    /\ UNCHANGED <<runner, stopping, socket, result, backoff>>

\* writeRaw: DATA is fed to an open stream, which FrameConn is about, and an
\* overflow there closes it; DATA for an unknown stream is ignored.
WriteRaw ==
    /\ ReadFrame("data")
    /\ open' \in {open, open \ {raw[Head(inbox).stream]}}
    /\ UNCHANGED <<runner, stopping, socket, raw, server, id, earlier, result, backoff>>

\* endRaw: END or CANCEL closes a stream, and is ignored for an unknown one.
EndRaw ==
    /\ ReadFrame("end")
    /\ open' = open \ {raw[Head(inbox).stream]}
    /\ UNCHANGED <<runner, stopping, socket, raw, server, id, earlier, result, backoff>>

\* PING, which is answered, and PONG.
OtherFrame ==
    /\ ReadFrame("other")
    /\ UNCHANGED <<runner, stopping, socket, raw, serving, result, backoff>>

Unexpected ==
    /\ ReadFrame("unexpected")
    /\ ReturnTo("leaving", TRUE)
    /\ revoked' = FALSE
    /\ UNCHANGED <<stopping, socket, raw, serving, backoff>>

Cancelled == {raw[i] : i \in StreamIds} \ {none}

(* cancelAll.                                                              *)
CancelAll ==
    /\ runner = "leaving"
    /\ open' = open \ Cancelled
    /\ raw' = Unlisted
    /\ runner' = "draining"
    /\ UNCHANGED <<stopping, socket, inbox, server, id, earlier, result, backoff>>

(* session.inference.drain and the other deferred calls (LocalInference).  *)
Drain ==
    /\ runner = "draining"
    /\ runner' = "deciding"
    /\ socket' = "none"
    /\ inbox' = <<>>
    /\ UNCHANGED <<stopping, raw, serving, result, backoff>>

-----------------------------------------------------------------------------
(* Run.                                                                    *)

\* Slip: the doubled wait is not cut to the longest one.
DoubledBackoff ==
    IF registered \/ backoff = 0 THEN initialBackoff
    ELSE IF backoff < maxBackoff THEN backoff * 2 ELSE backoff

\* Slip: a registered session does not count as a success.
NeverReset ==
    IF backoff = 0 THEN initialBackoff
    ELSE IF backoff * 2 < maxBackoff THEN backoff * 2 ELSE maxBackoff

NextBackoff ==
    IF registered \/ backoff = 0 THEN initialBackoff
    ELSE IF backoff * 2 < maxBackoff THEN backoff * 2 ELSE maxBackoff

\* Slip: a cancelled context is looked at before the revocation.
StoppingFirst == IF stopping THEN "stopped"
                 ELSE IF revoked THEN "revoked" ELSE "waiting"

AfterSession == IF revoked THEN "revoked"
                ELSE IF stopping THEN "stopped" ELSE "waiting"

Decide ==
    /\ runner = "deciding"
    /\ runner' = AfterSession
    /\ backoff' = IF AfterSession = "waiting" THEN NextBackoff ELSE backoff
    /\ socket' = "none"
    /\ UNCHANGED <<stopping, inbox, raw, serving, result>>

\* The timer, or ctx.Done(): the select takes either when both are ready.
Wait ==
    /\ runner = "waiting"
    /\ \/ runner' = "dialing"
       \/ stopping /\ runner' = "stopped"
    /\ UNCHANGED <<stopping, socket, inbox, raw, serving, result, backoff>>

-----------------------------------------------------------------------------
(* serveRaw.                                                               *)

ServerGoes(x, from, to) ==
    /\ server[x] = from
    /\ server' = [server EXCEPT ![x] = to]

\* The TLS handshake succeeds, or fails: by itself, after 30 s, with ctx, or
\* because the stream is closed.
Handshake(x) ==
    /\ \/ x \in open /\ ServerGoes(x, "handshake", "serving")
       \/ ServerGoes(x, "handshake", "finishing")
    /\ UNCHANGED <<runner, stopping, socket, inbox, raw, id, open, earlier, result, backoff>>

\* net/http closes the connection: the client said so, or an idle timeout.
HttpCloses(x) ==
    /\ server[x] = "serving"
    /\ x \in open
    /\ open' = open \ {x}
    /\ UNCHANGED <<runner, stopping, socket, inbox, raw, server, id, earlier, result, backoff>>

\* singleConnListener.Accept returns net.ErrClosed once the stream is closed.
ServeReturns(x) ==
    /\ x \notin open
    /\ ServerGoes(x, "serving", "finishing")
    /\ UNCHANGED <<runner, stopping, socket, inbox, raw, id, open, earlier, result, backoff>>

CloseIncoming(x) ==
    /\ ServerGoes(x, "finishing", "closed")
    /\ open' = open \ {x}
    /\ UNCHANGED <<runner, stopping, socket, inbox, raw, id, earlier, result, backoff>>

\* Slip: the stream is kept in the map.
KeepsListed(x) == raw

\* delete(s.raw, id), in the map of the server's own session.
Delisted(x) == IF x \in earlier THEN raw ELSE [raw EXCEPT ![id[x]] = none]

Delist(x) ==
    /\ ServerGoes(x, "closed", "unlisted")
    /\ raw' = Delisted(x)
    /\ UNCHANGED <<runner, stopping, socket, inbox, id, open, earlier, result, backoff>>

\* END, which is lost if the connection of its session is.
WriteEnd(x) ==
    /\ ServerGoes(x, "unlisted", "none")
    /\ id' = [id EXCEPT ![x] = none]
    /\ earlier' = earlier \ {x}
    /\ UNCHANGED <<runner, stopping, socket, inbox, raw, open, result, backoff>>

Serve(x) == Handshake(x) \/ ServeReturns(x) \/ CloseIncoming(x)
            \/ Delist(x) \/ WriteEnd(x)

-----------------------------------------------------------------------------

ReadLoop == ReadFails \/ StartRaw \/ WriteRaw \/ EndRaw \/ OtherFrame \/ Unexpected

Run == Dial \/ Register \/ ReadLoop \/ CancelAll \/ Drain \/ Decide \/ Wait

Done == runner \in {"stopped", "revoked"} /\ UNCHANGED vars

Next ==
    \/ RelaySends \/ ConnectionBreaks \/ Stop
    \/ Interrupt
    \/ Run
    \/ \E x \in Servers : Serve(x) \/ HttpCloses(x)
    \/ Done

Spec == Init /\ [][Next]_vars

(* Every goroutine that can run does; every timer runs out.                *)
Fairness ==
    /\ WF_vars(Run)
    /\ WF_vars(Interrupt)
    /\ \A x \in Servers : WF_vars(Serve(x))

FairSpec == Spec /\ Fairness

-----------------------------------------------------------------------------

\* A stream that is open can be reached.
OpenStreamsAreListed ==
    \A x \in open : x \notin earlier /\ raw[id[x]] = x

\* What s.raw lists is being served, under its own identifier, in this session.
ListedStreamsAreServed ==
    \A i \in StreamIds : raw[i] # none =>
        /\ id[raw[i]] = i
        /\ raw[i] \notin earlier
        /\ server[raw[i]] \notin {"none", "unlisted"}

\* Between two connections no stream of the last one is open.
SessionEndsItsStreams == runner \in {"draining", "deciding", "waiting"} => open = {}

(* s.raw lists the streams that are open, and no others: END, CANCEL and   *)
(* the end of the session close what it lists, so that an open stream it   *)
(* does not list would be served for ever; the delete(s.raw, id) of a      *)
(* server that ends late never takes the entry of the stream that came     *)
(* after it, and no frame is given to a server that has written END.       *)
StreamsAreListed == OpenStreamsAreListed /\ ListedStreamsAreServed /\ SessionEndsItsStreams

(* Connections that fail one after the other wait at least as long as the  *)
(* one before and never longer than maxBackoff; a registered one starts    *)
(* again from initialBackoff (agent.go:98-100).                            *)
WaitsGrowToTheirLimit ==
    [][runner = "deciding" /\ runner' = "waiting"
       => /\ backoff' \in initialBackoff..maxBackoff
          /\ IF registered THEN backoff' = initialBackoff
             ELSE backoff' >= backoff]_vars

(* A revocation the agent has read makes Run return ErrEndpointRevoked,    *)
(* never nil, though ctx is cancelled meanwhile: the caller disables the   *)
(* service for the one and not for the other (cmd/modeluplink/main.go).    *)
RevocationIsReported == (runner = "leaving" /\ revoked) ~> runner = "revoked"

\* After a cancellation Run returns, wherever it is (agent.go:126-127).
CancelReturns == stopping ~> runner \in {"stopped", "revoked"}

\* When a session ends, each of its servers does.
ServersEnd ==
    \A x \in Servers : (runner = "draining" /\ server[x] # "none") ~> server[x] = "none"

(* Run ends after a cancellation and a session's servers end with it,      *)
(* whatever the relay and the clients do.                                  *)
EverythingEnds == CancelReturns /\ ServersEnd

=============================================================================
