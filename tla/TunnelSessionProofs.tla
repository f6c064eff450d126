------------------------ MODULE TunnelSessionProofs ------------------------
(***************************************************************************)
(* Proofs about TunnelSession for every set of stream identifiers, every   *)
(* number of serveRaw goroutines and of frames in flight, and every pair   *)
(* of waits.                                                               *)
(***************************************************************************)
EXTENDS TunnelSession, TLAPS

-----------------------------------------------------------------------------
(* The inductive invariant.                                                *)

\* A serveRaw that has not taken its stream off s.raw yet.
AtWork(x) == server[x] \in {"handshake", "serving", "finishing", "closed"}

\* While a session has its map: from its registration to cancelAll.
Mapped == runner \in {"serving", "leaving"}

\* A server serves a stream under an identifier; one that is over is of no session.
ServersInv ==
    \A x \in Servers :
        /\ server[x] # "none" => id[x] \in StreamIds
        /\ x \in earlier => server[x] # "none"
        /\ x \in open => server[x] \in {"handshake", "serving", "finishing"}

\* The map of a session lists each of its servers that is at work, so that no two
\* of them have one identifier; without a session nothing is listed.
MapInv ==
    /\ Mapped => \A x \in Servers : AtWork(x) /\ x \notin earlier => raw[id[x]] = x
    /\ ~Mapped => raw = Unlisted

\* Without a session no stream is open, either.
OpenInv == ~Mapped => open = {}

\* A wait that has begun is at least the first one.
BackoffInv == backoff = 0 \/ initialBackoff <= backoff

StreamsInv ==
    /\ ServersInv
    /\ MapInv
    /\ OpenInv
    /\ OpenStreamsAreListed
    /\ ListedStreamsAreServed

IInv == TypeOK /\ StreamsInv /\ BackoffInv

-----------------------------------------------------------------------------
(* Groups of actions.                                                      *)

\* The relay's registration is accepted: a session with a map of its own begins.
Registers == Register /\ runner' = "serving"

\* The steps that touch neither the map nor a server.
Quiet ==
    \/ RelaySends \/ ConnectionBreaks \/ Stop \/ Interrupt
    \/ Dial \/ (Register /\ runner' # "serving") \/ ReadFails \/ OtherFrame \/ Unexpected
    \/ Drain \/ Decide \/ Wait \/ Done

\* They neither begin a session's map nor end it.
LEMMA QuietSteps ==
    ASSUME TypeOK, Quiet
    PROVE  UNCHANGED <<raw, serving>> /\ (Mapped' <=> Mapped)
<1>1. CASE RelaySends \/ ConnectionBreaks \/ Stop \/ Interrupt \/ OtherFrame \/ Done
  BY <1>1 DEF RelaySends, ConnectionBreaks, Stop, Interrupt, OtherFrame, ReadFrame, Done,
              vars, Mapped
<1>2. CASE Dial \/ (Register /\ runner' # "serving")
  BY <1>2 DEF Dial, Register, ReturnTo, Mapped, serving
<1>3. CASE ReadFails \/ Unexpected
  BY <1>3 DEF ReadFails, Unexpected, ReadFrame, ReturnTo, Mapped
<1>4. CASE Drain \/ Decide \/ Wait
  BY <1>4 DEF Drain, Decide, AfterSession, Wait, Mapped
<1> QED
  BY <1>1, <1>2, <1>3, <1>4 DEF Quiet

\* Next, by the groups above.
LEMMA NextByGroups ==
    ASSUME Next
    PROVE  \/ Quiet \/ Registers \/ StartRaw \/ WriteRaw \/ EndRaw \/ CancelAll
           \/ \E x \in Servers : Serve(x) \/ HttpCloses(x)
  BY DEF Next, Quiet, Registers, Run, ReadLoop

-----------------------------------------------------------------------------
(* Types.                                                                  *)

\* The wait after a failure is one of the run, and has the first wait below it.
LEMMA NextBackoffIsAWait ==
    ASSUME TypeOK, BackoffInv
    PROVE  /\ NextBackoff \in initialBackoff .. maxBackoff
           /\ registered => NextBackoff = initialBackoff
           /\ ~registered => backoff <= NextBackoff
  BY TunnelAssumption DEF TypeOK, BackoffInv, NextBackoff

\* What the agent has read off the inbox was a frame, and frames are left.
LEMMA FramesAreFrames ==
    ASSUME TypeOK, inbox # <<>>
    PROVE  /\ Tail(inbox) \in Seq(Frames)
           /\ Head(inbox).kind \in {"head", "data", "end"} => Head(inbox).stream \in StreamIds
  BY DEF TypeOK, Frames

\* Every step keeps the types, and the wait within its limits.
LEMMA StepsKeepTypes ==
    ASSUME IInv, Next
    PROVE  TypeOK' /\ BackoffInv'
<1> USE DEF IInv
<1>1. CASE RelaySends
  <2>1. inbox' \in Seq(Frames)
    BY <1>1 DEF RelaySends, TypeOK
  <2> QED
    BY <1>1, <2>1 DEF RelaySends, TypeOK, BackoffInv, serving, result
<1>2. CASE ConnectionBreaks \/ Stop \/ Interrupt \/ Done
  <2>1. CASE ConnectionBreaks \/ Stop
    <3>1. /\ socket' \in {"none", "open", "lost", "revoked", "closed"} /\ stopping' \in BOOLEAN
          /\ UNCHANGED <<runner, inbox, raw, serving, result, backoff>>
      BY <2>1 DEF ConnectionBreaks, Stop, TypeOK
    <3> QED
      BY <3>1 DEF TypeOK, BackoffInv, serving, result
  <2>2. CASE Interrupt \/ Done
    BY <2>2 DEF Interrupt, Done, vars, TypeOK, BackoffInv, serving, result
  <2> QED
    BY <1>2, <2>1, <2>2
<1>3. CASE Dial \/ Register
  BY <1>3 DEF Dial, Register, ReturnTo, Unlisted, TypeOK, BackoffInv, serving, result
<1>4. CASE ReadFails \/ CancelAll \/ Wait
  BY <1>4 DEF ReadFails, CancelAll, Wait, ReturnTo, Unlisted, TypeOK, BackoffInv, serving, result
<1>5. CASE Drain
  BY <1>5 DEF Drain, TypeOK, BackoffInv, serving, result
<1>6. CASE Decide
  BY <1>6, NextBackoffIsAWait, TunnelAssumption
     DEF Decide, AfterSession, TypeOK, BackoffInv, serving, result
<1>7. CASE StartRaw
  <2>1. inbox' \in Seq(Frames)
    BY <1>7, FramesAreFrames DEF StartRaw, ReadFrame
  <2>2. CASE UNCHANGED <<raw, serving>>
    BY <1>7, <2>1, <2>2 DEF StartRaw, TypeOK, BackoffInv, serving, result
  <2>3. CASE ~UNCHANGED <<raw, serving>>
    <3>1. /\ Head(inbox).stream \in StreamIds
          /\ UNCHANGED <<runner, stopping, socket, earlier, revoked, registered, backoff>>
      BY <1>7, <2>3, FramesAreFrames DEF StartRaw, ReadFrame, serving, result
    <3>2. PICK x \in Servers : /\ raw' = [raw EXCEPT ![Head(inbox).stream] = x]
                               /\ server' = [server EXCEPT ![x] = "handshake"]
                               /\ id' = [id EXCEPT ![x] = Head(inbox).stream]
                               /\ open' = open \cup {x}
      BY <1>7, <2>3 DEF StartRaw
    <3> QED
      BY <2>1, <3>1, <3>2 DEF TypeOK, BackoffInv
  <2> QED
    BY <2>2, <2>3
<1>8. CASE WriteRaw \/ EndRaw \/ OtherFrame
  <2>1. inbox' \in Seq(Frames)
    BY <1>8, FramesAreFrames DEF WriteRaw, EndRaw, OtherFrame, ReadFrame
  <2> QED
    BY <1>8, <2>1 DEF WriteRaw, EndRaw, OtherFrame, ReadFrame, TypeOK, BackoffInv, serving, result
<1>9. CASE Unexpected
  <2>1. inbox' \in Seq(Frames)
    BY <1>9, FramesAreFrames DEF Unexpected, ReadFrame
  <2> QED
    BY <1>9, <2>1 DEF Unexpected, ReadFrame, ReturnTo, TypeOK, BackoffInv, serving, result
<1>10. ASSUME NEW x \in Servers, Serve(x) \/ HttpCloses(x)
       PROVE  TypeOK' /\ BackoffInv'
  <2>1. CASE Handshake(x) \/ ServeReturns(x) \/ HttpCloses(x)
    BY <2>1 DEF Handshake, ServeReturns, HttpCloses, ServerGoes, TypeOK, BackoffInv, serving, result
  <2>2. CASE CloseIncoming(x) \/ WriteEnd(x)
    BY <2>2 DEF CloseIncoming, WriteEnd, ServerGoes, TypeOK, BackoffInv, serving, result
  <2>3. CASE Delist(x)
    BY <2>3 DEF Delist, Delisted, ServerGoes, TypeOK, BackoffInv, serving, result
  <2> QED
    BY <1>10, <2>1, <2>2, <2>3 DEF Serve
<1> QED
  BY <1>1, <1>2, <1>3, <1>4, <1>5, <1>6, <1>7, <1>8, <1>9, <1>10 DEF Next, Run, ReadLoop

-----------------------------------------------------------------------------
(* The map and the servers.                                                *)

\* The quiet steps leave the map and the servers alone.
LEMMA QuietKeepsStreams ==
    ASSUME IInv, Quiet
    PROVE  StreamsInv'
  BY QuietSteps DEF IInv, StreamsInv, ServersInv, MapInv, OpenInv, OpenStreamsAreListed,
                    ListedStreamsAreServed, AtWork, Unlisted, serving

\* No stream is open when a session registers, and its servers belong to earlier ones.
LEMMA RegistersKeepsStreams ==
    ASSUME IInv, Registers
    PROVE  StreamsInv'
<1>1. /\ raw' = Unlisted /\ earlier' = {x \in Servers : server[x] # "none"}
      /\ UNCHANGED <<server, id, open>> /\ runner = "registering" /\ runner' = "serving"
  BY DEF Registers, Register, ReturnTo
<1>2. open' = {}
  BY <1>1 DEF IInv, StreamsInv, OpenInv, Mapped
<1> QED
  BY <1>1, <1>2 DEF IInv, TypeOK, StreamsInv, ServersInv, MapInv, OpenInv, OpenStreamsAreListed,
                    ListedStreamsAreServed, AtWork, Unlisted, Mapped

\* A server is given an identifier that no other server at work has.
LEMMA StartRawKeepsStreams ==
    ASSUME IInv, StartRaw
    PROVE  StreamsInv'
<1>1. /\ runner = "serving" /\ runner' = "serving"
      /\ Head(inbox).stream \in StreamIds
  BY FramesAreFrames DEF IInv, StartRaw, ReadFrame
<1>2. CASE UNCHANGED <<raw, serving>>
  BY <1>1, <1>2 DEF IInv, StreamsInv, ServersInv, MapInv, OpenInv, OpenStreamsAreListed,
                    ListedStreamsAreServed, AtWork, Mapped, serving
<1>3. CASE ~UNCHANGED <<raw, serving>>
  <2> DEFINE i == Head(inbox).stream
  <2>1. PICK x \in Servers : /\ Accepts(i) /\ server[x] = "none"
                             /\ raw' = [raw EXCEPT ![i] = x]
                             /\ server' = [server EXCEPT ![x] = "handshake"]
                             /\ id' = [id EXCEPT ![x] = i]
                             /\ open' = open \cup {x}
                             /\ UNCHANGED earlier
    BY <1>3 DEF StartRaw
  <2> HIDE DEF i
  <2>2. x \notin earlier /\ \A j \in StreamIds : raw[j] # x
    BY <2>1, TunnelAssumption DEF IInv, StreamsInv, ServersInv, ListedStreamsAreServed
  <2>3. i \in StreamIds /\ raw[i] = none /\ x # none
    BY <1>1, <2>1, TunnelAssumption DEF i, Accepts
  <2>4. ServersInv'
    BY <2>1, <2>2, <2>3 DEF IInv, TypeOK, StreamsInv, ServersInv
  <2>5. MapInv'
    <3>1. ASSUME NEW y \in Servers, AtWork(y)', y \notin earlier'
          PROVE  raw'[id'[y]] = y
      <4>1. CASE y = x
        BY <2>1, <2>3, <4>1 DEF IInv, TypeOK
      <4>2. CASE y # x
        <5>1. AtWork(y) /\ y \notin earlier /\ id'[y] = id[y]
          BY <2>1, <3>1, <4>2 DEF IInv, TypeOK, AtWork
        <5>2. raw[id[y]] = y /\ id[y] \in StreamIds /\ y # none
          BY <1>1, <5>1, TunnelAssumption DEF IInv, StreamsInv, ServersInv, MapInv, Mapped, AtWork
        <5> QED
          BY <2>1, <2>3, <5>1, <5>2 DEF IInv, TypeOK
      <4> QED
        BY <4>1, <4>2
    <3> QED
      BY <1>1, <3>1 DEF MapInv, Mapped
  <2>6. OpenInv'
    BY <1>1 DEF OpenInv, Mapped
  <2>7. OpenStreamsAreListed'
    BY <2>1, <2>2, <2>5, <2>4, <1>1 DEF MapInv, ServersInv, Mapped, AtWork, OpenStreamsAreListed, IInv, StreamsInv, TypeOK
  <2>8. ListedStreamsAreServed'
    BY <2>1, <2>2, <2>3, TunnelAssumption DEF IInv, TypeOK, StreamsInv, ListedStreamsAreServed
  <2> QED
    BY <2>4, <2>5, <2>6, <2>7, <2>8 DEF StreamsInv
<1> QED
  BY <1>2, <1>3

\* A frame may close a stream and leaves everything else alone.
LEMMA FramesKeepStreams ==
    ASSUME IInv, WriteRaw \/ EndRaw
    PROVE  StreamsInv'
<1>1. /\ runner = "serving" /\ runner' = "serving"
      /\ UNCHANGED <<raw, server, id, earlier>> /\ open' \subseteq open
  BY DEF WriteRaw, EndRaw, ReadFrame
<1> QED
  BY <1>1 DEF IInv, TypeOK, StreamsInv, ServersInv, MapInv, OpenInv, OpenStreamsAreListed,
              ListedStreamsAreServed, AtWork, Mapped

\* cancelAll closes every open stream, because s.raw lists them all.
LEMMA CancelAllKeepsStreams ==
    ASSUME IInv, CancelAll
    PROVE  StreamsInv'
<1>1. open' = {}
  BY TunnelAssumption DEF IInv, TypeOK, CancelAll, Cancelled, StreamsInv, OpenStreamsAreListed, ServersInv
<1> QED
  BY <1>1 DEF IInv, TypeOK, CancelAll, StreamsInv, ServersInv, MapInv, OpenInv, OpenStreamsAreListed,
              ListedStreamsAreServed, AtWork, Mapped, Unlisted

\* A server that ends takes its own entry off the map of its own session.
LEMMA ServersKeepStreams ==
    ASSUME IInv, NEW x \in Servers, Serve(x) \/ HttpCloses(x)
    PROVE  StreamsInv'
<1>1. CASE Handshake(x) \/ ServeReturns(x) \/ CloseIncoming(x) \/ HttpCloses(x)
  <2>1. /\ UNCHANGED <<runner, raw, id, earlier>> /\ open' \subseteq open
        /\ \A y \in Servers \ {x} : server'[y] = server[y]
        /\ AtWork(x) /\ AtWork(x)'
        /\ x \in open' => server'[x] # "closed"
    BY <1>1 DEF IInv, TypeOK, StreamsInv, ServersInv, Handshake, ServeReturns, CloseIncoming, HttpCloses, ServerGoes, AtWork
  <2> QED
    BY <2>1 DEF IInv, TypeOK, StreamsInv, ServersInv, MapInv, OpenInv, OpenStreamsAreListed,
                ListedStreamsAreServed, AtWork, Mapped, Unlisted
<1>2. CASE Delist(x)
  <2>1. /\ UNCHANGED <<runner, id, open, earlier>> /\ raw' = Delisted(x)
        /\ server[x] = "closed" /\ server' = [server EXCEPT ![x] = "unlisted"]
    BY <1>2 DEF Delist, ServerGoes
  <2>2. x \notin open /\ id[x] \in StreamIds
    BY <2>1 DEF IInv, StreamsInv, ServersInv
  <2>3. \A i \in StreamIds : raw'[i] # x /\ (raw'[i] = raw[i] \/ (raw'[i] = none /\ x \notin earlier /\ i = id[x]))
    BY <2>1, <2>2, TunnelAssumption DEF IInv, TypeOK, StreamsInv, ListedStreamsAreServed, Delisted
  <2>4. ServersInv' /\ OpenInv'
    BY <2>1, <2>2 DEF IInv, TypeOK, StreamsInv, ServersInv, OpenInv, Mapped
  <2>5. \A y \in Servers : y # x /\ id[y] \in StreamIds /\ raw[id[y]] = y => raw'[id[y]] = y
    <3> SUFFICES ASSUME NEW y \in Servers, y # x, id[y] \in StreamIds, raw[id[y]] = y
                 PROVE  raw'[id[y]] = y
      OBVIOUS
    <3>1. CASE x \in earlier
      BY <2>1, <3>1 DEF Delisted
    <3>2. CASE x \notin earlier
      <4>1. Mapped => raw[id[x]] = x
        BY <2>1, <3>2 DEF IInv, StreamsInv, MapInv, AtWork
      <4>2. ~Mapped => raw[id[x]] = none /\ raw[id[y]] = none
        BY <2>2 DEF IInv, StreamsInv, MapInv, Unlisted
      <4>3. id[y] # id[x]
        BY <4>1, <4>2, TunnelAssumption
      <4> QED
        BY <2>1, <2>2, <3>2, <4>3 DEF Delisted, IInv, TypeOK
    <3> QED
      BY <3>1, <3>2
  <2>6. MapInv'
    <3>1. ASSUME Mapped', NEW y \in Servers, AtWork(y)', y \notin earlier'
          PROVE  raw'[id'[y]] = y
      <4>1. y # x /\ AtWork(y) /\ y \notin earlier /\ Mapped
        BY <2>1, <3>1 DEF IInv, TypeOK, AtWork, Mapped
      <4>2. id[y] \in StreamIds /\ raw[id[y]] = y
        BY <4>1 DEF IInv, StreamsInv, ServersInv, MapInv, AtWork
      <4> QED
        BY <2>1, <2>5, <4>1, <4>2
    <3>2. ~Mapped' => raw' = Unlisted
      BY <2>1, <2>2 DEF IInv, TypeOK, StreamsInv, MapInv, Mapped, Delisted, Unlisted
    <3> QED
      BY <3>1, <3>2 DEF MapInv
  <2>7. OpenStreamsAreListed'
    BY <2>1, <2>2, <2>5 DEF IInv, TypeOK, StreamsInv, ServersInv, OpenStreamsAreListed
  <2>8. ListedStreamsAreServed'
    BY <2>1, <2>3, TunnelAssumption DEF IInv, TypeOK, StreamsInv, ListedStreamsAreServed
  <2> QED
    BY <2>4, <2>6, <2>7, <2>8 DEF StreamsInv
<1>3. CASE WriteEnd(x)
  <2>1. /\ UNCHANGED <<runner, raw, open>> /\ earlier' = earlier \ {x}
        /\ server[x] = "unlisted" /\ server' = [server EXCEPT ![x] = "none"]
        /\ id' = [id EXCEPT ![x] = none]
    BY <1>3 DEF WriteEnd, ServerGoes
  <2>2. x \notin open /\ \A i \in StreamIds : raw[i] # x
    BY <2>1, TunnelAssumption DEF IInv, StreamsInv, ServersInv, ListedStreamsAreServed
  <2> QED
    BY <2>1, <2>2 DEF IInv, TypeOK, StreamsInv, ServersInv, MapInv, OpenInv, OpenStreamsAreListed,
                      ListedStreamsAreServed, AtWork, Mapped, Unlisted
<1> QED
  BY <1>1, <1>2, <1>3 DEF Serve

-----------------------------------------------------------------------------

\* The initial state satisfies the inductive invariant.
LEMMA InitHolds == Init => IInv
<1> SUFFICES ASSUME Init PROVE IInv
  OBVIOUS
<1>1. TypeOK /\ BackoffInv
  <2>1. inbox \in Seq(Frames)
    BY DEF Init
  <2>2. /\ raw \in [StreamIds -> Servers \cup {none}]
        /\ server \in [Servers -> {"none", "handshake", "serving", "finishing", "closed", "unlisted"}]
        /\ id \in [Servers -> StreamIds \cup {none}]
    BY DEF Init, Unlisted
  <2>3. backoff \in 0..maxBackoff
    BY TunnelAssumption DEF Init
  <2> QED
    BY <2>1, <2>2, <2>3 DEF Init, TypeOK, BackoffInv
<1>2. StreamsInv
  BY DEF Init, StreamsInv, ServersInv, MapInv, OpenInv, OpenStreamsAreListed,
         ListedStreamsAreServed, AtWork, Mapped, Unlisted
<1> QED
  BY <1>1, <1>2 DEF IInv

\* And every step keeps it.
LEMMA StepsKeepIInv == IInv /\ [Next]_vars => IInv'
<1> SUFFICES ASSUME IInv, [Next]_vars PROVE IInv'
  OBVIOUS
<1>1. CASE UNCHANGED vars
  BY <1>1 DEF IInv, vars, serving, result, TypeOK, BackoffInv, StreamsInv, ServersInv, MapInv,
              OpenInv, OpenStreamsAreListed, ListedStreamsAreServed, AtWork, Mapped, Unlisted
<1>2. CASE Next
  <2>1. TypeOK' /\ BackoffInv'
    BY <1>2, StepsKeepTypes
  <2>2. StreamsInv'
    BY <1>2, NextByGroups, QuietKeepsStreams, RegistersKeepsStreams, StartRawKeepsStreams,
       FramesKeepStreams, CancelAllKeepsStreams, ServersKeepStreams
  <2> QED
    BY <2>1, <2>2 DEF IInv
<1> QED
  BY <1>1, <1>2

\* The inductive invariant of the tunnel.
THEOREM Inductive == Spec => []IInv
  BY InitHolds, StepsKeepIInv, PTL DEF Spec

\* Every reachable state is well typed, for every number of streams and servers.
THEOREM TypeCorrect == Spec => []TypeOK
<1>1. IInv => TypeOK
  BY DEF IInv
<1> QED
  BY <1>1, Inductive, PTL

(* s.raw lists the streams that are open and no others, whatever servers   *)
(* of this session and of earlier ones are at work and whichever           *)
(* identifiers the relay uses again (startRaw, serveRaw, cancelAll).       *)
THEOREM StreamsListed == Spec => []StreamsAreListed
<1>1. IInv => StreamsAreListed
  BY DEF IInv, StreamsInv, OpenInv, Mapped, StreamsAreListed, SessionEndsItsStreams
<1> QED
  BY <1>1, Inductive, PTL

(* The waits between attempts grow to maxBackoff, never beyond it, and     *)
(* begin again with initialBackoff after a registered session              *)
(* (agent.go:98-105), for every pair of waits.                             *)
THEOREM WaitsGrow == Spec => WaitsGrowToTheirLimit
<1>1. ASSUME IInv, [Next]_vars, runner = "deciding", runner' = "waiting"
      PROVE  /\ backoff' \in initialBackoff..maxBackoff
             /\ IF registered THEN backoff' = initialBackoff ELSE backoff' >= backoff
  <2>1. Decide
    <3>1. Next
      BY <1>1 DEF vars
    <3>2. ASSUME NEW x \in Servers PROVE ~(Serve(x) \/ HttpCloses(x))
      BY <1>1, <3>2 DEF Serve, Handshake, ServeReturns, CloseIncoming, Delist, WriteEnd, HttpCloses
    <3>3. ~(RelaySends \/ ConnectionBreaks \/ Stop \/ Interrupt \/ Done)
      BY <1>1 DEF RelaySends, ConnectionBreaks, Stop, Interrupt, Done
    <3>4. ~(Dial \/ Register \/ CancelAll \/ Drain \/ Wait \/ ReadLoop)
      BY <1>1 DEF Dial, Register, CancelAll, Drain, Wait, ReadLoop, ReadFails, StartRaw,
                  WriteRaw, EndRaw, OtherFrame, Unexpected, ReadFrame
    <3> QED
      BY <3>1, <3>2, <3>3, <3>4 DEF Next, Run
  <2>2. backoff' = NextBackoff
    BY <1>1, <2>1 DEF Decide
  <2>3. backoff \in Nat /\ NextBackoff \in Nat
    BY <1>1, NextBackoffIsAWait, TunnelAssumption DEF IInv, TypeOK
  <2> QED
    BY <1>1, <2>2, <2>3, NextBackoffIsAWait DEF IInv
<1> QED
  BY <1>1, Inductive, PTL DEF Spec, WaitsGrowToTheirLimit

=============================================================================
