----------------------------- MODULE FrameConn -----------------------------
(***************************************************************************)
(* One client stream's connection: frameConn and connDeadline in           *)
(* pkg/agent/opaque.go.  The tunnel's only reader feeds it the frames of   *)
(* the stream, and must never wait for it; the TLS server of the stream    *)
(* reads bytes; net/http closes it and moves its read deadline to stop a   *)
(* read that is under way.                                                 *)
(*                                                                         *)
(* The client's bytes are numbered 1, 2, 3, ... so that a lost, doubled or *)
(* reordered one shows.  Every critical section of c.mu is one action, and *)
(* so is every channel operation outside of it.  Write takes no part: it   *)
(* reads c.done and its own deadline and changes nothing.                  *)
(***************************************************************************)
EXTENDS Naturals, Sequences

CONSTANTS
    maxStreamBuffer,    \* bytes buffered for the stream
    FrameSizes,         \* sizes of DATA frames
    ReadSizes,          \* sizes of the buffers Read is called with
    MaxBytes,           \* bound: bytes the client sends
    MaxFrames           \* bound: frames buffered (an empty one counts no bytes)

ASSUME SizesAssumption ==
    /\ maxStreamBuffer \in Nat
    /\ FrameSizes \subseteq Nat
    /\ ReadSizes \subseteq Nat \ {0}
    /\ MaxBytes \in Nat
    /\ MaxFrames \in Nat

VARIABLES
    sent,           \* bytes the tunnel has passed to feed
    tunnel,         \* where the tunnel's reader is in feed
    chunks,         \* c.chunks
    buffered,       \* c.buffered
    failure,        \* c.failure # nil
    done,           \* c.done is closed
    notify,         \* tokens in c.notify
    current,        \* c.current
    reader,         \* where the stream's server is in Read
    size,           \* len(p)
    waitingOn,      \* the deadline channel its select waits on
    outcome,        \* how its last Read ended
    accepted,       \* history: bytes feed has kept
    received,       \* history: bytes Read has returned
    expired,        \* the channel d.cancel is closed
    timer           \* d.timer

feeding == <<sent, tunnel, accepted>>
buffer == <<chunks, buffered, failure>>
reading == <<current, received, reader, outcome, size>>
deadline == <<expired, timer>>
vars == <<feeding, buffer, done, notify, reading, waitingOn, deadline>>

TypeOK ==
    /\ sent \in 0..MaxBytes
    /\ tunnel \in {"ready", "notifying", "closing"}
    /\ chunks \in Seq(Seq(1..MaxBytes))
    /\ buffered \in 0..maxStreamBuffer
    /\ failure \in BOOLEAN
    /\ done \in BOOLEAN
    /\ notify \in {0, 1}
    /\ current \in Seq(1..MaxBytes)
    /\ reader \in {"idle", "looping", "empty", "closed", "waiting", "copying"}
    /\ size \in ReadSizes \cup {0}
    \* "replaced" is a channel that was closed when d.cancel was replaced.
    /\ waitingOn \in {"none", "current", "replaced", "lost"}
    /\ outcome \in {"none", "data", "eof", "failure", "timeout"}
    /\ accepted \in 0..MaxBytes
    /\ received \in 0..MaxBytes
    /\ expired \in BOOLEAN
    /\ timer \in {"none", "armed", "firing", "fired"}

Init ==
    /\ sent = 0 /\ accepted = 0 /\ received = 0
    /\ tunnel = "ready"
    /\ chunks = <<>> /\ buffered = 0 /\ current = <<>>
    /\ failure = FALSE /\ done = FALSE /\ notify = 0
    /\ reader = "idle" /\ size = 0 /\ waitingOn = "none" /\ outcome = "none"
    /\ expired = FALSE /\ timer = "none"

-----------------------------------------------------------------------------
(* The tunnel's reader.                                                    *)

\* The next n bytes of the client.
Frame(n) == [i \in 1..n |-> sent + i]

Drops == failure \/ done

\* Slip: the frame itself is not counted.
OverflowsAlready(n) == buffered > maxStreamBuffer

Overflows(n) == buffered + n > maxStreamBuffer

(* feed's critical section: a closed stream takes nothing, one that        *)
(* overflows fails as a whole, and any other frame is kept.                *)
Feed(n) ==
    /\ tunnel = "ready"
    /\ sent + n <= MaxBytes
    /\ Len(chunks) < MaxFrames
    /\ sent' = sent + n
    /\ \/ /\ Drops
          /\ UNCHANGED <<tunnel, accepted, buffer>>
       \/ /\ ~Drops
          /\ Overflows(n)
          /\ failure' = TRUE
          /\ chunks' = <<>>
          /\ buffered' = 0
          /\ tunnel' = "closing"
          /\ UNCHANGED accepted
       \/ /\ ~Drops
          /\ ~Overflows(n)
          /\ chunks' = Append(chunks, Frame(n))
          /\ buffered' = buffered + n
          /\ accepted' = accepted + n
          /\ tunnel' = "notifying"
          /\ UNCHANGED failure
    /\ UNCHANGED <<done, notify, reading, waitingOn, deadline>>

\* Slip: the token is not left when nobody waits yet.
TokenIfWaited == IF reader = "waiting" THEN 1 ELSE notify

\* The send on c.notify, which never blocks.
Token == 1

Notify ==
    /\ tunnel = "notifying"
    /\ notify' = Token
    /\ tunnel' = "ready"
    /\ UNCHANGED <<sent, accepted, buffer, done, reading, waitingOn, deadline>>

\* feed's closeIncoming after an overflow.
CloseFailed ==
    /\ tunnel = "closing"
    /\ done' = TRUE
    /\ tunnel' = "ready"
    /\ UNCHANGED <<sent, accepted, buffer, notify, reading, waitingOn,
                   deadline>>

\* closeIncoming: END or CANCEL arrived, or net/http closed the connection.
Close ==
    /\ ~done
    /\ done' = TRUE
    /\ UNCHANGED <<feeding, buffer, notify, reading, waitingOn, deadline>>

-----------------------------------------------------------------------------
(* The stream's server.                                                    *)

Return(result) == reader' = "idle" /\ outcome' = result /\ size' = 0

\* The TLS connection keeps the first error and reads no more after it.
ReadBegins(n) ==
    /\ reader = "idle"
    /\ outcome \notin {"eof", "failure"}
    /\ size' = n
    /\ reader' = IF current = <<>> THEN "looping" ELSE "copying"
    /\ outcome' = "none"
    /\ UNCHANGED <<feeding, buffer, done, notify, current, received, waitingOn,
                   deadline>>

BufferedAfterTake == buffered - Len(Head(chunks))

(* The critical section at the top of the loop.                            *)
Take ==
    /\ reader = "looping"
    /\ \/ /\ failure
          /\ Return("failure")
          /\ UNCHANGED <<buffer, current>>
       \/ /\ ~failure
          /\ chunks # <<>>
          /\ current' = Head(chunks)
          /\ chunks' = Tail(chunks)
          /\ buffered' = BufferedAfterTake
          /\ reader' = "copying"
          /\ UNCHANGED <<failure, outcome, size>>
       \/ /\ ~failure
          /\ chunks = <<>>
          /\ reader' = "empty"
          /\ UNCHANGED <<buffer, current, outcome, size>>
    /\ UNCHANGED <<feeding, done, notify, received, waitingOn, deadline>>

(* isClosed(c.done); a stream that is open waits, on the deadline channel  *)
(* of this moment.                                                         *)
LookForClose ==
    /\ reader = "empty"
    /\ IF done
       THEN reader' = "closed" /\ UNCHANGED waitingOn
       ELSE reader' = "waiting" /\ waitingOn' = "current"
    /\ UNCHANGED <<feeding, buffer, done, notify, current, received, outcome,
                   size, deadline>>

Pending == chunks # <<>> \/ failure

\* The second look at the buffer before EOF is returned.
LookAgain ==
    /\ reader = "closed"
    /\ IF Pending
       THEN reader' = "looping" /\ UNCHANGED <<outcome, size>>
       ELSE Return("eof")
    /\ UNCHANGED <<feeding, buffer, done, notify, current, received, waitingOn,
                   deadline>>

\* The channel the select waits on is closed.
PastDeadline == waitingOn = "replaced" \/ (waitingOn = "current" /\ expired)

(* The select: any case that is ready may win.                             *)
Wake ==
    /\ reader = "waiting"
    /\ \/ /\ notify = 1
          /\ notify' = 0
          /\ reader' = "looping"
          /\ UNCHANGED <<outcome, size>>
       \/ /\ done
          /\ reader' = "looping"
          /\ UNCHANGED <<notify, outcome, size>>
       \/ /\ PastDeadline
          /\ Return("timeout")
          /\ UNCHANGED notify
    /\ waitingOn' = "none"
    /\ UNCHANGED <<feeding, buffer, done, current, received, deadline>>

\* Bytes that one Read returns.
Copied == IF size < Len(current) THEN size ELSE Len(current)

\* Slip: the part of a frame that did not fit is dropped.
RestDropped == <<>>

Rest == SubSeq(current, Copied + 1, Len(current))

\* copy(p, c.current), and the rest is kept for the next Read.
Copy ==
    /\ reader = "copying"
    /\ received' = received + Copied
    /\ current' = Rest
    /\ Return("data")
    /\ UNCHANGED <<feeding, buffer, done, notify, waitingOn, deadline>>

Read == Take \/ LookForClose \/ LookAgain \/ Wake \/ Copy

-----------------------------------------------------------------------------
(* connDeadline.set.  It stops the timer first, and waits for a callback   *)
(* that has started: neither of its parts is run while one does.           *)

\* Slip: a new channel for every deadline.
ReplaceAlways ==
    /\ expired' = FALSE
    /\ waitingOn' = IF waitingOn # "current" THEN waitingOn
                    ELSE IF expired THEN "replaced" ELSE "lost"

\* d.cancel is replaced only if it is closed, so a waiting Read keeps up.
Replace ==
    /\ expired' = FALSE
    /\ waitingOn' = IF waitingOn = "current" /\ expired THEN "replaced"
                    ELSE waitingOn

SetDeadline ==
    /\ timer # "firing"
    /\ \/ /\ Replace
          /\ timer' \in {"none", "armed"}
       \/ /\ expired' = TRUE
          /\ timer' = "none"
          /\ UNCHANGED waitingOn
    /\ UNCHANGED <<feeding, buffer, done, notify, reading>>

\* The timer runs out: Stop would return false from now on.
TimerFires ==
    /\ timer = "armed"
    /\ timer' = "firing"
    /\ UNCHANGED <<feeding, buffer, done, notify, reading, waitingOn, expired>>

\* Its callback closes the channel.
TimerCloses ==
    /\ timer = "firing"
    /\ timer' = "fired"
    /\ expired' = TRUE
    /\ UNCHANGED <<feeding, buffer, done, notify, reading, waitingOn>>

-----------------------------------------------------------------------------

Tunnel == Notify \/ CloseFailed

Next ==
    \/ \E n \in FrameSizes : Feed(n)
    \/ Tunnel
    \/ Close
    \/ \E n \in ReadSizes : ReadBegins(n)
    \/ Read
    \/ SetDeadline
    \/ TimerFires
    \/ TimerCloses

Spec == Init /\ [][Next]_vars

(* The goroutines that are inside feed, Read or a timer callback run on.   *)
Fairness == WF_vars(Tunnel) /\ WF_vars(Read) /\ WF_vars(TimerCloses)

FairSpec == Spec /\ Fairness

-----------------------------------------------------------------------------

\* Where each chunk begins among the client's bytes, and where the last one ends, if what
\* is kept follows what was read.
Begins ==
    {begin \in [1..(Len(chunks) + 1) -> 0..MaxBytes] :
        /\ begin[1] = received + Len(current)
        /\ \A k \in DOMAIN chunks : begin[k + 1] = begin[k] + Len(chunks[k])}

\* What is kept and not read follows what was read; after an overflow the rest is lost.
\* c.buffered is the bytes in c.chunks, on every path.
ReadsAreAPrefix ==
    /\ \A i \in DOMAIN current : current[i] = received + i
    /\ \E begin \in Begins :
          /\ \A k \in DOMAIN chunks : \A i \in DOMAIN chunks[k] : chunks[k][i] = begin[k] + i
          /\ ~failure => begin[Len(chunks) + 1] = accepted
          /\ begin[1] + buffered = begin[Len(chunks) + 1]

\* EOF comes after END and every byte, for ever, and never after an overflow.
EofMeansAll == outcome = "eof" => done /\ ~failure /\ received = accepted

(* Read returns exactly the bytes feed kept, in order, none lost and none  *)
(* twice, whatever the sizes of frames and reads.  After an overflow it    *)
(* returns a prefix of them and then the failure, never a clean EOF; and   *)
(* the limit that decides what overflows counts what is kept.              *)
BytesAreDelivered == ReadsAreAPrefix /\ EofMeansAll

\* A Read that waits while there is something for it is about to be woken.
NoLostWakeup ==
    reader = "waiting" =>
        /\ chunks # <<>> => notify = 1 \/ done \/ tunnel = "notifying"
        /\ failure => done \/ tunnel = "closing"

\* A deadline in the past reaches the Read that waits.
DeadlineReachesTheReader == reader = "waiting" /\ expired => PastDeadline

(* No Read sleeps over what should wake it: bytes, an END, an overflow, or *)
(* a deadline, however often it was moved since the Read began to wait     *)
(* (net/http's abortPendingRead and ReadHeaderTimeout depend on it).       *)
WaitingReadsAreWoken == NoLostWakeup /\ DeadlineReachesTheReader

(* Bytes, an END or an overflow end a Read that waits.                     *)
ReadReturns == reader # "idle" /\ (chunks # <<>> \/ done) ~> reader = "idle"

=============================================================================
