--------------------------- MODULE FrameConnProofs ---------------------------
(***************************************************************************)
(* Proofs about FrameConn for every size of the buffer, of the frames and  *)
(* of the reads.                                                           *)
(***************************************************************************)
EXTENDS FrameConn, SequenceTheorems, TLAPS

-----------------------------------------------------------------------------
(* The inductive invariant, in parts.                                      *)

\* feed keeps every frame until the stream fails or is closed; what it kept is either
\* read, or in c.current, or counted by c.buffered.
CountInv ==
    /\ accepted <= sent
    /\ ~Drops => accepted = sent
    /\ received + Len(current) + buffered <= accepted
    /\ ~failure => received + Len(current) + buffered = accepted
    /\ failure => chunks = <<>>

\* What a Read that is under way has seen.
ReaderInv ==
    /\ reader # "idle" => outcome = "none" /\ size \in ReadSizes
    /\ reader \in {"looping", "empty", "closed", "waiting"} => current = <<>>
    /\ reader = "closed" => done
    /\ reader = "waiting" => waitingOn \in {"current", "replaced"}

\* A token is there from the moment the Read found the buffer empty.
TokenInv ==
    /\ reader \in {"empty", "waiting"} /\ chunks # <<>> => notify = 1 \/ done \/ tunnel = "notifying"
    /\ failure => done \/ tunnel = "closing"

\* ReadsAreAPrefix, and no chunk begins after the end of the last.
PlacesInv ==
    /\ \A i \in DOMAIN current : current[i] = received + i
    /\ \E begin \in Begins :
          /\ \A k \in DOMAIN chunks : \A i \in DOMAIN chunks[k] : chunks[k][i] = begin[k] + i
          /\ ~failure => begin[Len(chunks) + 1] = accepted
          /\ begin[1] + buffered = begin[Len(chunks) + 1]
          /\ \A k \in DOMAIN begin : begin[k] <= begin[Len(chunks) + 1]

IInv == TypeOK /\ PlacesInv /\ EofMeansAll /\ CountInv /\ ReaderInv /\ TokenInv

bytes == <<chunks, buffered, failure, current, received, accepted>>

-----------------------------------------------------------------------------
(* The steps that leave the bytes where they are.                          *)

\* Where the bytes are says all that PlacesInv needs.
LEMMA BytesStay ==
    ASSUME PlacesInv, UNCHANGED bytes
    PROVE  PlacesInv'
  BY DEF PlacesInv, Begins, bytes

\* The tunnel's reader after its critical section, a close, and the deadline.
LEMMA AroundTheBuffer ==
    ASSUME IInv, Tunnel \/ Close \/ SetDeadline \/ TimerFires \/ TimerCloses
    PROVE  IInv'
<1>1. /\ UNCHANGED bytes /\ UNCHANGED <<reading, sent>>
      /\ (done => done') /\ (notify = 1 => notify' = 1)
  BY DEF Tunnel, Notify, CloseFailed, Close, SetDeadline, TimerFires, TimerCloses, bytes,
         feeding, buffer, reading, deadline, Token, IInv, TypeOK
<1>2. TypeOK'
  <2>1. /\ done' \in BOOLEAN /\ notify' \in {0, 1} /\ tunnel' \in {"ready", "notifying", "closing"}
        /\ expired' \in BOOLEAN /\ timer' \in {"none", "armed", "firing", "fired"}
        /\ waitingOn' \in {"none", "current", "replaced", "lost"}
    BY DEF Tunnel, Notify, CloseFailed, Close, SetDeadline, Replace, TimerFires, TimerCloses,
           feeding, deadline, Token, IInv, TypeOK
  <2> QED
    BY <1>1, <2>1 DEF IInv, TypeOK, bytes, reading
<1>3. PlacesInv'
  BY <1>1, BytesStay DEF IInv
<1>4. EofMeansAll'
  BY <1>1, <1>2 DEF IInv, EofMeansAll, reading, bytes, TypeOK
<1>5. CountInv'
  BY <1>1 DEF IInv, CountInv, Drops, reading, bytes, TypeOK
<1>6. ReaderInv'
  BY <1>1 DEF IInv, ReaderInv, reading, bytes, Tunnel, Notify, CloseFailed, Close, SetDeadline,
              Replace, TimerFires, TimerCloses, TypeOK
<1>7. TokenInv'
  BY <1>1 DEF IInv, TokenInv, reading, bytes, Tunnel, Notify, CloseFailed, Close, SetDeadline,
              TimerFires, TimerCloses, Token, feeding, TypeOK
<1> QED
  BY <1>2, <1>3, <1>4, <1>5, <1>6, <1>7 DEF IInv

\* The steps of a Read that only look.
LEMMA Looks ==
    ASSUME IInv, (\E n \in ReadSizes : ReadBegins(n)) \/ LookForClose \/ LookAgain \/ Wake
    PROVE  IInv'
<1>1. /\ UNCHANGED bytes /\ UNCHANGED <<feeding, done>>
  BY DEF ReadBegins, LookForClose, LookAgain, Wake, bytes, feeding, buffer
<1>2. TypeOK'
  BY DEF ReadBegins, LookForClose, LookAgain, Wake, Return, feeding, buffer, deadline, IInv, TypeOK
<1>3. PlacesInv'
  BY <1>1, BytesStay DEF IInv
<1>4. EofMeansAll'
  <2>1. CASE outcome' = "eof" /\ outcome # "eof"
    <3>1. LookAgain /\ ~Pending /\ reader = "closed"
      BY <2>1 DEF ReadBegins, LookForClose, LookAgain, Wake, Return
    <3>2. chunks = <<>> /\ ~failure /\ current = <<>> /\ done
      BY <3>1 DEF Pending, IInv, ReaderInv
    <3>3. buffered = 0
      <4>1. PICK begin \in Begins : begin[1] + buffered = begin[Len(chunks) + 1]
        BY DEF IInv, PlacesInv
      <4>2. Len(chunks) = 0 /\ begin[1] \in 0..MaxBytes
        BY <3>2, <4>1 DEF Begins
      <4> QED
        BY <4>1, <4>2, SizesAssumption DEF IInv, TypeOK
    <3> QED
      BY <1>1, <3>2, <3>3 DEF IInv, CountInv, TypeOK, EofMeansAll, bytes
  <2>2. CASE ~(outcome' = "eof" /\ outcome # "eof")
    BY <1>1, <2>2 DEF IInv, EofMeansAll, bytes, feeding
  <2> QED
    BY <2>1, <2>2
<1>5. CountInv'
  BY <1>1 DEF IInv, CountInv, Drops, bytes, feeding
<1>6. ReaderInv'
  BY <1>1 DEF IInv, ReaderInv, bytes, ReadBegins, LookForClose, LookAgain, Wake, Return
<1>7. TokenInv'
  BY <1>1 DEF IInv, TokenInv, bytes, feeding, ReadBegins, LookForClose, LookAgain, Wake, Return
<1> QED
  BY <1>2, <1>3, <1>4, <1>5, <1>6, <1>7 DEF IInv

-----------------------------------------------------------------------------
(* The steps that move bytes.                                              *)

\* feed's critical section.
LEMMA FeedStep ==
    ASSUME IInv, NEW n \in FrameSizes, Feed(n)
    PROVE  IInv'
<1>1. /\ n \in Nat /\ MaxBytes \in Nat /\ maxStreamBuffer \in Nat /\ sent + n <= MaxBytes
      /\ sent' = sent + n /\ tunnel = "ready" /\ sent \in 0..MaxBytes /\ accepted \in 0..MaxBytes
      /\ UNCHANGED <<done, notify, reading, waitingOn, deadline>>
  BY SizesAssumption DEF Feed, IInv, TypeOK
<1>2. CASE Drops /\ UNCHANGED <<tunnel, accepted, buffer>>
  <2>1. UNCHANGED bytes /\ sent' \in 0..MaxBytes
    BY <1>1, <1>2 DEF bytes, reading, buffer
  <2>2. TypeOK'
    BY <1>1, <1>2, <2>1 DEF IInv, TypeOK, bytes, reading, deadline
  <2>3. PlacesInv'
    BY <2>1, BytesStay DEF IInv
  <2>4. EofMeansAll' /\ ReaderInv' /\ TokenInv'
    BY <1>1, <1>2, <2>1 DEF IInv, EofMeansAll, ReaderInv, TokenInv, bytes, reading
  <2>5. CountInv'
    BY <1>1, <1>2, <2>1 DEF IInv, CountInv, Drops, bytes
  <2> QED
    BY <2>2, <2>3, <2>4, <2>5 DEF IInv
<1>3. CASE /\ ~Drops
           /\ failure' = TRUE /\ chunks' = <<>> /\ buffered' = 0 /\ tunnel' = "closing"
           /\ UNCHANGED accepted
  <2>1. TypeOK'
    BY <1>1, <1>3 DEF IInv, TypeOK, reading, deadline
  <2>2. PlacesInv'
    <3> DEFINE begin == [k \in 1..1 |-> received + Len(current)]
    <3>1. Len(current) \in Nat /\ received + Len(current) \in 0..MaxBytes
      BY <1>1 DEF IInv, TypeOK, CountInv
    <3>2. begin \in Begins'
      BY <1>1, <1>3, <3>1 DEF Begins, reading
    <3>3. \A i \in DOMAIN current' : current'[i] = received' + i
      BY <1>1 DEF IInv, PlacesInv, reading
    <3>4. /\ begin[1] + buffered' = begin[Len(chunks') + 1]
          /\ \A k \in DOMAIN begin : begin[k] <= begin[Len(chunks') + 1]
      BY <1>3, <3>1
    <3> HIDE DEF begin
    <3> QED
      BY <1>3, <3>2, <3>3, <3>4 DEF PlacesInv
  <2>3. EofMeansAll' /\ ReaderInv' /\ TokenInv'
    BY <1>1, <1>3 DEF IInv, EofMeansAll, ReaderInv, TokenInv, reading, Drops
  <2>4. CountInv'
    BY <1>1, <1>3 DEF IInv, CountInv, Drops, TypeOK, reading
  <2> QED
    BY <2>1, <2>2, <2>3, <2>4 DEF IInv
<1>4. CASE /\ ~Drops /\ ~Overflows(n)
           /\ chunks' = Append(chunks, Frame(n)) /\ buffered' = buffered + n
           /\ accepted' = accepted + n /\ tunnel' = "notifying"
           /\ UNCHANGED failure
  <2>1. accepted = sent
    BY <1>4 DEF IInv, CountInv
  <2>2. /\ Frame(n) \in Seq(1..MaxBytes) /\ Len(Frame(n)) = n
        /\ \A i \in DOMAIN Frame(n) : Frame(n)[i] = accepted + i
    BY <1>1, <2>1 DEF Frame
  <2>3. TypeOK'
    BY <1>1, <1>4, <2>1, <2>2 DEF IInv, TypeOK, reading, deadline, Overflows
  <2>4. PlacesInv'
    <3>1. PICK begin \in Begins :
             /\ \A k \in DOMAIN chunks : \A i \in DOMAIN chunks[k] : chunks[k][i] = begin[k] + i
             /\ begin[Len(chunks) + 1] = accepted
             /\ begin[1] + buffered = begin[Len(chunks) + 1]
             /\ \A k \in DOMAIN begin : begin[k] <= begin[Len(chunks) + 1]
      BY <1>4 DEF IInv, PlacesInv, Drops
    <3> DEFINE next == [k \in 1..(Len(chunks) + 2) |-> IF k = Len(chunks) + 2 THEN accepted + n ELSE begin[k]]
    <3>2. /\ Len(chunks) \in Nat /\ Len(chunks') = Len(chunks) + 1
          /\ DOMAIN chunks' = 1..(Len(chunks) + 1)
          /\ \A k \in DOMAIN chunks : k # Len(chunks) + 1 /\ k + 1 # Len(chunks) + 2 /\ chunks'[k] = chunks[k]
          /\ chunks'[Len(chunks) + 1] = Frame(n)
      BY <1>4 DEF IInv, TypeOK
    <3>3. /\ begin \in [1..(Len(chunks) + 1) -> 0..MaxBytes]
          /\ begin[1] = received + Len(current)
          /\ \A k \in DOMAIN chunks : begin[k + 1] = begin[k] + Len(chunks[k])
      BY <3>1 DEF Begins
    <3>4. /\ next \in [1..(Len(chunks) + 2) -> 0..MaxBytes]
          /\ \A k \in 1..(Len(chunks) + 1) : next[k] = begin[k]
          /\ next[Len(chunks) + 2] = accepted + n
      BY <1>1, <2>1, <3>2, <3>3
    <3> HIDE DEF next
    <3>5. \A k \in DOMAIN chunks' : next[k + 1] = next[k] + Len(chunks'[k])
      <4> SUFFICES ASSUME NEW k \in DOMAIN chunks'
                   PROVE  next[k + 1] = next[k] + Len(chunks'[k])
        OBVIOUS
      <4>1. CASE k = Len(chunks) + 1
        BY <2>2, <3>1, <3>2, <3>4, <4>1
      <4>2. CASE k # Len(chunks) + 1
        <5>1. k \in DOMAIN chunks /\ k \in 1..(Len(chunks) + 1) /\ k + 1 \in 1..(Len(chunks) + 1)
          BY <3>2, <4>2 DEF IInv, TypeOK
        <5> QED
          BY <3>2, <3>3, <3>4, <5>1
      <4> QED
        BY <4>1, <4>2
    <3>6. next \in Begins'
      BY <1>1, <3>2, <3>3, <3>4, <3>5 DEF Begins, reading
    <3>7. \A k \in DOMAIN chunks' : \A i \in DOMAIN chunks'[k] : chunks'[k][i] = next[k] + i
      <4> SUFFICES ASSUME NEW k \in DOMAIN chunks'
                   PROVE  \A i \in DOMAIN chunks'[k] : chunks'[k][i] = next[k] + i
        OBVIOUS
      <4>1. CASE k = Len(chunks) + 1
        <5>1. chunks'[k] = Frame(n) /\ next[k] = accepted
          BY <3>1, <3>2, <3>4, <4>1
        <5> QED
          BY <2>2, <5>1
      <4>2. CASE k # Len(chunks) + 1
        <5>1. k \in DOMAIN chunks /\ k \in 1..(Len(chunks) + 1)
          BY <3>2, <4>2 DEF IInv, TypeOK
        <5> QED
          BY <3>1, <3>2, <3>4, <5>1
      <4> QED
        BY <4>1, <4>2
    <3>8. next[1] + buffered' = next[Len(chunks') + 1] /\ next[Len(chunks') + 1] = accepted'
      <4>1. Len(chunks') + 1 = Len(chunks) + 2 /\ 1 \in 1..(Len(chunks) + 1)
        BY <3>2
      <4>2. next[1] = begin[1] /\ begin[1] \in Nat /\ begin[1] + buffered = accepted
        BY <1>1, <3>1, <3>3, <3>4, <4>1
      <4> QED
        <5>1. /\ buffered \in Nat /\ accepted \in Nat /\ n \in Nat
              /\ buffered' = buffered + n /\ accepted' = accepted + n
          BY <1>1, <1>4 DEF IInv, TypeOK
        <5>2. next[Len(chunks') + 1] = accepted + n
          BY <3>4, <4>1
        <5> QED
          BY <4>2, <5>1, <5>2
    <3>9. \A i \in DOMAIN current' : current'[i] = received' + i
      BY <1>1 DEF IInv, PlacesInv, reading
    <3>10. \A k \in DOMAIN next : next[k] <= next[Len(chunks') + 1]
      <4>1. DOMAIN next = 1..(Len(chunks) + 2) /\ DOMAIN begin = 1..(Len(chunks) + 1)
        BY <3>3, <3>4
      <4>2. \A k \in 1..(Len(chunks) + 1) : next[k] <= accepted
        BY <3>1, <3>4, <4>1
      <4>3. next[Len(chunks') + 1] = accepted + n /\ accepted \in Nat /\ n \in Nat
        BY <1>1, <3>2, <3>4 DEF IInv, TypeOK
      <4>4. \A k \in 1..(Len(chunks) + 1) : next[k] <= accepted + n
        <5> SUFFICES ASSUME NEW k \in 1..(Len(chunks) + 1)
                     PROVE  next[k] <= accepted + n
          OBVIOUS
        <5>1. k \in 1..(Len(chunks) + 2)
          BY <3>2
        <5>2. next[k] <= accepted /\ next[k] \in 0..MaxBytes
          BY <3>4, <4>2, <5>1
        <5> QED
          BY <4>3, <5>2, SizesAssumption
      <4>5. next[Len(chunks) + 2] <= accepted + n
        BY <3>4, <4>3
      <4>6. \A k \in DOMAIN next : k \in 1..(Len(chunks) + 1) \/ k = Len(chunks) + 2
        BY <3>2, <4>1
      <4> QED
        BY <4>3, <4>4, <4>5, <4>6
    <3> QED
      BY <3>6, <3>7, <3>8, <3>9, <3>10 DEF PlacesInv
  <2>5. EofMeansAll' /\ ReaderInv' /\ TokenInv'
    BY <1>1, <1>4 DEF IInv, EofMeansAll, ReaderInv, TokenInv, reading, Drops
  <2>6. CountInv'
    <3>1. /\ current' = current /\ received' = received /\ Len(current) \in Nat
          /\ received \in Nat /\ buffered \in Nat /\ accepted \in Nat
          /\ ~failure' /\ received + Len(current) + buffered = accepted
      BY <1>1, <1>4 DEF IInv, CountInv, Drops, TypeOK, reading
    <3> QED
      BY <1>1, <1>4, <2>1, <3>1 DEF CountInv, Drops
  <2> QED
    BY <2>3, <2>4, <2>5, <2>6 DEF IInv
<1> QED
  BY <1>2, <1>3, <1>4 DEF Feed

\* The critical section of Read.
LEMMA TakeStep ==
    ASSUME IInv, Take
    PROVE  IInv'
<1>1. /\ reader = "looping" /\ current = <<>> /\ outcome = "none"
      /\ UNCHANGED <<feeding, done, notify, received, waitingOn, deadline>>
  BY DEF Take, IInv, ReaderInv
<1>2. CASE UNCHANGED <<buffer, current>>
  <2>1. UNCHANGED bytes
    BY <1>1, <1>2 DEF bytes, feeding, buffer
  <2>2. TypeOK'
    BY <1>1, <1>2 DEF Take, Return, IInv, TypeOK, feeding, buffer, deadline
  <2>3. PlacesInv'
    BY <2>1, BytesStay DEF IInv
  <2>4. EofMeansAll' /\ ReaderInv' /\ TokenInv'
    BY <1>1, <1>2 DEF Take, Return, IInv, EofMeansAll, ReaderInv, TokenInv, feeding, buffer
  <2>5. CountInv'
    BY <1>1, <2>1 DEF IInv, CountInv, Drops, bytes, feeding
  <2> QED
    BY <2>2, <2>3, <2>4, <2>5 DEF IInv
<1>3. CASE /\ ~failure /\ chunks # <<>>
           /\ current' = Head(chunks) /\ chunks' = Tail(chunks)
           /\ buffered' = BufferedAfterTake
           /\ reader' = "copying"
           /\ UNCHANGED <<failure, outcome, size>>
  <2>1. /\ Len(chunks) \in Nat \ {0} /\ chunks \in Seq(Seq(1..MaxBytes))
        /\ chunks[1] \in Seq(1..MaxBytes) /\ Len(chunks[1]) \in Nat
        /\ current' = chunks[1] /\ Len(chunks') = Len(chunks) - 1
        /\ chunks' \in Seq(Seq(1..MaxBytes))
        /\ \A k \in 1..(Len(chunks) - 1) : chunks'[k] = chunks[k + 1]
        /\ buffered' = buffered - Len(chunks[1])
        /\ MaxBytes \in Nat /\ received \in Nat /\ buffered \in 0..maxStreamBuffer /\ accepted \in Nat
    BY <1>3, SizesAssumption DEF IInv, TypeOK, BufferedAfterTake
  <2>2. PICK begin \in Begins :
           /\ \A k \in DOMAIN chunks : \A i \in DOMAIN chunks[k] : chunks[k][i] = begin[k] + i
           /\ begin[Len(chunks) + 1] = accepted
           /\ begin[1] + buffered = begin[Len(chunks) + 1]
           /\ \A k \in DOMAIN begin : begin[k] <= begin[Len(chunks) + 1]
    BY <1>3 DEF IInv, PlacesInv
  <2>3. /\ begin \in [1..(Len(chunks) + 1) -> 0..MaxBytes]
        /\ begin[1] = received
        /\ \A k \in 1..Len(chunks) : begin[k + 1] = begin[k] + Len(chunks[k])
    <3>1. Len(current) = 0 /\ DOMAIN chunks = 1..Len(chunks)
      BY <1>1, <2>1
    <3>2. /\ begin \in [1..(Len(chunks) + 1) -> 0..MaxBytes]
          /\ begin[1] = received + Len(current)
          /\ \A k \in DOMAIN chunks : begin[k + 1] = begin[k] + Len(chunks[k])
      BY <2>2 DEF Begins
    <3>3. begin[1] = received
      BY <2>1, <3>1, <3>2
    <3> QED
      BY <3>1, <3>2, <3>3
  <2> DEFINE next == [k \in 1..Len(chunks) |-> begin[k + 1]]
  <2>4. /\ next \in [1..Len(chunks) -> 0..MaxBytes]
        /\ \A k \in 1..Len(chunks) : next[k] = begin[k + 1]
    <3>1. \A k \in 1..Len(chunks) : k + 1 \in 1..(Len(chunks) + 1)
      BY <2>1
    <3> QED
      BY <2>3, <3>1
  <2> HIDE DEF next
  <2>5. next[1] = received + Len(chunks[1])
    <3>1. 1 \in 1..Len(chunks)
      BY <2>1
    <3> QED
      BY <2>3, <2>4, <3>1
  <2>6. Len(chunks') + 1 = Len(chunks) /\ DOMAIN chunks' = 1..(Len(chunks) - 1)
    BY <2>1
  <2>7. next[Len(chunks') + 1] = accepted
    <3>1. Len(chunks) \in 1..Len(chunks)
      BY <2>1
    <3> QED
      BY <2>2, <2>4, <2>6, <3>1
  <2>8. \A k \in 1..Len(chunks) : next[k] <= next[Len(chunks') + 1]
    <3>1. \A k \in 1..Len(chunks) : k + 1 \in DOMAIN begin
      BY <2>1, <2>3
    <3> QED
      BY <2>2, <2>4, <2>7, <3>1
  <2>9. buffered' \in 0..maxStreamBuffer /\ next[1] + buffered' = accepted
    <3>1. received + Len(chunks[1]) <= accepted
      BY <2>1, <2>5, <2>7, <2>8
    <3>2. received + buffered = accepted
      BY <2>2, <2>3
    <3>3. /\ received \in Nat /\ buffered \in 0..maxStreamBuffer /\ Len(chunks[1]) \in Nat
          /\ accepted \in Nat /\ maxStreamBuffer \in Nat
          /\ buffered' = buffered - Len(chunks[1])
      BY <2>1, SizesAssumption
    <3> QED
      BY <2>5, <3>1, <3>2, <3>3
  <2>10. next \in Begins'
    <3>1. \A k \in 1..(Len(chunks) - 1) : next[k + 1] = next[k] + Len(chunks'[k])
      <4> SUFFICES ASSUME NEW k \in 1..(Len(chunks) - 1)
                   PROVE  next[k + 1] = next[k] + Len(chunks'[k])
        OBVIOUS
      <4>1. k \in 1..Len(chunks) /\ k + 1 \in 1..Len(chunks)
        BY <2>1
      <4> QED
        BY <2>1, <2>3, <2>4, <4>1
    <3> QED
      BY <1>1, <2>1, <2>4, <2>5, <2>6, <3>1 DEF Begins
  <2>11. PlacesInv'
    <3>1. \A k \in DOMAIN chunks' : \A i \in DOMAIN chunks'[k] : chunks'[k][i] = next[k] + i
      <4> SUFFICES ASSUME NEW k \in 1..(Len(chunks) - 1)
                   PROVE  \A i \in DOMAIN chunks'[k] : chunks'[k][i] = next[k] + i
        BY <2>6
      <4>1. k \in 1..Len(chunks) /\ k + 1 \in DOMAIN chunks
        BY <2>1
      <4>2. chunks'[k] = chunks[k + 1]
        BY <2>1
      <4>3. \A i \in DOMAIN chunks[k + 1] : chunks[k + 1][i] = begin[k + 1] + i
        BY <2>2, <4>1
      <4>4. next[k] = begin[k + 1]
        BY <2>4, <4>1
      <4> QED
        BY <4>2, <4>3, <4>4
    <3>2. \A i \in DOMAIN current' : current'[i] = received' + i
      <4>1. 1 \in DOMAIN chunks
        BY <2>1
      <4> QED
        BY <1>1, <2>1, <2>2, <2>3, <4>1
    <3>3. DOMAIN next = 1..Len(chunks)
      BY <2>4
    <3>4. UNCHANGED accepted
      BY <1>1 DEF feeding
    <3> QED
      BY <2>7, <2>8, <2>9, <2>10, <3>1, <3>2, <3>3, <3>4 DEF PlacesInv
  <2>12. TypeOK'
    BY <1>1, <1>3, <2>1, <2>9 DEF IInv, TypeOK, feeding, deadline
  <2>13. EofMeansAll' /\ ReaderInv' /\ TokenInv'
    BY <1>1, <1>3 DEF IInv, EofMeansAll, ReaderInv, TokenInv, feeding
  <2>14. CountInv'
    <3>1. received + Len(current') + buffered' = accepted
      BY <2>1, <2>5, <2>9
    <3> QED
      BY <1>1, <1>3, <2>1, <3>1 DEF IInv, CountInv, Drops, feeding
  <2> QED
    BY <2>11, <2>12, <2>13, <2>14 DEF IInv
<1> QED
  BY <1>1, <1>2, <1>3 DEF Take

\* What is copied, and the rest.
LEMMA CopiedFacts ==
    ASSUME TypeOK, size \in ReadSizes
    PROVE  /\ Copied \in 0..Len(current)
           /\ Rest \in Seq(1..MaxBytes) /\ Len(Rest) = Len(current) - Copied
           /\ \A i \in DOMAIN Rest : Copied + i \in DOMAIN current /\ Rest[i] = current[Copied + i]
<1>1. /\ current \in Seq(1..MaxBytes) /\ Len(current) \in Nat /\ size \in Nat
      /\ Copied \in 0..Len(current)
  BY SizesAssumption DEF TypeOK, Copied
<1> HIDE DEF Copied
<1>2. \A i \in (Copied + 1)..Len(current) : current[i] \in 1..MaxBytes
  <2>1. \A i \in (Copied + 1)..Len(current) : i \in 1..Len(current)
    BY <1>1
  <2>2. \A i \in 1..Len(current) : current[i] \in 1..MaxBytes
    BY <1>1, ElementOfSeq
  <2> QED
    BY <2>1, <2>2
<1>3. /\ Rest \in Seq(1..MaxBytes)
      /\ Len(Rest) = IF Copied + 1 <= Len(current) THEN Len(current) - (Copied + 1) + 1 ELSE 0
      /\ \A i \in 1..(Len(current) - (Copied + 1) + 1) : Rest[i] = current[Copied + 1 + i - 1]
  BY <1>1, <1>2, SubSeqProperties DEF Rest
<1>4. Len(Rest) = Len(current) - Copied
  BY <1>1, <1>3
<1>5. DOMAIN Rest = 1..(Len(current) - Copied)
  BY <1>3, <1>4
<1> QED
  BY <1>1, <1>3, <1>4, <1>5

\* Read copies what fits.
LEMMA CopyStep ==
    ASSUME IInv, Copy
    PROVE  IInv'
<1>1. /\ reader = "copying" /\ size \in ReadSizes
      /\ received' = received + Copied /\ current' = Rest /\ reader' = "idle" /\ outcome' = "data" /\ size' = 0
      /\ UNCHANGED <<feeding, buffer, done, notify, waitingOn, deadline>>
  BY DEF Copy, Return, IInv, ReaderInv
<1>2. /\ Copied \in 0..Len(current)
      /\ Rest \in Seq(1..MaxBytes) /\ Len(Rest) = Len(current) - Copied
      /\ \A i \in DOMAIN Rest : Copied + i \in DOMAIN current /\ Rest[i] = current[Copied + i]
  BY <1>1, CopiedFacts DEF IInv
<1>3. /\ received \in Nat /\ Len(current) \in Nat /\ buffered \in Nat /\ accepted \in 0..MaxBytes
      /\ MaxBytes \in Nat /\ received + Len(current) + buffered <= accepted
  BY SizesAssumption DEF IInv, TypeOK, CountInv
<1>4. received' \in 0..MaxBytes /\ received' + Len(current') = received + Len(current)
  BY <1>1, <1>2, <1>3
<1>5. TypeOK'
  BY <1>1, <1>2, <1>4 DEF IInv, TypeOK, feeding, buffer, deadline
<1>6. PlacesInv'
  <2>1. \A i \in DOMAIN current' : current'[i] = received' + i
    <3> SUFFICES ASSUME NEW i \in DOMAIN Rest PROVE Rest[i] = received' + i
      BY <1>1
    <3>1. Copied + i \in DOMAIN current /\ Rest[i] = current[Copied + i] /\ i \in Nat /\ Copied \in Nat
      BY <1>2, <1>3
    <3> QED
      BY <1>1, <1>3, <3>1 DEF IInv, PlacesInv
  <2>2. Begins' = Begins
    BY <1>1, <1>4 DEF Begins, buffer
  <2> QED
    BY <1>1, <2>1, <2>2 DEF IInv, PlacesInv, feeding, buffer
<1>7. EofMeansAll' /\ ReaderInv' /\ TokenInv'
  BY <1>1 DEF IInv, EofMeansAll, ReaderInv, TokenInv, feeding, buffer
<1>8. CountInv'
  BY <1>1, <1>4 DEF IInv, CountInv, Drops, feeding, buffer
<1> QED
  BY <1>5, <1>6, <1>7, <1>8 DEF IInv

-----------------------------------------------------------------------------
(* The theorems.                                                           *)

\* An empty stream.
LEMMA InitIInv == Init => IInv
<1> SUFFICES ASSUME Init PROVE IInv
  OBVIOUS
<1>1. TypeOK
  <2>1. <<>> \in Seq(1..MaxBytes) /\ <<>> \in Seq(Seq(1..MaxBytes))
    OBVIOUS
  <2>2. 0 \in 0..MaxBytes /\ 0 \in 0..maxStreamBuffer
    BY SizesAssumption
  <2> QED
    BY <2>1, <2>2 DEF Init, TypeOK
<1>2. PlacesInv
  <2> DEFINE begin == [k \in 1..1 |-> 0]
  <2>1. begin \in Begins
    BY SizesAssumption DEF Init, Begins
  <2> QED
    BY <2>1 DEF Init, PlacesInv
<1>3. EofMeansAll /\ ReaderInv /\ TokenInv /\ CountInv
  BY DEF Init, EofMeansAll, ReaderInv, TokenInv, CountInv
<1> QED
  BY <1>1, <1>2, <1>3 DEF IInv

\* Every step keeps the invariant.
LEMMA NextKeepsIInv ==
    ASSUME IInv, [Next]_vars
    PROVE  IInv'
<1>1. CASE UNCHANGED vars
  <2>1. UNCHANGED <<bytes, feeding, done, notify, reading, waitingOn, deadline>>
    BY <1>1 DEF vars, bytes, feeding, buffer, reading, deadline
  <2>2. PlacesInv'
    BY <2>1, BytesStay DEF IInv
  <2>3. TypeOK'
    BY <2>1 DEF IInv, TypeOK, bytes, feeding, reading, deadline
  <2>4. EofMeansAll' /\ ReaderInv' /\ TokenInv' /\ CountInv'
    BY <2>1 DEF IInv, EofMeansAll, ReaderInv, TokenInv, CountInv, Drops, bytes, feeding, reading, deadline
  <2> QED
    BY <2>2, <2>3, <2>4 DEF IInv
<1> QED
  BY <1>1, FeedStep, AroundTheBuffer, Looks, TakeStep, CopyStep DEF Next, Read

\* The inductive invariant: a Read is where the bytes it has seen put it, and the token
\* and the close are where a Read that waits looks for them.
THEOREM Inductive == Spec => []IInv
  BY InitIInv, NextKeepsIInv, PTL DEF Spec

\* TypeOK, for every size of the buffer, of the frames and of the reads.
THEOREM TypeCorrect == Spec => []TypeOK
  BY Inductive, PTL DEF IInv

\* Read returns the bytes feed kept, in order, each once, and a clean EOF only after all
\* of them; c.buffered counts what is kept, whatever the sizes.
THEOREM Delivered == Spec => []BytesAreDelivered
<1>1. PlacesInv => ReadsAreAPrefix
  BY DEF PlacesInv, ReadsAreAPrefix
<1>2. IInv => BytesAreDelivered
  BY <1>1 DEF IInv, BytesAreDelivered
<1> QED
  BY <1>2, Inductive, PTL

\* No Read sleeps over bytes, an END, an overflow or a deadline.
THEOREM Woken == Spec => []WaitingReadsAreWoken
<1>1. IInv => WaitingReadsAreWoken
  BY DEF IInv, TokenInv, ReaderInv, WaitingReadsAreWoken, NoLostWakeup, DeadlineReachesTheReader, PastDeadline
<1> QED
  BY <1>1, Inductive, PTL

=============================================================================
