------------------------- MODULE UartReceiverProofs -------------------------
(***************************************************************************)
(* Proofs about UartReceiver: the reassembly buffer stays inside rx_buf,   *)
(* no frame is invented unless a byte was lost, and a whole packet after a *)
(* silence is returned.  All of this also holds next to the second         *)
(* receiver of StreamParser, which returns the same frames.                *)
(***************************************************************************)
EXTENDS StreamParser, SequenceTheorems, TLAPS

RxInv == TypeOK /\ BufferBounded

Queued == [at : 1..24, calm : BOOLEAN]

LEMMA PacketBytes == \A p \in 1..24 : Packet[p] \in 0..255
  BY UartAssumption DEF UartAssumption, Packet

\* The length field of a buffer that holds a header is a natural number.
LEMMA LengthIsNat ==
  ASSUME NEW b \in Seq(0..255), Len(b) >= 16
  PROVE  LengthField(b) \in Nat
<1>1. Len(b) \in Nat /\ 7 \in 1..Len(b) /\ 8 \in 1..Len(b)
  OBVIOUS
<1>2. b[7] \in 0..255 /\ b[8] \in 0..255
  BY <1>1, ElementOfSeq
<1>3. \A x, y \in 0..255 : x * 256 + y \in Nat
  OBVIOUS
<1>4. b[7] * 256 + b[8] \in Nat
  BY <1>2, <1>3
<1> QED
  BY <1>4 DEF LengthField

\* One byte keeps the buffer shorter than a header and 24 bytes of payload.
LEMMA TakeBounded ==
  ASSUME NEW byte \in 0..255, RxInv, Take(byte)
  PROVE  buf' \in Seq(0..255) /\ Len(buf') < 40
<1> DEFINE b == Append(buf, byte)
<1>1. b \in Seq(0..255) /\ Len(b) = Len(buf) + 1
  BY DEF RxInv, TypeOK
<1>2. CASE buf' = <<>>
  BY <1>2
<1>3. CASE buf' = b /\ Len(b) < HEADER
  BY <1>1, <1>3 DEF HEADER
<1>4. CASE /\ buf' = b /\ Len(b) >= HEADER
           /\ LengthOK(LengthField(b)) /\ Len(b) < Total(b)
  <2>1. LengthField(b) \in Nat
    BY <1>1, <1>4, LengthIsNat DEF HEADER
  <2>2. Total(b) <= 40
    BY <1>4, <2>1 DEF LengthOK, Total, HEADER
  <2> QED
    BY <1>1, <1>4, <2>1, <2>2 DEF Total, HEADER, LengthOK
<1>5. Len(b) \in Nat
  BY <1>1
<1> HIDE DEF b
<1> QED
  BY <1>2, <1>3, <1>4, <1>5 DEF Take, HEADER, b

LEMMA InitRxInv == Init => RxInv
<1> SUFFICES ASSUME Init PROVE RxInv
  OBVIOUS
<1>1. /\ pos \in 1..24 /\ line = <<>> /\ buf = <<>>
      /\ pc \in {"top", "poll"} /\ lost \in 0..LOSSES
      /\ quiet \in 0..SILENCE_CAP /\ idle \in 0..SILENCE_CAP
      /\ due \in 0..SILENCE_CAP
      /\ out \in {"none", "event", "skip", "resync", "overflow"}
  BY UartAssumption DEF Init, UartAssumption
<1>2. split \in BOOLEAN /\ down \in BOOLEAN /\ calm \in BOOLEAN /\ torn \in BOOLEAN
  BY Zenon DEF Init
<1> QED
  BY <1>1, <1>2 DEF RxInv, TypeOK, BufferBounded

LEMMA UpInRange ==
  ASSUME NEW n \in 0..SILENCE_CAP
  PROVE  Up(n) \in 0..SILENCE_CAP
  BY UartAssumption DEF UartAssumption, Up

\* The UART loses its first byte.
LEMMA LosePreserves ==
  ASSUME RxInv, LoseByte
  PROVE  RxInv'
<1>1. line \in Seq(Queued) /\ Len(line) \in Nat /\ Len(line) > 0
  BY DEF LoseByte, RxInv, TypeOK, Queued
<1>2. \A k \in 1..(Len(line) - 1) : line[k + 1].at \in 1..24
  <2> TAKE k \in 1..(Len(line) - 1)
  <2>1. k + 1 \in 1..Len(line)
    BY <1>1
  <2>2. line[k + 1] \in Queued
    BY <1>1, <2>1, ElementOfSeq
  <2> QED
    BY <2>2 DEF Queued
<1>3. line' \in Seq(Queued)
  <2> DEFINE n == Len(line) - 1
             f == [k \in 1..n |-> [at |-> line[k + 1].at, calm |-> FALSE]]
  <2>1. line' = f
    BY DEF LoseByte
  <2>2. n \in Nat
    BY <1>1
  <2>3. \A k \in 1..n : f[k] \in Queued
    BY <1>2 DEF Queued
  <2>4. f \in [1..n -> Queued]
    BY <2>3
  <2> HIDE DEF n, f
  <2> QED
    BY <2>1, <2>2, <2>4, SeqDef
<1>4. calm' \in BOOLEAN /\ torn' \in BOOLEAN
  BY Zenon DEF LoseByte
<1>5. lost' \in 0..LOSSES
  BY UartAssumption DEF LoseByte, RxInv, TypeOK, UartAssumption
<1>6. UNCHANGED <<pos, split, down, quiet, pc, buf, idle, out, due>>
  BY DEF LoseByte
<1> QED
  BY <1>3, <1>4, <1>5, <1>6 DEF RxInv, TypeOK, BufferBounded, Queued

LEMMA StepRxInv == RxInv /\ [Next]_uartVars => RxInv'
<1> SUFFICES ASSUME RxInv, [Next]_uartVars PROVE RxInv'
  OBVIOUS
<1> USE DEF RxInv, TypeOK, BufferBounded
<1>1. CASE WriteByte
  <2>1. Len(Packet) = 24
    BY DEF Packet
  <2>2. /\ pos' \in 1..24 /\ quiet' \in 0..SILENCE_CAP
        /\ UNCHANGED <<pc, buf, idle, out, lost, torn, due>>
    BY <1>1, <2>1, UartAssumption DEF WriteByte, UartAssumption
  <2>3. calm' \in BOOLEAN /\ split' \in BOOLEAN /\ down' \in BOOLEAN
    <3>1. (quiet > RESYNC + 2) \in BOOLEAN /\ (pos # 1 /\ split) \in BOOLEAN
      BY UartAssumption DEF UartAssumption
    <3> QED
      BY <1>1, <3>1, Zenon DEF WriteByte
  <2>4. line' = Append(line, [at |-> pos, calm |-> calm'])
    BY <1>1 DEF WriteByte
  <2>5. line' \in Seq([at : 1..24, calm : BOOLEAN])
    BY <2>3, <2>4
  <2> QED
    BY <2>2, <2>3, <2>5
<1>2. CASE Abort
  <2>1. split' \in BOOLEAN /\ down' \in BOOLEAN
    BY <1>2, Zenon DEF Abort
  <2>2. /\ pos' = 1
        /\ UNCHANGED <<line, calm, quiet, pc, buf, idle, out, lost, torn, due>>
    BY <1>2 DEF Abort
  <2> QED
    BY <2>1, <2>2
<1>3. CASE TopLoop
  <2>1. /\ pc' = "poll" /\ buf' \in {<<>>, buf}
        /\ UNCHANGED <<pos, split, down, line, calm, quiet, idle, out, lost,
                       torn, due>>
    BY <1>3 DEF TopLoop, Resync
  <2>2. buf' \in Seq(0..255) /\ Len(buf') < 40
    <3>1. CASE buf' = buf
      BY <3>1
    <3>2. CASE buf' = <<>>
      BY <3>2
    <3> QED
      BY <2>1, <3>1, <3>2
  <2> QED
    BY <2>1, <2>2
<1>4. CASE PollByte
  <2>1. Head(line) \in [at : 1..24, calm : BOOLEAN]
        /\ Tail(line) \in Seq([at : 1..24, calm : BOOLEAN])
    BY <1>4, HeadTailProperties DEF PollByte
  <2>2. Packet[Head(line).at] \in 0..255
    BY <2>1, PacketBytes
  <2>3. /\ buf' \in Seq(0..255) /\ Len(buf') < 40
        /\ out' \in {"none", "event", "skip", "resync", "overflow"}
    <3>1. out' \in {"none", "event", "skip", "resync", "overflow"}
      BY <1>4 DEF PollByte, Take
    <3> QED
      BY <1>4, <2>2, <3>1, TakeBounded DEF PollByte
  <2>4. torn' \in BOOLEAN
    <3>1. (buf # <<>> /\ torn) \in BOOLEAN
      OBVIOUS
    <3> QED
      BY <1>4, <3>1, Zenon DEF PollByte
  <2>5. /\ idle' \in 0..SILENCE_CAP /\ due' \in 0..SILENCE_CAP
        /\ pc' \in {"top", "poll"} /\ line' = Tail(line)
        /\ UNCHANGED <<pos, split, down, calm, quiet, lost>>
    BY <1>4, UartAssumption DEF PollByte, UartAssumption
  <2> QED
    BY <2>1, <2>3, <2>4, <2>5
<1>5. CASE Sleep
  <2>1. split' \in BOOLEAN
    <3>1. (pos > 1) \in BOOLEAN
      OBVIOUS
    <3> QED
      BY <1>5, <3>1, Zenon DEF Sleep
  <2>2. /\ idle' \in 0..SILENCE_CAP /\ quiet' \in 0..SILENCE_CAP
        /\ due' \in 0..SILENCE_CAP
    BY <1>5, UpInRange DEF Sleep
  <2>3. /\ pc' = "top"
        /\ UNCHANGED <<pos, down, line, calm, buf, out, lost, torn>>
    BY <1>5 DEF Sleep
  <2> QED
    BY <2>1, <2>2, <2>3
<1>6. CASE LoseByte
  BY <1>6, LosePreserves
<1>7. CASE UNCHANGED uartVars
  BY <1>7 DEF uartVars
<1> QED
  BY <1>1, <1>2, <1>3, <1>4, <1>5, <1>6, <1>7 DEF Next, Receiver

LEMMA RxInvAlways == Spec => []RxInv
  BY InitRxInv, StepRxInv, PTL DEF Spec

\* Every variable keeps its range, whatever is lost.
THEOREM UartTypeCorrect == Spec => []TypeOK
<1>1. RxInv => TypeOK
  BY DEF RxInv
<1> QED
  BY <1>1, RxInvAlways, PTL

\* rx_len never exceeds a header and the longest payload less one byte,
\* whatever bytes arrive or are lost and however they are cut, so that the
\* check of sizeof(rx_buf) in someip_uart_receive is never needed.
THEOREM BufferNeverOverflows == Spec => []BufferBounded
<1>1. RxInv => BufferBounded
  BY DEF RxInv
<1> QED
  BY <1>1, RxInvAlways, PTL

\* A second receiver that listens to the same bytes changes nothing: what holds
\* of the MCU's receiver holds next to the Python one.
THEOREM ListenerIsPassive == StreamSpec => Spec
<1>1. StreamInit => Init
  BY DEF StreamInit
<1>2. [StreamNext]_streamVars => [Next]_uartVars
  BY DEF StreamNext, streamVars, pyVars, uartVars, BothLook, BothTake, Next,
         Receiver, TopLoop
<1> QED
  BY <1>1, <1>2, PTL DEF Spec, StreamSpec

-----------------------------------------------------------------------------
\* Where the bytes in the buffer come from.

\* The position after p, and the i-th one from s on, i up to 40.
After(p) == IF p = 24 THEN 1 ELSE p + 1
From(s, i) ==
  IF s + i - 1 <= 24 THEN s + i - 1
  ELSE IF s + i - 1 <= 48 THEN s + i - 25 ELSE s + i - 49

\* What is in the buffer is dropped before the next byte is polled.
Doomed == pc = "top" /\ idle > RESYNC

\* A tick passes only while no byte waits, so the receiver has been idle for
\* as long as the line has been quiet.
Silence ==
  /\ quiet > 0 => line = <<>>
  /\ quiet <= idle
  /\ pc = "poll" /\ idle > RESYNC => buf = <<>>
  /\ down => pos = 1

\* The bytes on the line follow each other, and the next one that is written
\* follows them unless the writer died.
Contiguous ==
  /\ \A k \in 1..Len(line) :
       k + 1 \in 1..Len(line) => line[k + 1].at = After(line[k].at)
  /\ line # <<>> /\ ~down => pos = After(line[Len(line)].at)

\* A frame in the buffer is one that Take has not finished with.
Unfinished ==
  Len(buf) >= HEADER => LengthOK(LengthField(buf)) /\ Len(buf) < Total(buf)

\* The position of the byte to be polled next.
NextAt == IF line # <<>> THEN line[1].at ELSE pos

\* What the buffer holds was sent in one piece, from position s on, and the
\* next byte continues it.
HeldFrom(s) ==
  /\ \A i \in 1..Len(buf) : buf[i] = Packet[From(s, i)]
  /\ line # <<>> \/ ~down => NextAt = From(s, Len(buf) + 1)

OnePiece == ~torn /\ buf # <<>> /\ ~Doomed => \E s \in 1..24 : HeldFrom(s)

PieceInv == Silence /\ Contiguous /\ Unfinished /\ OnePiece

\* Bytes of a calm packet are only preceded, on the line, by bytes of it.
CalmLine ==
  /\ \A k \in 1..Len(line) :
       k + 1 \in 1..Len(line) /\ line[k + 1].calm
         => line[k].calm /\ line[k + 1].at = line[k].at + 1
  /\ line # <<>> /\ calm /\ pos > 1
       => line[Len(line)].calm /\ pos = line[Len(line)].at + 1

NextIsCalm == IF line # <<>> THEN line[1].calm ELSE calm /\ pos > 1

\* The buffer holds the packet up to where it continues.
HeldUpTo(k) == Len(buf) = k - 1 /\ \A i \in 1..(k - 1) : buf[i] = Packet[i]

\* Before the first byte of a calm packet the buffer is empty or about to be;
\* before each other one it holds the packet so far, and is not late.
CalmHeld ==
  /\ NextIsCalm /\ NextAt = 1 => Doomed \/ (pc = "poll" /\ buf = <<>>)
  /\ NextIsCalm /\ NextAt \in 2..LastOfFrame
       => /\ HeldUpTo(NextAt)
          /\ idle <= 1
          /\ line = <<>> /\ ~split => idle = 0

CalmInv == CalmLine /\ CalmHeld

-----------------------------------------------------------------------------
\* Lemmas about the parts of a step.

LEMMA FromAfter ==
  /\ \A s \in 1..24 : From(s, 1) = s
  /\ \A s \in 1..24, i \in 1..39 : From(s, i + 1) = After(From(s, i))
  /\ \A i \in 1..24 : From(1, i) = i
  BY DEF From, After

LEMMA AppendAt ==
  ASSUME NEW S, NEW q \in Seq(S), NEW x \in S
  PROVE  /\ Append(q, x) \in Seq(S) /\ Len(Append(q, x)) = Len(q) + 1
         /\ \A i \in 1..Len(q) : Append(q, x)[i] = q[i]
         /\ Append(q, x)[Len(q) + 1] = x
  OBVIOUS

LEMMA EmptyLine ==
  RxInv => /\ Len(line) \in Nat /\ (line = <<>> <=> Len(line) = 0)
           /\ Len(buf) \in Nat /\ (buf = <<>> <=> Len(buf) = 0)
           /\ \A k \in 1..Len(line) : line[k] \in Queued
<1> SUFFICES ASSUME RxInv
             PROVE  /\ Len(line) \in Nat /\ (line = <<>> <=> Len(line) = 0)
                    /\ Len(buf) \in Nat /\ (buf = <<>> <=> Len(buf) = 0)
                    /\ \A k \in 1..Len(line) : line[k] \in Queued
  OBVIOUS
<1>1. line \in Seq(Queued) /\ buf \in Seq(0..255)
  BY DEF RxInv, TypeOK, Queued
<1> QED
  BY <1>1, EmptySeq, ElementOfSeq, LenProperties

\* The first byte leaves the line.
Shifted ==
  /\ line # <<>> /\ Len(line') = Len(line) - 1
  /\ \A k \in 1..Len(line') : line'[k].at = line[k + 1].at
  /\ UNCHANGED <<pos, down>>

LEMMA PollShifts ==
  ASSUME RxInv, PollByte
  PROVE  /\ Shifted /\ NextAt = Head(line).at /\ NextAt \in 1..24
         /\ NextIsCalm = Head(line).calm
         /\ \A k \in 1..Len(line') : line'[k] = line[k + 1]
<1>1. line \in Seq(Queued) /\ line # <<>> /\ line' = Tail(line)
  BY DEF RxInv, TypeOK, Queued, PollByte
<1>2. Head(line) = line[1] /\ Head(line) \in Queued
  BY <1>1, HeadTailProperties
<1>3. /\ Len(line') = Len(line) - 1
      /\ \A k \in 1..Len(line') : line'[k] = line[k + 1]
  BY <1>1, HeadTailProperties
<1> QED
  BY <1>1, <1>2, <1>3 DEF Shifted, NextAt, NextIsCalm, Queued, PollByte

LEMMA LoseShifts ==
  ASSUME RxInv, LoseByte
  PROVE  Shifted /\ \A k \in 1..Len(line') : line'[k].calm = FALSE
<1> DEFINE n == Len(line) - 1
           f == [k \in 1..n |-> [at |-> line[k + 1].at, calm |-> FALSE]]
<1>1. line # <<>> /\ Len(line) \in Nat /\ Len(line) > 0
  BY EmptyLine DEF LoseByte
<1>2. n \in Nat /\ line' = f /\ Len(f) = n
  BY <1>1 DEF LoseByte
<1> QED
  BY <1>1, <1>2 DEF Shifted, LoseByte

LEMMA ShiftContiguous ==
  ASSUME RxInv, RxInv', Contiguous, Shifted
  PROVE  /\ Contiguous'
         /\ line' # <<>> \/ ~down => NextAt' = After(NextAt)
<1>1. /\ Len(line) \in Nat /\ Len(line') \in Nat
      /\ line # <<>> /\ Len(line) > 0 /\ Len(line') = Len(line) - 1
      /\ line' = <<>> <=> Len(line') = 0
  <2>1. line' \in Seq(Queued)
    BY DEF RxInv, TypeOK, Queued
  <2>2. Len(line') \in Nat /\ (line' = <<>> <=> Len(line') = 0)
    BY <2>1, EmptySeq, LenProperties
  <2>3. /\ Len(line) \in Nat /\ (line = <<>> <=> Len(line) = 0)
        /\ line # <<>> /\ Len(line') = Len(line) - 1
    BY EmptyLine DEF Shifted
  <2> QED
    BY <2>2, <2>3
<1>2. \A k \in 1..Len(line') :
        k + 1 \in 1..Len(line') => line'[k + 1].at = After(line'[k].at)
  BY <1>1 DEF Contiguous, Shifted
<1>3. ASSUME line' # <<>> PROVE line'[Len(line')].at = line[Len(line)].at
  BY <1>1, <1>3 DEF Shifted
<1>4. Contiguous'
  BY <1>1, <1>2, <1>3 DEF Contiguous, Shifted
<1>5. ASSUME line' # <<>> PROVE NextAt' = After(NextAt)
  BY <1>1, <1>5 DEF NextAt, Contiguous, Shifted
<1>6. ASSUME line' = <<>>, ~down PROVE NextAt' = After(NextAt)
  <2>1. Len(line) = 1
    BY <1>1, <1>6
  <2>2. pos' = pos /\ pos = After(line[1].at)
    BY <1>1, <1>6, <2>1 DEF Contiguous, Shifted
  <2>3. NextAt' = pos'
    BY <1>6 DEF NextAt
  <2>4. NextAt = line[1].at
    BY <1>1 DEF NextAt
  <2> QED
    BY <2>2, <2>3, <2>4
<1>7. line' # <<>> \/ ~down => NextAt' = After(NextAt)
  BY <1>5, <1>6
<1> QED
  BY <1>4, <1>7

\* What Take does to the buffer: it grows by the byte, or is emptied.
LEMMA TakeOutcome ==
  ASSUME RxInv, NEW byte \in 0..255, Take(byte), NEW b,
         b = Append(buf, byte)
  PROVE  /\ buf' = <<>> \/ (buf' = b /\ out' = "none")
         /\ buf' = b /\ Len(b) >= HEADER
              => LengthOK(LengthField(b)) /\ Len(b) < Total(b)
         /\ out' = "event"
              <=> /\ Len(b) >= HEADER /\ LengthOK(LengthField(b))
                  /\ Len(b) >= Total(b) /\ FrameOK(b)
         /\ Len(b) < HEADER => buf' = b
         /\ LengthOK(LengthField(b)) /\ Len(b) < Total(b) => buf' = b
<1>1. /\ b \in Seq(0..255) /\ Len(b) = Len(buf) + 1 /\ Len(buf) \in Nat
      /\ Len(buf) < RX_BUF /\ RX_BUF \in Nat
  BY AppendAt, UartAssumption DEF RxInv, TypeOK, BufferBounded, UartAssumption
<1>2. b # <<>>
  BY <1>1, EmptySeq
<1>3. Len(b) >= HEADER => LengthField(b) \in Nat
  BY <1>1, LengthIsNat DEF HEADER
<1>4. Len(b) >= HEADER /\ LengthField(b) \in Nat => Total(b) \in Int
  BY DEF Total, HEADER
<1>5. CASE Len(b) < HEADER
  <2>1. buf' = b /\ out' = "none"
    BY <1>1, <1>5 DEF Take
  <2> QED
    BY <1>1, <1>5, <2>1 DEF HEADER
<1>6. CASE Len(b) >= HEADER /\ ~LengthOK(LengthField(b))
  <2>1. buf' = <<>> /\ out' = "resync"
    BY <1>1, <1>6 DEF Take, HEADER
  <2> QED
    BY <1>1, <1>2, <1>6, <2>1 DEF HEADER
<1>7. CASE Len(b) >= HEADER /\ LengthOK(LengthField(b)) /\ Len(b) < Total(b)
  <2>1. buf' = b /\ out' = "none"
    BY <1>1, <1>7 DEF Take, HEADER
  <2>2. ~(Len(b) >= Total(b))
    BY <1>1, <1>3, <1>4, <1>7
  <2> QED
    BY <1>7, <2>1, <2>2
<1>8. CASE Len(b) >= HEADER /\ LengthOK(LengthField(b)) /\ Len(b) >= Total(b)
  <2>1. ~(Len(b) < Total(b)) /\ ~(Len(b) < HEADER)
    BY <1>1, <1>3, <1>4, <1>8 DEF HEADER
  <2>2. buf' = <<>> /\ out' = IF FrameOK(b) THEN "event" ELSE "skip"
    BY <1>1, <1>8, <2>1 DEF Take
  <2> QED
    BY <1>2, <1>8, <2>1, <2>2
<1>9. Len(b) < HEADER \/ Len(b) >= HEADER
  BY <1>1 DEF HEADER
<1>10. Len(b) >= HEADER => Len(b) < Total(b) \/ Len(b) >= Total(b)
  BY <1>1, <1>3, <1>4
<1> QED
  BY <1>5, <1>6, <1>7, <1>8, <1>9, <1>10

-----------------------------------------------------------------------------
\* The two receivers.

\* Python has not yet dropped what the MCU drops at its next check or has
\* dropped: it looks at the clock when the next byte is fed.
SameBytes ==
  /\ buf = Kept
  /\ pyLate => idle >= RESYNC /\ (pc = "top" => idle > RESYNC)

LEMMA InitSameBytes == StreamInit => SameBytes
  BY DEF StreamInit, Init, SameBytes, Kept

\* Given the same buffer and byte they decide alike.
LEMMA SameDecision ==
  ASSUME RxInv, NEW byte \in 0..255, buf = Kept, Take(byte), Feed(byte)
  PROVE  buf' = pyBuf' /\ (out' = "event" <=> pyOut' = "event")
<1> DEFINE b == Append(buf, byte)
<1>1. /\ b \in Seq(0..255) /\ Len(b) \in Nat
      /\ Len(b) >= HEADER => LengthField(b) \in Nat
  <2>1. b \in Seq(0..255)
    BY DEF RxInv, TypeOK
  <2> HIDE DEF b
  <2>2. Len(b) \in Nat /\ (Len(b) >= 16 => LengthField(b) \in Nat)
    BY <2>1, LengthIsNat
  <2> QED
    BY <2>1, <2>2 DEF HEADER
<1>0. /\ buf' = <<>> \/ (buf' = b /\ out' = "none")
      /\ out' = "event"
           <=> /\ Len(b) >= HEADER /\ LengthOK(LengthField(b))
               /\ Len(b) >= Total(b) /\ FrameOK(b)
      /\ Len(b) < HEADER => buf' = b
      /\ LengthOK(LengthField(b)) /\ Len(b) < Total(b) => buf' = b
      /\ buf' = b /\ Len(b) >= HEADER
           => LengthOK(LengthField(b)) /\ Len(b) < Total(b)
  BY TakeOutcome
<1> HIDE DEF b
<1>2. \A x, y, n \in Nat : y >= 8 /\ n >= 16 /\ n >= 16 + (y - 8)
        => y - 8 <= n - 16
  OBVIOUS
<1>3. Len(b) >= HEADER =>
        /\ PyLengthOK(LengthField(b)) <=> LengthOK(LengthField(b))
        /\ Total(b) \in Int
  BY <1>1 DEF PyLengthOK, LengthOK, Total, HEADER
<1>4. /\ Incomplete(b) => pyBuf' = b /\ pyOut' = "none"
      /\ ~Incomplete(b) =>
           /\ pyBuf' = <<>>
           /\ pyOut' = "event"
                <=> PyLengthOK(LengthField(b)) /\ ParseEventOK(b)
  <2>1. Append(Kept, byte) = b
    BY DEF b
  <2>2. CASE Incomplete(b) BY <2>1, <2>2 DEF Feed
  <2>3. CASE ~Incomplete(b) BY <2>1, <2>3 DEF Feed
  <2> QED BY <2>2, <2>3
<1>5. CASE Len(b) < HEADER
  <2>1. Incomplete(b) /\ buf' = b /\ out' # "event"
    BY <1>1, <1>5, <1>0 DEF Incomplete, HEADER
  <2> QED
    BY <1>4, <2>1
<1>6. CASE Len(b) >= HEADER /\ LengthOK(LengthField(b)) /\ Len(b) < Total(b)
  <2>1. Incomplete(b)
    BY <1>3, <1>6 DEF Incomplete
  <2>2. buf' = b /\ out' # "event"
    <3>1. ~(Len(b) >= Total(b))
      BY <1>1, <1>3, <1>6
    <3> QED
      BY <1>6, <1>0, <3>1
  <2> QED
    BY <1>4, <2>1, <2>2
<1>7. CASE Len(b) >= HEADER /\ ~LengthOK(LengthField(b))
  <2>1. ~Incomplete(b) /\ ~PyLengthOK(LengthField(b))
    BY <1>1, <1>3, <1>7 DEF Incomplete, HEADER
  <2>2. buf' = <<>> /\ out' # "event"
    BY <1>7, <1>0
  <2> QED
    BY <1>4, <2>1, <2>2
<1>8. CASE Len(b) >= HEADER /\ LengthOK(LengthField(b)) /\ Len(b) >= Total(b)
  <2>1. ~(Len(b) < Total(b)) /\ ~(Len(b) < HEADER)
    BY <1>1, <1>3, <1>8 DEF HEADER
  <2>2. ~Incomplete(b) /\ PyLengthOK(LengthField(b))
    BY <1>3, <1>8, <2>1 DEF Incomplete
  <2>3. buf' = <<>> /\ (out' = "event" <=> FrameOK(b))
    BY <1>8, <2>1, <1>0
  <2>4. LengthField(b) - 8 <= Len(b) - HEADER
    BY <1>1, <1>2, <1>8 DEF LengthOK, Total, HEADER
  <2>5. FrameOK(b) <=> ParseEventOK(b)
    BY <1>8, <2>4 DEF FrameOK, ParseEventOK
  <2> QED
    BY <1>4, <2>2, <2>3, <2>5
<1>9. Len(b) < HEADER \/ Len(b) >= HEADER
  BY <1>1 DEF HEADER
<1>10. Len(b) >= HEADER => Len(b) < Total(b) \/ Len(b) >= Total(b)
  BY <1>1, <1>3
<1> QED
  BY <1>5, <1>6, <1>7, <1>8, <1>9, <1>10

LEMMA TakeSame ==
  ASSUME RxInv, SameBytes, BothTake
  PROVE  SameBytes' /\ (out' = "event" <=> pyOut' = "event")
<1>1. Head(line).at \in 1..24
  BY PollShifts DEF BothTake
<1>2. Packet[Head(line).at] \in 0..255
  BY <1>1, PacketBytes
<1>3. buf' = pyBuf' /\ (out' = "event" <=> pyOut' = "event")
  BY <1>2, SameDecision DEF BothTake, PollByte, SameBytes
<1>4. pyLate' = FALSE
  BY DEF BothTake
<1> QED
  BY <1>3, <1>4 DEF SameBytes, Kept

LEMMA StepSameBytes ==
  ASSUME RxInv, SameBytes, [StreamNext]_streamVars PROVE SameBytes'
<1>1. CASE BothTake
  BY <1>1, TakeSame
<1>2. CASE BothLook
  <2>1. PICK late \in Lateness : Resync(late) /\ pyLate' = late
    BY <1>2 DEF BothLook
  <2>2. /\ buf' = IF late THEN <<>> ELSE buf
        /\ pyBuf' = pyBuf /\ idle' = idle /\ pc = "top" /\ pc' = "poll"
    BY <1>2, <2>1 DEF BothLook, Resync
  <2>3. late => idle >= RESYNC
    <3>1. late => idle > RESYNC \/ idle >= RESYNC
      BY <2>1, Zenon DEF Lateness
    <3>2. idle > RESYNC => idle >= RESYNC
      BY UartAssumption DEF RxInv, TypeOK, UartAssumption
    <3> QED
      BY <3>1, <3>2
  <2>4. pyLate => late
    BY <2>1, <2>2, UartAssumption
       DEF SameBytes, Lateness, RxInv, TypeOK, UartAssumption
  <2>5. CASE late
    BY <2>1, <2>2, <2>3, <2>5 DEF SameBytes, Kept
  <2>6. CASE ~late
    BY <2>1, <2>2, <2>4, <2>6 DEF SameBytes, Kept
  <2> QED
    BY <2>5, <2>6
<1>3. CASE Sleep /\ UNCHANGED pyVars
  <2>1. pyLate => idle' > RESYNC
    BY <1>3, UartAssumption
       DEF Sleep, Up, SameBytes, RxInv, TypeOK, UartAssumption
  <2>2. buf' = buf /\ pyBuf' = pyBuf /\ pyLate' = pyLate
    BY <1>3 DEF Sleep, pyVars
  <2>3. pyLate => idle' >= RESYNC
    BY <1>3, <2>1, UartAssumption, UpInRange
       DEF Sleep, RxInv, TypeOK, UartAssumption
  <2> QED
    BY <2>1, <2>2, <2>3 DEF SameBytes, Kept
<1>4. CASE (WriteByte \/ Abort \/ LoseByte) /\ UNCHANGED pyVars
  BY <1>4 DEF WriteByte, Abort, LoseByte, pyVars, SameBytes, Kept
<1>5. CASE UNCHANGED streamVars
  BY <1>5 DEF streamVars, uartVars, pyVars, SameBytes, Kept
<1> QED
  BY <1>1, <1>2, <1>3, <1>4, <1>5 DEF StreamNext

\* StreamParser.feed of protocol.py returns a frame at exactly the bytes at
\* which someip_uart_receive of the MCU does, whatever is cut, lost or delayed,
\* and for any timeout: what its docstring claims.
THEOREM ParsersReturnTheSame == StreamSpec => ParsersAgree
<1>1. StreamSpec => []RxInv
  BY ListenerIsPassive, RxInvAlways, PTL
<1>2. RxInv /\ SameBytes /\ [StreamNext]_streamVars => SameBytes'
  BY StepSameBytes
<1>3. RxInv /\ RxInv' /\ SameBytes /\ [StreamNext]_streamVars
        => [PollByte => (out' = "event" <=> pyOut' = "event")]_streamVars
  <2> SUFFICES ASSUME RxInv, SameBytes, StreamNext, PollByte
               PROVE  out' = "event" <=> pyOut' = "event"
    OBVIOUS
  <2>1. line' # line /\ line # <<>> /\ lost' = lost /\ Len(line) \in Nat
        /\ Len(line') = Len(line) - 1
    <3>1. line \in Seq(Queued) /\ line # <<>> /\ line' = Tail(line)
      BY DEF RxInv, TypeOK, Queued, PollByte
    <3>2. Len(Tail(line)) = Len(line) - 1 /\ Len(line) \in Nat
      BY <3>1, HeadTailProperties
    <3>3. Len(Tail(line)) # Len(line)
      BY <3>2
    <3> QED
      BY <3>1, <3>2, <3>3 DEF PollByte
  <2>2. ~WriteByte
    <3> SUFFICES ASSUME WriteByte PROVE FALSE
      OBVIOUS
    <3>1. line' = Append(line, [at |-> pos, calm |-> calm'])
      BY DEF WriteByte
    <3>2. Len(line') = Len(line) + 1
      BY <3>1, LenProperties DEF RxInv, TypeOK
    <3> QED
      BY <2>1, <3>2
  <2>3. ~Abort /\ ~Sleep /\ ~BothLook
    BY <2>1 DEF Abort, Sleep, BothLook, Resync
  <2>4. ~LoseByte
    BY <2>1 DEF LoseByte, RxInv, TypeOK
  <2> QED
    BY <2>2, <2>3, <2>4, TakeSame DEF StreamNext
<1> QED
  BY <1>1, <1>2, <1>3, InitSameBytes, PTL DEF StreamSpec, ParsersAgree

-----------------------------------------------------------------------------
\* Every step keeps the bytes of the buffer in one piece.

LEMMA InitPieceInv == Init => PieceInv
<1> SUFFICES ASSUME Init PROVE PieceInv
  OBVIOUS
<1>1. /\ line = <<>> /\ buf = <<>> /\ quiet = 0 /\ idle = 0
      /\ down = FALSE /\ pc = "top" /\ Len(line) = 0 /\ Len(buf) = 0
  BY DEF Init
<1> QED
  BY <1>1, UartAssumption DEF PieceInv, Silence, Contiguous, Unfinished,
     OnePiece, HEADER, UartAssumption

LEMMA WritePiece ==
  ASSUME RxInv, RxInv', PieceInv, WriteByte PROVE PieceInv'
<1>1. /\ Len(line) \in Nat /\ (line = <<>> <=> Len(line) = 0)
      /\ quiet \in Nat /\ idle \in Nat /\ pos \in 1..24
  BY EmptyLine, UartAssumption DEF RxInv, TypeOK, UartAssumption
<1>2. /\ pos = 1 /\ down => quiet >= RESTART
      /\ pos' = After(pos) /\ down' = FALSE /\ quiet' = 0
      /\ UNCHANGED <<pc, buf, idle, torn>>
  <2>1. Len(Packet) = 24
    BY DEF Packet
  <2> QED
    BY <2>1 DEF WriteByte, After
<1>3. /\ Len(line') = Len(line) + 1
      /\ \A k \in 1..Len(line) : line'[k] = line[k]
      /\ line'[Len(line) + 1].at = pos
  <2>1. line \in Seq(Queued) /\ [at |-> pos, calm |-> calm'] \in Queued
        /\ line' = Append(line, [at |-> pos, calm |-> calm'])
    BY DEF WriteByte, RxInv, TypeOK, Queued
  <2> QED
    BY <2>1, AppendAt
<1>4. line' # <<>>
  BY <1>1, <1>3, EmptySeq DEF RxInv, TypeOK
\* A restarted writer finds the line empty and the buffer lost.
<1>5. down => /\ line = <<>> /\ idle > RESYNC
              /\ pc = "poll" => buf = <<>>
  BY <1>1, <1>2, UartAssumption DEF UartAssumption, PieceInv, Silence
<1>6. Silence'
  BY <1>1, <1>2, UartAssumption DEF UartAssumption, PieceInv, Silence
<1>7. Contiguous'
  <2>1. ASSUME NEW k \in 1..Len(line'), k + 1 \in 1..Len(line')
        PROVE  line'[k + 1].at = After(line'[k].at)
    <3>1. k \in 1..Len(line)
      BY <1>1, <1>3, <2>1
    <3>2. CASE k + 1 \in 1..Len(line)
      BY <1>3, <3>1, <3>2 DEF PieceInv, Contiguous
    <3>3. CASE k + 1 \notin 1..Len(line)
      <4>1. k = Len(line) /\ line # <<>>
        BY <1>1, <3>1, <3>3
      <4>2. pos = After(line[Len(line)].at)
        BY <1>5, <4>1 DEF PieceInv, Contiguous
      <4> QED
        BY <1>3, <3>1, <4>1, <4>2
    <3> QED
      BY <3>2, <3>3
  <2>2. pos' = After(line'[Len(line')].at)
    BY <1>2, <1>3
  <2> QED
    BY <2>1, <2>2 DEF Contiguous
<1>8. Unfinished'
  BY <1>2 DEF PieceInv, Unfinished
<1>9. ~down => NextAt' = NextAt
  <2>1. CASE line = <<>>
    BY <1>1, <1>3, <1>4, <2>1 DEF NextAt
  <2>2. CASE line # <<>>
    <3>1. 1 \in 1..Len(line)
      BY <1>1, <2>2
    <3>2. line'[1] = line[1]
      BY <1>3, <3>1
    <3> QED
      BY <1>4, <2>2, <3>2 DEF NextAt
  <2> QED
    BY <2>1, <2>2
<1>10. OnePiece'
  <2> SUFFICES ASSUME ~torn, buf # <<>>, ~Doomed
               PROVE  \E s \in 1..24 : HeldFrom(s)'
    BY <1>2 DEF OnePiece, Doomed
  <2>1. pc \in {"top", "poll"}
    BY DEF RxInv, TypeOK
  <2>2. ~down
    BY <1>5, <2>1 DEF Doomed
  <2>3. PICK s \in 1..24 : HeldFrom(s)
    BY DEF PieceInv, OnePiece
  <2>4. HeldFrom(s)'
    BY <1>2, <1>9, <2>2, <2>3 DEF HeldFrom
  <2> QED
    BY <2>4
<1> QED
  BY <1>6, <1>7, <1>8, <1>10 DEF PieceInv

LEMMA LosePiece ==
  ASSUME RxInv, RxInv', PieceInv, LoseByte PROVE PieceInv'
<1>1. /\ torn' = TRUE /\ line # <<>>
      /\ UNCHANGED <<pos, down, quiet, pc, buf, idle>>
  BY DEF LoseByte
<1>2. Contiguous'
  BY LoseShifts, ShiftContiguous DEF PieceInv
<1>3. Silence'
  <2>1. ~(quiet > 0)
    BY <1>1 DEF PieceInv, Silence
  <2> QED
    BY <1>1, <2>1 DEF PieceInv, Silence
<1>4. Unfinished' /\ OnePiece'
  BY <1>1 DEF PieceInv, Unfinished, OnePiece
<1> QED
  BY <1>2, <1>3, <1>4 DEF PieceInv

LEMMA PollPiece ==
  ASSUME RxInv, RxInv', PieceInv, PollByte PROVE PieceInv'
<1> DEFINE byte == Packet[NextAt]
           b == Append(buf, byte)
<1>1. /\ Shifted /\ NextAt \in 1..24 /\ Take(byte) /\ pc = "poll"
      /\ idle' = 0 /\ torn' = (buf # <<>> /\ torn)
      /\ UNCHANGED <<pos, down, quiet>> /\ line # <<>>
  BY PollShifts DEF PollByte
<1>2. /\ byte \in 0..255 /\ buf \in Seq(0..255) /\ quiet \in Nat
      /\ Len(buf) < 40
  <2>1. byte \in 0..255
    BY <1>1, PacketBytes
  <2>2. quiet \in Nat
    BY UartAssumption DEF RxInv, TypeOK, UartAssumption
  <2> QED
    BY <2>1, <2>2 DEF RxInv, TypeOK, BufferBounded
<1>3. /\ Len(b) = Len(buf) + 1 /\ Len(buf) \in Nat
      /\ \A i \in 1..Len(buf) : b[i] = buf[i]
      /\ b[Len(buf) + 1] = byte
  BY <1>2, AppendAt
<1>4. /\ buf' = <<>> \/ buf' = b
      /\ buf' = b /\ Len(b) >= HEADER
           => LengthOK(LengthField(b)) /\ Len(b) < Total(b)
  BY <1>1, <1>2, TakeOutcome
<1> HIDE DEF b, byte
<1>5. Contiguous'
  BY <1>1, ShiftContiguous DEF PieceInv
<1>6. line' # <<>> \/ ~down => NextAt' = After(NextAt)
  BY <1>1, ShiftContiguous DEF PieceInv
<1>7. Silence'
  <2>1. quiet = 0
    BY <1>1, <1>2 DEF PieceInv, Silence
  <2> QED
    BY <1>1, <2>1, UartAssumption DEF PieceInv, Silence, UartAssumption
<1>8. Unfinished'
  <2>1. CASE buf' = <<>>
    <3>1. Len(buf') = 0
      BY <2>1
    <3> QED
      BY <3>1 DEF Unfinished, HEADER
  <2>2. CASE buf' = b
    BY <1>4, <2>2 DEF Unfinished
  <2> QED
    BY <1>4, <2>1, <2>2
<1>9. OnePiece'
  <2> SUFFICES ASSUME ~torn', buf' # <<>>
               PROVE  \E s \in 1..24 : HeldFrom(s)'
    BY DEF OnePiece
  <2>1. buf' = b
    BY <1>4
  <2>2. PICK s \in 1..24 :
          /\ \A i \in 1..Len(buf) : buf[i] = Packet[From(s, i)]
          /\ NextAt = From(s, Len(buf) + 1)
    <3>1. CASE buf = <<>>
      <4>1. Len(buf) = 0
        BY <3>1
      <4>2. NextAt = From(NextAt, Len(buf) + 1)
        <5>1. Len(buf) + 1 = 1
          BY <4>1
        <5> QED
          BY <1>1, <5>1, FromAfter
      <4>3. \A i \in 1..Len(buf) : FALSE
        BY <4>1
      <4> QED
        BY <1>1, <4>2, <4>3
    <3>2. CASE buf # <<>>
      BY <1>1, <3>2 DEF PieceInv, OnePiece, Doomed, HeldFrom
    <3> QED
      BY <3>1, <3>2
  <2>3. \A i \in 1..Len(b) : b[i] = Packet[From(s, i)]
    <3> TAKE i \in 1..Len(b)
    <3>1. CASE i \in 1..Len(buf)
      BY <1>3, <2>2, <3>1
    <3>2. CASE i \notin 1..Len(buf)
      <4>1. i = Len(buf) + 1
        BY <1>3, <3>2
      <4> QED
        BY <1>3, <2>2, <4>1 DEF byte
    <3> QED
      BY <3>1, <3>2
  <2>4. From(s, Len(b) + 1) = After(NextAt)
    <3>1. Len(buf') < 40
      BY DEF RxInv, BufferBounded
    <3>2. Len(buf) + 1 \in 1..39
      <4>1. Len(b) < 40
        BY <2>1, <3>1
      <4>2. Len(b) = Len(buf) + 1 /\ Len(buf) \in Nat
        BY <1>3
      <4>3. \A n \in Nat : n + 1 < 40 => n + 1 \in 1..39
        OBVIOUS
      <4> QED
        BY <4>1, <4>2, <4>3
    <3>3. From(s, (Len(buf) + 1) + 1) = After(From(s, Len(buf) + 1))
      BY <3>2, FromAfter
    <3> QED
      BY <1>3, <2>2, <3>3
  <2>5. HeldFrom(s)'
    BY <1>1, <1>6, <2>1, <2>3, <2>4 DEF HeldFrom
  <2> QED
    BY <2>5
<1> QED
  BY <1>5, <1>7, <1>8, <1>9 DEF PieceInv

LEMMA AbortPiece ==
  ASSUME RxInv, PieceInv, Abort PROVE PieceInv'
<1>1. /\ pos' = 1 /\ down' = TRUE
      /\ UNCHANGED <<line, quiet, pc, buf, idle, torn>>
  BY DEF Abort
<1>2. Silence' /\ Contiguous' /\ Unfinished'
  BY <1>1 DEF PieceInv, Silence, Contiguous, Unfinished
<1>3. OnePiece'
  <2>1. \A s \in 1..24 : HeldFrom(s) => HeldFrom(s)'
    BY <1>1 DEF HeldFrom, NextAt
  <2>2. Doomed' = Doomed
    BY <1>1 DEF Doomed
  <2> QED
    BY <1>1, <2>1, <2>2 DEF PieceInv, OnePiece
<1> QED
  BY <1>2, <1>3 DEF PieceInv

LEMMA TopPiece ==
  ASSUME RxInv, PieceInv, TopLoop PROVE PieceInv'
<1>1. PICK late \in Lateness : Resync(late)
  BY DEF TopLoop
<1>2. /\ buf' = IF late THEN <<>> ELSE buf
      /\ pc = "top" /\ pc' = "poll"
      /\ UNCHANGED <<pos, down, line, quiet, idle, torn>>
  BY <1>1 DEF Resync
<1>3. idle > RESYNC => late
  <2>1. idle > RESYNC => idle >= RESYNC
    BY UartAssumption DEF RxInv, TypeOK, UartAssumption
  <2> QED
    BY <1>1, <2>1, Zenon DEF Lateness
<1>4. CASE late
  <2>1. buf' = <<>> /\ Len(buf') = 0
    BY <1>2, <1>4
  <2> QED
    BY <1>2, <2>1 DEF PieceInv, Silence, Contiguous, Unfinished, OnePiece,
                      HEADER
<1>5. CASE ~late
  <2>1. buf' = buf /\ ~Doomed
    BY <1>2, <1>3, <1>5 DEF Doomed
  <2>2. Silence' /\ Contiguous' /\ Unfinished'
    BY <1>2, <1>3, <1>5, <2>1 DEF PieceInv, Silence, Contiguous, Unfinished
  <2>3. \A s \in 1..24 : HeldFrom(s) => HeldFrom(s)'
    BY <1>2, <2>1 DEF HeldFrom, NextAt
  <2> QED
    BY <1>2, <2>1, <2>2, <2>3 DEF PieceInv, OnePiece
<1> QED
  BY <1>4, <1>5

LEMMA SleepPiece ==
  ASSUME RxInv, PieceInv, Sleep PROVE PieceInv'
<1>1. /\ line = <<>> /\ pc = "poll" /\ pc' = "top"
      /\ idle' = Up(idle) /\ quiet' = Up(quiet)
      /\ UNCHANGED <<pos, down, line, buf, torn>>
  BY DEF Sleep
<1>2. quiet' <= idle'
  BY <1>1, UartAssumption
     DEF Up, RxInv, TypeOK, UartAssumption, PieceInv, Silence
<1>3. Silence' /\ Contiguous' /\ Unfinished'
  BY <1>1, <1>2 DEF PieceInv, Silence, Contiguous, Unfinished
<1>4. \A s \in 1..24 : HeldFrom(s) => HeldFrom(s)'
  BY <1>1 DEF HeldFrom, NextAt
<1> QED
  BY <1>1, <1>3, <1>4 DEF PieceInv, OnePiece, Doomed

LEMMA StepPieceInv == RxInv /\ RxInv' /\ PieceInv /\ [Next]_uartVars => PieceInv'
<1> SUFFICES ASSUME RxInv, RxInv', PieceInv, [Next]_uartVars PROVE PieceInv'
  OBVIOUS
<1>1. CASE UNCHANGED uartVars
  <2>1. UNCHANGED <<pos, down, line, quiet, pc, buf, idle, torn>>
    BY <1>1 DEF uartVars
  <2>2. \A s \in 1..24 : HeldFrom(s) => HeldFrom(s)'
    BY <2>1 DEF HeldFrom, NextAt
  <2> QED
    BY <2>1, <2>2 DEF PieceInv, Silence, Contiguous, Unfinished, OnePiece,
                      Doomed
<1> QED
  BY <1>1, WritePiece, AbortPiece, LosePiece, TopPiece, PollPiece, SleepPiece
     DEF Next, Receiver

LEMMA PieceInvAlways == Spec => [](RxInv /\ PieceInv)
  BY RxInvAlways, InitPieceInv, StepPieceInv, PTL DEF Spec

\* The only place of the packet that reads like a frame's first two bytes,
\* although its payload may read like either of them.
LEMMA ServiceOnlyThere ==
  \A p \in 1..24 : Packet[p] = 18 /\ Packet[From(p, 2)] = 52 => p = 1
<1> SUFFICES ASSUME NEW p \in 1..24,
                    Packet[p] = 18, Packet[From(p, 2)] = 52
             PROVE  p = 1
  OBVIOUS
<1>1. p = 1 \/ p = 17 BY DEF Packet
<1>2. From(17, 2) = 18 BY DEF From
<1>3. Packet[18] = 0 BY DEF Packet
<1> QED BY <1>1, <1>2, <1>3

\* A frame in one piece that is returned begins at the first byte and so ends
\* at the last one that its length field counts.
LEMMA EventAtLast ==
  ASSUME RxInv, PieceInv, PollByte, out' = "event", ~torn'
  PROVE  Head(line).at = LastOfFrame
<1> DEFINE byte == Packet[NextAt]
           b == Append(buf, byte)
<1>1. /\ NextAt = Head(line).at /\ NextAt \in 1..24 /\ Take(byte)
      /\ pc = "poll" /\ line # <<>> /\ (buf # <<>> => ~torn)
  BY PollShifts DEF PollByte
<1>2. byte \in 0..255 /\ buf \in Seq(0..255)
  BY <1>1, PacketBytes DEF RxInv, TypeOK
<1>3. /\ Len(b) = Len(buf) + 1 /\ Len(buf) \in Nat
      /\ \A i \in 1..Len(buf) : b[i] = buf[i]
  BY <1>2, AppendAt
<1>4. Len(b) >= 16 /\ Len(b) >= Total(b) /\ b[1] = 18 /\ b[2] = 52
  <2>1. Len(b) >= HEADER /\ Len(b) >= Total(b) /\ FrameOK(b)
    BY <1>1, <1>2, TakeOutcome
  <2> HIDE DEF b
  <2> QED
    BY <2>1 DEF HEADER, FrameOK
<1> HIDE DEF b, byte
<1>5. Len(buf) >= 15 /\ buf # <<>>
  BY <1>3, <1>4, EmptyLine
<1>6. PICK s \in 1..24 : HeldFrom(s)
  BY <1>1, <1>5 DEF PieceInv, OnePiece, Doomed
<1>7. s = 1
  <2>1. /\ 1 \in 1..Len(buf) /\ b[1] = buf[1]
        /\ 2 \in 1..Len(buf) /\ b[2] = buf[2]
    BY <1>3, <1>5
  <2>2. Packet[s] = 18
    BY <1>4, <1>6, <2>1, FromAfter DEF HeldFrom
  <2>3. Packet[From(s, 2)] = 52
    BY <1>4, <1>6, <2>1 DEF HeldFrom
  <2> QED
    BY <2>2, <2>3, ServiceOnlyThere
<1>8. /\ buf[5] = 0 /\ buf[6] = 0 /\ buf[7] = 0 /\ buf[8] = 9
  <2>1. \A i \in 5..8 : i \in 1..Len(buf) /\ From(1, i) = i
    <3>1. \A i \in 5..8 : From(1, i) = i
      BY DEF From
    <3>2. \A n \in Nat : n >= 15 => \A i \in 5..8 : i \in 1..n
      OBVIOUS
    <3> QED
      BY <1>3, <1>5, <3>1, <3>2
  <2>2. \A i \in 5..8 : buf[i] = Packet[i]
    BY <1>6, <1>7, <2>1 DEF HeldFrom
  <2>3. Packet[5] = 0 /\ Packet[6] = 0 /\ Packet[7] = 0 /\ Packet[8] = 9
    BY DEF Packet
  <2> QED
    BY <2>2, <2>3
<1>9. Total(b) = 17
  <2>1. \A i \in 5..8 : i \in 1..Len(buf)
    BY <1>3, <1>5
  <2>2. /\ b[5] = 0 /\ b[6] = 0 /\ b[7] = 0 /\ b[8] = 9
    BY <1>3, <1>8, <2>1
  <2> QED
    BY <2>2 DEF Total, LengthField, HEADER
<1>10. Len(buf) >= 16 => Len(buf) < 17
  <2>1. Total(buf) = 17
    BY <1>8 DEF Total, LengthField, HEADER
  <2> QED
    BY <2>1 DEF PieceInv, Unfinished, HEADER
<1>11. Len(buf) = 16
  <2>1. \A n \in Nat : n + 1 >= 17 /\ (n >= 16 => n < 17) => n = 16
    OBVIOUS
  <2>2. Len(buf) + 1 >= 17
    BY <1>3, <1>4, <1>9
  <2> QED
    BY <1>3, <1>10, <2>1, <2>2
<1> QED
  <2>1. NextAt = From(1, Len(buf) + 1)
    BY <1>1, <1>6, <1>7 DEF HeldFrom
  <2>2. From(1, 17) = 17
    BY FromAfter
  <2>3. Len(buf) + 1 = 17
    BY <1>11
  <2> QED
    BY <1>1, <2>1, <2>2, <2>3 DEF LastOfFrame

\* someip_uart_receive returns no frame that was not sent: not from the end of
\* one packet and the beginning of another, not across a crash of the sender,
\* however writes, polls and silences interleave; unless a byte was lost.
THEOREM NoPhantomFrames == Spec => NoPhantom
<1>1. RxInv /\ PieceInv /\ [Next]_uartVars
        => [PollByte /\ out' = "event" /\ ~torn'
              => Head(line).at = LastOfFrame]_uartVars
  BY EventAtLast
<1> QED
  BY <1>1, PieceInvAlways, PTL DEF Spec, NoPhantom

-----------------------------------------------------------------------------
\* A calm packet gets through.

LEMMA InitCalmInv == Init => CalmInv
<1> SUFFICES ASSUME Init PROVE CalmInv
  OBVIOUS
<1>1. line = <<>> /\ calm = FALSE /\ Len(line) = 0
  BY DEF Init
<1>2. CalmLine
  BY <1>1 DEF CalmLine
<1>3. ~NextIsCalm
  BY <1>1 DEF NextIsCalm
<1> QED
  BY <1>2, <1>3 DEF CalmInv, CalmHeld

LEMMA WriteCalm ==
  ASSUME RxInv, RxInv', PieceInv, CalmInv, WriteByte PROVE CalmInv'
<1>1. /\ Len(line) \in Nat /\ (line = <<>> <=> Len(line) = 0)
      /\ quiet \in Nat /\ idle \in Nat /\ pos \in 1..24
      /\ RESYNC \in Nat /\ 1 < RESYNC
  BY EmptyLine, UartAssumption DEF RxInv, TypeOK, UartAssumption
<1>2. /\ pos = 1 => calm' = (quiet > RESYNC + 2)
      /\ pos # 1 => calm' = calm /\ split' = split
      /\ pos' = IF pos = 24 THEN 1 ELSE pos + 1
      /\ UNCHANGED <<pc, buf, idle>>
  <2>1. Len(Packet) = 24
    BY DEF Packet
  <2>2. split \in BOOLEAN
    BY DEF RxInv, TypeOK
  <2>3. pos # 1 => split' = split
    BY <2>2, Zenon DEF WriteByte
  <2>4. /\ pos = 1 => calm' = (quiet > RESYNC + 2)
        /\ pos # 1 => calm' = calm
    BY Zenon DEF WriteByte
  <2> QED
    BY <2>1, <2>3, <2>4 DEF WriteByte
<1>3. /\ Len(line') = Len(line) + 1
      /\ \A k \in 1..Len(line) : line'[k] = line[k]
      /\ line'[Len(line) + 1] = [at |-> pos, calm |-> calm']
  <2>1. line \in Seq(Queued) /\ [at |-> pos, calm |-> calm'] \in Queued
        /\ line' = Append(line, [at |-> pos, calm |-> calm'])
    BY DEF WriteByte, RxInv, TypeOK, Queued
  <2> QED
    BY <2>1, AppendAt
<1>4. line' # <<>>
  BY <1>1, <1>3, EmptySeq DEF RxInv, TypeOK
\* The first byte of a calm packet finds the line empty, the buffer lost.
<1>5. calm' /\ pos = 1
        => line = <<>> /\ (Doomed \/ (pc = "poll" /\ buf = <<>>))
  <2>1. pc \in {"top", "poll"}
    BY DEF RxInv, TypeOK
  <2>2. quiet > RESYNC + 2 => quiet > 0 /\ idle > RESYNC
    BY <1>1 DEF PieceInv, Silence
  <2> QED
    BY <1>2, <2>1, <2>2 DEF PieceInv, Silence, Doomed
<1>6. calm' /\ line # <<>>
        => line[Len(line)].calm /\ pos = line[Len(line)].at + 1
  <2>1. calm' /\ line # <<>> => pos # 1
    BY <1>5
  <2>2. calm' /\ pos # 1 => calm
    BY <1>2, Zenon
  <2> QED
    BY <1>1, <2>1, <2>2 DEF CalmInv, CalmLine
<1>7. CalmLine'
  <2>1. ASSUME NEW k \in 1..Len(line'), k + 1 \in 1..Len(line'),
               line'[k + 1].calm
        PROVE  line'[k].calm /\ line'[k + 1].at = line'[k].at + 1
    <3>1. k \in 1..Len(line)
      BY <1>1, <1>3, <2>1
    <3>2. CASE k + 1 \in 1..Len(line)
      BY <1>3, <2>1, <3>1, <3>2 DEF CalmInv, CalmLine
    <3>3. CASE k + 1 \notin 1..Len(line)
      <4>1. k = Len(line) /\ line # <<>>
        BY <1>1, <3>1, <3>3
      <4> QED
        BY <1>3, <1>6, <2>1, <3>1, <4>1
    <3> QED
      BY <3>2, <3>3
  <2>2. calm' /\ pos' > 1
          => line'[Len(line')].calm /\ pos' = line'[Len(line')].at + 1
    BY <1>1, <1>2, <1>3
  <2> QED
    BY <2>1, <2>2 DEF CalmLine
<1>8. CalmHeld'
  <2>1. CASE line # <<>>
    <3>1. line'[1] = line[1]
      BY <1>1, <1>3, <2>1
    <3>2. NextAt' = NextAt /\ NextIsCalm' = NextIsCalm
      BY <1>4, <2>1, <3>1 DEF NextAt, NextIsCalm
    <3> QED
      BY <1>2, <1>4, <3>2 DEF CalmInv, CalmHeld, Doomed, HeldUpTo
  <2>2. CASE line = <<>>
    <3>1. line'[1] = [at |-> pos, calm |-> calm']
      BY <1>1, <1>3, <2>2
    <3>2. NextAt' = pos /\ NextIsCalm' = calm' /\ NextAt = pos
      BY <1>4, <2>2, <3>1 DEF NextAt, NextIsCalm
    <3>3. CASE pos = 1
      BY <1>2, <1>5, <3>2, <3>3 DEF CalmHeld, Doomed
    <3>4. CASE pos # 1
      <4>1. calm' => NextIsCalm
        <5>1. calm' => calm
          BY <1>2, <3>4, Zenon
        <5> QED
          BY <1>1, <2>2, <3>4, <5>1 DEF NextIsCalm
      <4> QED
        BY <1>2, <1>4, <3>2, <3>4, <4>1 DEF CalmInv, CalmHeld, HeldUpTo
    <3> QED
      BY <3>3, <3>4
  <2> QED
    BY <2>1, <2>2
<1> QED
  BY <1>7, <1>8 DEF CalmInv

LEMMA LoseCalm ==
  ASSUME RxInv, RxInv', CalmInv, LoseByte PROVE CalmInv'
<1>1. /\ calm' = FALSE /\ Len(line') \in Nat
      /\ line' = <<>> <=> Len(line') = 0
      /\ \A k \in 1..Len(line') : line'[k].calm = FALSE
  <2>1. line' \in Seq(Queued)
    BY DEF RxInv, TypeOK, Queued
  <2>2. Len(line') \in Nat /\ (line' = <<>> <=> Len(line') = 0)
    BY <2>1, EmptySeq, LenProperties
  <2> QED
    BY <2>2, LoseShifts DEF LoseByte
<1>2. CalmLine'
  BY <1>1 DEF CalmLine
<1>3. ~NextIsCalm'
  <2>1. CASE line' = <<>>
    BY <1>1, <2>1 DEF NextIsCalm
  <2>2. CASE line' # <<>>
    BY <1>1, <2>2 DEF NextIsCalm
  <2> QED
    BY <2>1, <2>2
<1> QED
  BY <1>2, <1>3 DEF CalmInv, CalmHeld

\* One more byte of a calm packet: the buffer holds one byte more of it, up to
\* the last one that counts, with which the frame is returned.
LEMMA CalmTake ==
  ASSUME RxInv, NEW k \in 1..LastOfFrame, HeldUpTo(k), Take(Packet[k])
  PROVE  IF k = LastOfFrame THEN out' = "event" ELSE HeldUpTo(k + 1)'
<1> DEFINE b == Append(buf, Packet[k])
<1>1. k \in 1..24 /\ Packet[k] \in 0..255 /\ buf \in Seq(0..255)
  <2>1. k \in 1..24
    BY DEF LastOfFrame
  <2> QED
    BY <2>1, PacketBytes DEF RxInv, TypeOK
<1>2. Len(b) = k
  BY <1>1, AppendAt DEF HeldUpTo
<1>3. \A i \in 1..k : b[i] = Packet[i]
  <2> TAKE i \in 1..k
  <2>1. CASE i \in 1..(k - 1)
    BY <1>1, <2>1, AppendAt DEF HeldUpTo
  <2>2. CASE i \notin 1..(k - 1)
    <3>1. i = Len(buf) + 1 /\ i = k
      BY <1>1, <2>2 DEF HeldUpTo
    <3> QED
      BY <1>1, <3>1, AppendAt
  <2> QED
    BY <2>1, <2>2
<1>4. /\ out' = "event"
           <=> /\ Len(b) >= HEADER /\ LengthOK(LengthField(b))
               /\ Len(b) >= Total(b) /\ FrameOK(b)
      /\ Len(b) < HEADER => buf' = b
      /\ LengthOK(LengthField(b)) /\ Len(b) < Total(b) => buf' = b
  BY <1>1, TakeOutcome
<1> HIDE DEF b
<1>5. CASE k < 16
  <2>1. buf' = b
    BY <1>2, <1>4, <1>5 DEF HEADER
  <2> QED
    BY <1>2, <1>3, <1>5, <2>1 DEF HeldUpTo, LastOfFrame
<1>6. CASE k = 16 \/ k = 17
  <2>1. /\ b[1] = 18 /\ b[2] = 52 /\ b[15] = 2
        /\ b[5] = 0 /\ b[6] = 0 /\ b[7] = 0 /\ b[8] = 9
    <3>1. \A i \in {1, 2, 5, 6, 7, 8, 15} : i \in 1..k
      BY <1>6
    <3> QED
      BY <1>3, <3>1 DEF Packet
  <2>2. LengthField(b) = 9 /\ Total(b) = 17 /\ LengthOK(LengthField(b))
    BY <2>1 DEF LengthField, Total, LengthOK, HEADER
  <2>3. CASE k = 16
    <3>1. buf' = b
      BY <1>2, <1>4, <2>2, <2>3
    <3> QED
      BY <1>2, <1>3, <2>3, <3>1 DEF HeldUpTo, LastOfFrame
  <2>4. CASE k = 17
    BY <1>2, <1>4, <2>1, <2>2, <2>4 DEF FrameOK, LastOfFrame, HEADER
  <2> QED
    BY <1>6, <2>3, <2>4
<1> QED
  BY <1>5, <1>6 DEF LastOfFrame

\* Before a calm byte is polled the buffer holds the packet so far.
LEMMA CalmReady ==
  ASSUME RxInv, PieceInv, CalmInv, pc = "poll", NextIsCalm,
         NextAt \in 1..LastOfFrame
  PROVE  HeldUpTo(NextAt)
<1>1. CASE NextAt = 1
  <2>1. buf = <<>>
    BY <1>1 DEF CalmInv, CalmHeld, Doomed
  <2>2. Len(buf) = 0
    BY <2>1
  <2> QED
    BY <1>1, <2>2 DEF HeldUpTo
<1>2. CASE NextAt # 1
  <2>1. NextAt \in 2..LastOfFrame
    BY <1>2 DEF LastOfFrame
  <2> QED
    BY <2>1 DEF CalmInv, CalmHeld
<1> QED
  BY <1>1, <1>2

LEMMA PollCalm ==
  ASSUME RxInv, RxInv', PieceInv, CalmInv, PollByte PROVE CalmInv'
<1>1. /\ Shifted /\ NextAt \in 1..24 /\ Take(Packet[NextAt])
      /\ pc = "poll" /\ idle' = 0
      /\ UNCHANGED <<pos, calm, split>> /\ line # <<>>
      /\ \A k \in 1..Len(line') : line'[k] = line[k + 1]
  BY PollShifts DEF PollByte
<1>2. /\ Len(line) \in Nat /\ Len(line) > 0 /\ Len(line') = Len(line) - 1
      /\ line' = <<>> <=> Len(line') = 0
      /\ pos \in 1..24
  <2>1. line' \in Seq(Queued)
    BY DEF RxInv, TypeOK, Queued
  <2>2. line' = <<>> <=> Len(line') = 0
    BY <2>1, EmptySeq
  <2> QED
    BY <1>1, <2>2, EmptyLine DEF Shifted, RxInv, TypeOK
<1>3. CalmLine'
  <2>1. ASSUME NEW k \in 1..Len(line'), k + 1 \in 1..Len(line'),
               line'[k + 1].calm
        PROVE  line'[k].calm /\ line'[k + 1].at = line'[k].at + 1
    <3>1. k + 1 \in 1..Len(line) /\ (k + 1) + 1 \in 1..Len(line)
      BY <1>2, <2>1
    <3> QED
      BY <1>1, <2>1, <3>1 DEF CalmInv, CalmLine
  <2>2. line' # <<>> => line'[Len(line')] = line[Len(line)]
    BY <1>1, <1>2
  <2> QED
    BY <1>1, <2>1, <2>2 DEF CalmInv, CalmLine
\* If a calm byte is next, then this one was the calm byte before it.
<1>4. ASSUME NextIsCalm' PROVE NextIsCalm /\ NextAt' = NextAt + 1
  <2>1. NextIsCalm = line[1].calm /\ NextAt = line[1].at
    BY <1>1 DEF NextIsCalm, NextAt
  <2>2. CASE line' # <<>>
    <3>1. 2 \in 1..Len(line) /\ 1 \in 1..Len(line') /\ line'[1] = line[2]
      BY <1>1, <1>2, <2>2
    <3>2. line[2].calm /\ NextAt' = line[2].at
      BY <1>4, <2>2, <3>1 DEF NextIsCalm, NextAt
    <3>3. 1 \in 1..Len(line) /\ 1 + 1 = 2
      BY <1>2
    <3>4. line[1].calm /\ line[2].at = line[1].at + 1
      BY <3>1, <3>2, <3>3 DEF CalmInv, CalmLine
    <3> QED
      BY <2>1, <3>2, <3>4
  <2>3. CASE line' = <<>>
    <3>1. calm /\ pos > 1 /\ NextAt' = pos
      BY <1>1, <1>4, <2>3 DEF NextIsCalm, NextAt
    <3>2. Len(line) = 1
      BY <1>2, <2>3
    <3> QED
      BY <1>1, <2>1, <3>1, <3>2 DEF CalmInv, CalmLine
  <2> QED
    BY <2>2, <2>3
<1>5. CalmHeld'
  <2> SUFFICES ASSUME NextIsCalm', NextAt' \in 1..LastOfFrame
               PROVE  NextAt' \in 2..LastOfFrame /\ HeldUpTo(NextAt)' 
    <3>1. idle' <= 1 /\ idle' = 0
      BY <1>1
    <3>2. NextAt' = 1 => NextAt' \in 1..LastOfFrame
      BY DEF LastOfFrame
    <3>3. NextAt' \in 2..LastOfFrame => NextAt' \in 1..LastOfFrame
      BY DEF LastOfFrame
    <3>4. ~(1 \in 2..LastOfFrame)
      BY DEF LastOfFrame
    <3> QED
      BY <3>1, <3>2, <3>3, <3>4 DEF CalmHeld
  <2>1. NextIsCalm /\ NextAt' = NextAt + 1
    BY <1>4
  <2>2. NextAt \in 1..LastOfFrame /\ NextAt # LastOfFrame
        /\ NextAt' \in 2..LastOfFrame
    BY <1>1, <2>1 DEF LastOfFrame
  <2>3. HeldUpTo(NextAt)
    BY <1>1, <2>1, <2>2, CalmReady
  <2>4. ASSUME NEW k, k = NextAt PROVE HeldUpTo(k + 1)'
    BY <1>1, <2>2, <2>3, <2>4, CalmTake
  <2>5. HeldUpTo(NextAt)'
    BY <2>1, <2>4 DEF HeldUpTo
  <2> QED
    BY <2>2, <2>5
<1> QED
  BY <1>3, <1>5 DEF CalmInv

LEMMA OtherCalm ==
  ASSUME RxInv, PieceInv, CalmInv,
         Abort \/ TopLoop \/ Sleep \/ UNCHANGED uartVars
  PROVE  CalmInv'
<1>1. CASE Abort
  <2>1. /\ pos' = 1 /\ UNCHANGED <<line, calm, pc, buf, idle>>
    BY <1>1 DEF Abort
  <2>2. CalmLine'
    BY <2>1 DEF CalmInv, CalmLine
  <2>3. CASE line = <<>>
    <3>1. ~NextIsCalm'
      BY <2>1, <2>3 DEF NextIsCalm
    <3> QED
      BY <2>2, <3>1 DEF CalmInv, CalmHeld
  <2>4. CASE line # <<>>
    <3>1. NextIsCalm' = NextIsCalm /\ NextAt' = NextAt
      BY <2>1, <2>4 DEF NextIsCalm, NextAt
    <3>2. CalmHeld'
      BY <2>1, <2>4, <3>1 DEF CalmInv, CalmHeld, Doomed, HeldUpTo
    <3> QED
      BY <2>2, <3>2 DEF CalmInv
  <2> QED
    BY <2>3, <2>4
<1>2. CASE TopLoop
  <2>1. PICK late \in Lateness : Resync(late)
    BY <1>2 DEF TopLoop
  <2>2. /\ buf' = IF late THEN <<>> ELSE buf
        /\ pc = "top" /\ pc' = "poll"
        /\ UNCHANGED <<pos, split, line, calm, idle>>
    BY <2>1 DEF Resync
  <2>3. /\ idle > RESYNC => late
        /\ idle <= 1 => ~late
    <3>1. /\ idle > RESYNC => idle >= RESYNC
          /\ idle <= 1 => ~(idle > RESYNC) /\ ~(idle >= RESYNC)
      BY UartAssumption DEF RxInv, TypeOK, UartAssumption
    <3>2. late = (idle > RESYNC) \/ late = (idle >= RESYNC)
      BY <2>1, Zenon DEF Lateness
    <3> QED
      BY <3>1, <3>2, Zenon
  <2>4. NextIsCalm' = NextIsCalm /\ NextAt' = NextAt
    BY <2>2 DEF NextIsCalm, NextAt
  <2>5. CalmLine'
    BY <2>2 DEF CalmInv, CalmLine
  <2>6. NextIsCalm /\ NextAt = 1 => buf' = <<>> /\ pc' = "poll"
    BY <2>2, <2>3 DEF CalmInv, CalmHeld, Doomed
  <2>7. NextIsCalm /\ NextAt \in 2..LastOfFrame => buf' = buf
    BY <2>2, <2>3 DEF CalmInv, CalmHeld
  <2>8. CalmHeld'
    BY <2>2, <2>4, <2>6, <2>7 DEF CalmInv, CalmHeld, HeldUpTo
  <2> QED
    BY <2>5, <2>8 DEF CalmInv
<1>3. CASE Sleep
  <2>1. /\ line = <<>> /\ idle' = Up(idle) /\ (pos > 1 => ~split)
        /\ split' = (pos > 1) /\ UNCHANGED <<pos, line, calm, buf>>
    BY <1>3 DEF Sleep
  <2>2. /\ NextIsCalm' = NextIsCalm /\ NextAt' = NextAt
        /\ NextIsCalm => pos > 1 /\ NextAt = pos
    BY <2>1 DEF NextIsCalm, NextAt
  <2>3. CalmLine'
    BY <2>1 DEF CalmInv, CalmLine
  <2>4. Up(0) = 1
    BY UartAssumption DEF Up, UartAssumption
  <2>5. NextIsCalm => split'
    BY <2>1, <2>2, Zenon
  <2>6. NextIsCalm /\ NextAt \in 2..LastOfFrame => idle' = 1
    BY <2>1, <2>2, <2>4 DEF CalmInv, CalmHeld
  <2>7. NextIsCalm => NextAt # 1
    BY <2>2 DEF RxInv, TypeOK
  <2>8. CalmHeld'
    BY <2>1, <2>2, <2>5, <2>6, <2>7 DEF CalmInv, CalmHeld, HeldUpTo
  <2> QED
    BY <2>3, <2>8 DEF CalmInv
<1>4. CASE UNCHANGED uartVars
  BY <1>4 DEF uartVars, CalmInv, CalmLine, CalmHeld, NextIsCalm, NextAt,
              Doomed, HeldUpTo
<1> QED
  BY <1>1, <1>2, <1>3, <1>4

LEMMA StepCalmInv ==
  RxInv /\ RxInv' /\ PieceInv /\ CalmInv /\ [Next]_uartVars => CalmInv'
  BY WriteCalm, LoseCalm, PollCalm, OtherCalm DEF Next, Receiver

\* The resynchronisation of someip_uart_receive works: a whole packet after a
\* silence of more than 50 ms and two polls is returned, whatever remained of
\* packets before it, however its bytes are split over two polls.
THEOREM CalmFramesReturned == Spec => CalmFrameReturned
<1>1. RxInv /\ PieceInv /\ CalmInv /\ [Next]_uartVars
        => [PollByte /\ Head(line) = [at |-> LastOfFrame, calm |-> TRUE]
              => out' = "event"]_uartVars
  <2> SUFFICES ASSUME RxInv, PieceInv, CalmInv, PollByte,
                      Head(line) = [at |-> LastOfFrame, calm |-> TRUE]
               PROVE  out' = "event"
    OBVIOUS
  <2>1. NextAt = LastOfFrame /\ NextIsCalm /\ pc = "poll"
        /\ Take(Packet[LastOfFrame])
    BY PollShifts DEF PollByte
  <2>2. LastOfFrame \in 1..LastOfFrame
    BY DEF LastOfFrame
  <2>3. HeldUpTo(LastOfFrame)
    BY <2>1, <2>2, CalmReady
  <2> QED
    BY <2>1, <2>2, <2>3, CalmTake
<1> QED
  BY <1>1, PieceInvAlways, InitCalmInv, StepCalmInv, PTL
     DEF Spec, CalmFrameReturned

=============================================================================
