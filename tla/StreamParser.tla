---------------------------- MODULE StreamParser ----------------------------
(***************************************************************************)
(* StreamParser of mpu/someip/protocol.py, the receiver of the UART tunnel *)
(* that tests and tools use, "the same logic as someip_uart_receive": both *)
(* are given the same bytes at the same instants.                          *)
(*                                                                         *)
(* The MCU looks at the clock once before each poll, the Python code at    *)
(* every byte; bytes of one poll come without a pause.                     *)
(***************************************************************************)
EXTENDS UartReceiver

VARIABLES
  pyBuf,   \* _buf
  pyOut,   \* "event" if the last feed returned one, else "none"
  pyLate   \* what the clock says at the next feed: over timeout_ms of silence

pyVars == <<pyBuf, pyOut, pyLate>>
streamVars == <<uartVars, pyVars>>

StreamInit == Init /\ pyBuf = <<>> /\ pyOut = "none" /\ pyLate = FALSE

PyLengthOK(length) == ~(length < 8 \/ length > 32)

\* parse_event does not raise: service, type and length fit the frame.
ParseEventOK(b) ==
  /\ Len(b) >= HEADER
  /\ b[1] = 18 /\ b[2] = 52
  /\ b[15] = 2
  /\ LengthField(b) - 8 <= Len(b) - HEADER

\* A fault: the timeout is not looked at.
KeepPartial == pyBuf

\* What is left of _buf when a byte is fed.
Kept == IF pyLate THEN <<>> ELSE pyBuf

\* No header yet, or not the whole frame that its length field announces.
Incomplete(b) ==
  \/ Len(b) < HEADER
  \/ PyLengthOK(LengthField(b)) /\ Len(b) < Total(b)

\* feed(byte): wait for more, or reset and return the frame if it is valid.
Feed(byte) ==
  LET b == Append(Kept, byte)
      valid == PyLengthOK(LengthField(b)) /\ ParseEventOK(b)
  IN IF Incomplete(b)
     THEN pyBuf' = b /\ pyOut' = "none"
     ELSE pyBuf' = <<>> /\ pyOut' = IF valid THEN "event" ELSE "none"

-----------------------------------------------------------------------------
\* Both receivers on one line.

\* The clock is read at the same instant.
BothLook ==
  \E late \in Lateness :
    Resync(late) /\ pyLate' = late /\ UNCHANGED <<pyBuf, pyOut>>

\* One byte is polled and fed.
BothTake ==
  PollByte /\ Feed(Packet[Head(line).at]) /\ pyLate' = FALSE

StreamNext ==
  \/ (WriteByte \/ Abort \/ LoseByte \/ Sleep) /\ UNCHANGED pyVars
  \/ BothLook
  \/ BothTake

StreamSpec == StreamInit /\ [][StreamNext]_streamVars

-----------------------------------------------------------------------------

\* What the class documents, the same logic as on the MCU: on any stream, cut,
\* delayed and with bytes missing in any way, the two receivers return a frame
\* at the same bytes.
ParsersAgree ==
  [][PollByte => (out' = "event" <=> pyOut' = "event")]_streamVars

=============================================================================
