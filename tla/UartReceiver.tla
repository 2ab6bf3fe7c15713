---------------------------- MODULE UartReceiver ----------------------------
(***************************************************************************)
(* The UART tunnel: packets built by mpu/someip/protocol.py (build_packet) *)
(* and written by UartTransport.send go byte by byte to                    *)
(* someip_uart_receive (MCU/src/someip_service.cpp), which polls, finds    *)
(* frames by their length field and resynchronises after a silence.        *)
(*                                                                         *)
(* A tick is the k_sleep(10 ms) between two polls of the receiver.  A      *)
(* packet takes 2 ms on the line, so it straddles at most one tick.  Bytes *)
(* wait in the UART until they are polled, or are lost there.              *)
(***************************************************************************)
EXTENDS Naturals, Sequences

CONSTANTS
  PAYLOAD,     \* the byte of payload of a heartbeat: its counter
  RESYNC,      \* 50 ms, in ticks: a longer silence drops a partial frame
  RX_BUF,      \* sizeof(rx_buf)
  PERIOD,      \* HEARTBEAT_PERIOD_MS, in ticks
  RESTART,     \* least silence before a restarted MPU process writes again
  LINE_BOUND,  \* bound on the bytes that wait in the UART
  LOSSES,      \* bound on the bytes that it loses
  SILENCE_CAP  \* where quiet, idle and due saturate

ASSUME UartAssumption ==
  /\ PAYLOAD \in 0..255
  /\ RESYNC \in Nat /\ RX_BUF \in Nat /\ PERIOD \in Nat /\ RESTART \in Nat
  /\ LINE_BOUND \in Nat /\ LOSSES \in Nat /\ SILENCE_CAP \in Nat
  /\ RX_BUF >= 40
  /\ 1 < RESYNC /\ RESYNC < RESTART /\ RESTART < SILENCE_CAP

\* A heartbeat: service 0x1234, event 0x8002, length 9, client 1, session 1,
\* versions 1, type 2 (notification), code 0, one byte of payload, 7 bytes of
\* padding that the length field does not count.
Packet == <<18, 52, 128, 2,  0, 0, 0, 9,  0, 1, 0, 1,  1, 1, 2, 0,
            PAYLOAD,  0, 0, 0, 0, 0, 0, 0>>
HEADER == 16
LastOfFrame == 17   \* position of the last byte that the length field covers

VARIABLES
  pos,    \* next byte of the packet that UartTransport.send is writing
  split,  \* a tick has passed since that packet was begun
  down,   \* the MPU process died in the middle of a packet
  line,   \* bytes on their way: position in its packet, and whether calm
  calm,   \* the packet being written is whole and came after a long silence
  quiet,  \* ticks since the last byte was written
  pc,     \* receiver: at the resync check, or polling
  buf,    \* rx_buf[0 .. rx_len - 1]
  idle,   \* ticks since last_rx_tick
  out,    \* what the last byte led to
  lost,   \* bytes lost so far
  torn,   \* history: a byte was lost since buf was last empty
  due     \* history: ticks since a frame was returned

uartVars ==
  <<pos, split, down, line, calm, quiet, pc, buf, idle, out, lost, torn,
    due>>

Up(n) == IF n < SILENCE_CAP THEN n + 1 ELSE n

\* The length field as far as the code tells values apart: anything with one
\* of its two upper bytes set is too long.
LengthField(b) ==
  IF b[5] # 0 \/ b[6] # 0 THEN 65535 ELSE b[7] * 256 + b[8]

\* A fault: no upper limit on the length field.
LengthAtLeast8(length) == length >= 8

LengthOK(length) == length >= 8 /\ length <= 32

Total(b) == HEADER + (LengthField(b) - 8)

\* service_id == SERVICE_ID and message_type == 0x02.
FrameOK(b) == b[1] = 18 /\ b[2] = 52 /\ b[15] = 2

Init ==
  /\ pos = 1 /\ split = FALSE /\ down = FALSE
  /\ line = <<>> /\ calm = FALSE /\ quiet = 0
  /\ pc = "top" /\ buf = <<>> /\ idle = 0
  /\ out = "none" /\ lost = 0 /\ torn = FALSE /\ due = 0

-----------------------------------------------------------------------------

\* UartTransport.send: one write per packet, from the heartbeat thread or from
\* the main loop, at any time.
WriteByte ==
  /\ Len(line) < LINE_BOUND
  /\ pos = 1 /\ down => quiet >= RESTART
  /\ LET silent == IF pos = 1 THEN quiet > RESYNC + 2 ELSE calm
     IN /\ calm' = silent
        /\ line' = Append(line, [at |-> pos, calm |-> silent])
  /\ pos' = IF pos = Len(Packet) THEN 1 ELSE pos + 1
  /\ split' = (pos # 1 /\ split)
  /\ down' = FALSE
  /\ quiet' = 0
  /\ UNCHANGED <<pc, buf, idle, out, lost, torn, due>>

\* The MPU process dies in the middle of a packet.
Abort ==
  /\ pos > 1
  /\ pos' = 1 /\ down' = TRUE /\ split' = FALSE
  /\ UNCHANGED <<line, calm, quiet, pc, buf, idle, out, lost, torn, due>>

\* The receive register is overrun before the next poll, or the line is noisy.
LoseByte ==
  /\ line # <<>> /\ lost < LOSSES /\ lost' = lost + 1
  /\ line' = [k \in 1..(Len(line) - 1) |->
                [at |-> line[k + 1].at, calm |-> FALSE]]
  /\ calm' = FALSE /\ torn' = TRUE
  /\ UNCHANGED <<pos, split, down, quiet, pc, buf, idle, out, due>>

-----------------------------------------------------------------------------

\* A fault: a partial frame is never dropped.
NoResync(late) ==
  /\ pc = "top" /\ pc' = "poll"
  /\ UNCHANGED <<pos, split, down, line, calm, quiet, buf, idle, out, lost,
                 torn, due>>

\* The check before each poll: a partial frame is dropped if it is late.
Resync(late) ==
  /\ pc = "top" /\ pc' = "poll"
  /\ buf' = IF late THEN <<>> ELSE buf
  /\ UNCHANGED <<pos, split, down, line, calm, quiet, idle, out, lost,
                 torn, due>>

\* Five sleeps last at least 50 ms, and may have lasted longer, so at exactly
\* RESYNC ticks both outcomes of the test are possible.
Lateness == {idle > RESYNC, idle >= RESYNC}

TopLoop == \E late \in Lateness : Resync(late)

\* What one byte does to the buffer.
Take(byte) ==
  LET b == Append(buf, byte)
  IN IF Len(buf) >= RX_BUF THEN buf' = <<>> /\ out' = "overflow"
     ELSE IF Len(b) < HEADER THEN buf' = b /\ out' = "none"
     ELSE IF ~LengthOK(LengthField(b)) THEN buf' = <<>> /\ out' = "resync"
     ELSE IF Len(b) < Total(b) THEN buf' = b /\ out' = "none"
     ELSE buf' = <<>> /\ out' = IF FrameOK(b) THEN "event" ELSE "skip"

\* uart_poll_in returns a byte.  A complete valid frame is returned to
\* someip_thread, which calls again.
PollByte ==
  /\ pc = "poll" /\ line # <<>>
  /\ Take(Packet[Head(line).at])
  /\ line' = Tail(line)
  /\ idle' = 0
  /\ pc' = IF out' = "event" THEN "top" ELSE "poll"
  /\ torn' = (buf # <<>> /\ torn)
  /\ due' = IF out' = "event" THEN 0 ELSE due
  /\ UNCHANGED <<pos, split, down, calm, quiet, lost>>

\* No byte is waiting: k_sleep(10 ms).
Sleep ==
  /\ pc = "poll" /\ line = <<>>
  /\ pos > 1 => ~split
  /\ pc' = "top"
  /\ split' = (pos > 1)
  /\ idle' = Up(idle) /\ quiet' = Up(quiet) /\ due' = Up(due)
  /\ UNCHANGED <<pos, down, line, calm, buf, out, lost, torn>>

Receiver == TopLoop \/ PollByte \/ Sleep

Next == WriteByte \/ Abort \/ LoseByte \/ Receiver

Spec == Init /\ [][Next]_uartVars

\* A healthy MPU that only sends heartbeats: each packet begins PERIOD ticks
\* after the last one ended (send, then sleep 50 ms), and is never cut short.
HeartbeatNext ==
  \/ WriteByte /\ (pos = 1 => quiet >= PERIOD)
  \/ TopLoop \/ PollByte
  \/ Sleep /\ (pos = 1 => quiet < PERIOD)

HeartbeatSpec == Init /\ [][HeartbeatNext]_uartVars

-----------------------------------------------------------------------------

\* Every variable keeps its range.
TypeOK ==
  /\ pos \in 1..24 /\ split \in BOOLEAN /\ down \in BOOLEAN
  /\ line \in Seq([at : 1..24, calm : BOOLEAN]) /\ calm \in BOOLEAN
  /\ quiet \in 0..SILENCE_CAP /\ idle \in 0..SILENCE_CAP
  /\ lost \in 0..LOSSES /\ torn \in BOOLEAN /\ due \in 0..SILENCE_CAP
  /\ pc \in {"top", "poll"}
  /\ buf \in Seq(0..255)
  /\ out \in {"none", "event", "skip", "resync", "overflow"}

\* However the stream is cut, the buffer never holds more than a header and
\* the longest payload less one byte: rx_buf[rx_len++] stays inside rx_buf
\* and the overflow branch is never taken.
BufferBounded == Len(buf) < 40

\* A frame is returned only at the byte that ends one: remains of several
\* packets, or of one cut short by a crash, are never taken for an event.  Only
\* a frame from which the UART lost a byte can be: there is no checksum.
NoPhantom ==
  [][PollByte /\ out' = "event" /\ ~torn'
       => Head(line).at = LastOfFrame]_uartVars

\* The resynchronisation works: a whole packet after a silence longer than the
\* 50 ms and two polls is returned, whatever was in the buffer before.
CalmFrameReturned ==
  [][PollByte /\ Head(line) = [at |-> LastOfFrame, calm |-> TRUE]
       => out' = "event"]_uartVars

\* The hardware guide says that heartbeats every 50 ms keep the MCU out of
\* SAFE: a frame is returned at least every 100 ms.
HeartbeatsKeepNormal == due <= 2 * PERIOD

=============================================================================
