--------------------------- MODULE HeartbeatLink ---------------------------
(***************************************************************************)
(* The heartbeat from end to end: the thread of mpu/ai/drowsiness.py that  *)
(* sends every 50 ms, a link that delays, drops and repeats packets (UDP,  *)
(* or the UART tunnel, whose receiver may swallow one: UartReceiver), and  *)
(* the supervision on the MCU.  Processes on both sides crash and restart. *)
(*                                                                         *)
(* The MCU is the contract HeartbeatContract, which the interrupts and     *)
(* threads of MCU/src/safety.cpp implement (SafetyMonitor).  Every packet  *)
(* of the MPU counts as a sign of life, a Notify as well as a heartbeat.   *)
(***************************************************************************)
EXTENDS Naturals

CONSTANTS
  PERIOD,   \* HEARTBEAT_PERIOD_MS, in ticks
  JITTER,   \* how much longer than asked sleep and send may take
  DELAY,    \* longest time from a send to the kick on the MCU
  TIMEOUT,  \* HEARTBEAT_TIMEOUT_MS
  CAP       \* where quiet saturates

\* The slack that the 50 ms and the 100 ms leave is enough for one packet to
\* be late, and not for one to be lost.
ASSUME LinkAssumption ==
  /\ PERIOD \in Nat \ {0} /\ JITTER \in Nat /\ DELAY \in Nat
  /\ TIMEOUT \in Nat /\ CAP \in Nat
  /\ PERIOD + JITTER + DELAY < TIMEOUT
  /\ TIMEOUT <= CAP

VARIABLES
  mpu,     \* the process on the MPU: "up" or "down"
  gap,     \* ticks since its heartbeat thread last sent
  wire,    \* ages of the packets on their way
  mode,    \* the MCU: "DOWN", "NORMAL" or "SAFE"
  quiet,   \* ticks since a packet reached it, or since its start
  lossy,   \* history: the last heartbeat was lost
  steady,  \* history: nothing was lost, and the MPU up, since a packet came
  alone    \* history: ticks since the MPU died or, if later, the MCU started

mcuVars == <<mode, quiet>>
linkVars == <<mpu, gap, wire, mcuVars, lossy, steady, alone>>

MCU == INSTANCE HeartbeatContract

\* Both sides are off.
Init ==
  /\ mpu = "down" /\ gap = PERIOD /\ wire = {}
  /\ MCU!Init
  /\ lossy = FALSE /\ steady = FALSE /\ alone = 0

-----------------------------------------------------------------------------
\* The MPU.

\* The service manager starts the process; its first heartbeat is due.
Restart ==
  /\ mpu = "down" /\ mpu' = "up"
  /\ UNCHANGED <<gap, wire, mcuVars, lossy, steady, alone>>

\* The process ends or dies, and its thread with it: the next one starts anew.
Crash ==
  /\ mpu = "up" /\ mpu' = "down" /\ gap' = PERIOD
  /\ steady' = FALSE /\ alone' = 0
  /\ UNCHANGED <<wire, mcuVars, lossy>>

\* A fault: an exception of a send costs a whole further sleep.
LongestGapOfTwo == 2 * PERIOD + JITTER

\* send_heartbeat, and then sleep: the thread never waits longer.
LongestGap == PERIOD + JITTER

\* The heartbeat thread sends.  The packet may be lost, and a send that raises
\* is caught and logged: the thread goes on in either case.
Beat ==
  /\ mpu = "up" /\ gap >= PERIOD
  /\ gap' = 0
  /\ lossy' \in BOOLEAN
  /\ wire' = IF lossy' THEN wire ELSE wire \cup {0}
  /\ steady' = (steady /\ ~lossy')
  /\ UNCHANGED <<mpu, mcuVars, alone>>

\* main() sends a Notify; one that is lost changes nothing.
Notify ==
  /\ mpu = "up"
  /\ wire' = wire \cup {0}
  /\ UNCHANGED <<mpu, gap, mcuVars, lossy, steady, alone>>

-----------------------------------------------------------------------------
\* The MCU and the link.

\* A fault: a packet in SAFE is not taken for a sign of life.
ArriveInNormal ==
  IF mode = "NORMAL"
  THEN MCU!Heartbeat /\ steady' = (mpu = "up")
  ELSE UNCHANGED <<mcuVars, steady>>

\* A packet reaches the MCU; while the MCU is down nobody receives it.
Arrive ==
  IF mode = "DOWN"
  THEN UNCHANGED <<mcuVars, steady>>
  ELSE MCU!Heartbeat /\ steady' = (mpu = "up")

Deliver(a) ==
  /\ a \in wire /\ Arrive
  /\ wire' = wire \ {a}
  /\ UNCHANGED <<mpu, gap, lossy, alone>>

\* A copy of it, or another packet of the same age, is still on its way.
DeliverOne(a) ==
  /\ a \in wire /\ Arrive
  /\ UNCHANGED <<mpu, gap, wire, lossy, alone>>

McuStarts ==
  /\ MCU!Start
  /\ steady' = (mpu = "up") /\ alone' = 0
  /\ UNCHANGED <<mpu, gap, wire, lossy>>

McuEntersSafe ==
  /\ MCU!Enter
  /\ UNCHANGED <<mpu, gap, wire, lossy, steady, alone>>

\* The watchdog resets the MCU in SAFE.
McuFails ==
  /\ MCU!Fail
  /\ UNCHANGED <<mpu, gap, wire, lossy, steady, alone>>

\* A fault: the MCU may let a silence go unanswered.
McuDrifts ==
  /\ quiet' = IF mode # "DOWN" /\ quiet < CAP THEN quiet + 1 ELSE quiet
  /\ UNCHANGED mode

\* The time of the MCU.
McuElapses ==
  \/ MCU!Elapse
  \/ mode = "DOWN" /\ UNCHANGED mcuVars

\* Time passes, but nobody is later than the bounds say.
Tick ==
  /\ DELAY \notin wire /\ (mpu = "up" => gap < LongestGap)
  /\ McuElapses
  /\ wire' = {a + 1 : a \in wire}
  /\ gap' = IF mpu = "up" THEN gap + 1 ELSE gap
  /\ alone' = IF alone <= DELAY + TIMEOUT THEN alone + 1 ELSE alone
  /\ UNCHANGED <<mpu, lossy, steady>>

-----------------------------------------------------------------------------

Next ==
  \/ Restart \/ Crash \/ Beat \/ Notify
  \/ \E a \in wire : Deliver(a) \/ DeliverOne(a)
  \/ McuStarts \/ McuEntersSafe \/ McuFails \/ Tick

\* Time passes and threads run, a packet that is due arrives, and the MCU
\* boots.  Nothing is assumed of Restart, of losses or of main().
Spec ==
  /\ Init /\ [][Next]_linkVars
  /\ WF_linkVars(Tick) /\ WF_linkVars(Beat) /\ WF_linkVars(Deliver(DELAY))
  /\ WF_linkVars(McuStarts) /\ WF_linkVars(McuEntersSafe)

-----------------------------------------------------------------------------
\* Properties.

\* The values the variables take: neither thread nor packet is ever overdue.
TypeOK ==
  /\ mpu \in {"up", "down"} /\ gap \in 0..(PERIOD + JITTER)
  /\ wire \subseteq 0..DELAY
  /\ mode \in {"DOWN", "NORMAL", "SAFE"} /\ quiet \in 0..CAP
  /\ lossy \in BOOLEAN /\ steady \in BOOLEAN
  /\ alone \in 0..(DELAY + TIMEOUT + 1)

\* The MPU stops and the MCU is in SAFE (or reset) after the timeout and the
\* delay of the link at the latest, although packets sent before the crash
\* still arrive and bring it back to NORMAL.
DeadMpuNoticed ==
  mpu = "down" /\ alone > DELAY + TIMEOUT => mode # "NORMAL"

\* A living MPU keeps the MCU in NORMAL: SAFE is entered only if a heartbeat
\* was lost, or the MPU was down, since the last packet that arrived.
NoFalseSafe ==
  [][mode = "NORMAL" /\ mode' = "SAFE" => ~steady]_linkVars

\* Once the MPU stays up and its heartbeats come through, the MCU ends up in
\* NORMAL for good, wherever it was, in the middle of a reset or in SAFE.
Heals == <>[](mpu = "up" /\ ~lossy) => <>[](mode = "NORMAL")

=============================================================================
