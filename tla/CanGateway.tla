----------------------------- MODULE CanGateway -----------------------------
(***************************************************************************)
(* The MCU's CAN-FD path: the shared drowsiness level between              *)
(* someip_thread and can_thread (MCU/src/main.cpp), and the frame builder  *)
(* with its alive counter (MCU/src/can_gateway.cpp), which the CAN thread  *)
(* and the safety callback share without a lock.                           *)
(*                                                                         *)
(* One core, preemptive priorities: safety callback > can_thread (5) >     *)
(* someip_thread (6).  someip_thread runs only while can_thread is blocked *)
(* (asleep, or inside can_send); the callback may run between any two      *)
(* accesses of can_thread.  The safety timer itself is in SafetyMonitor;   *)
(* of it, only this is needed here: it expires again and again, not within *)
(* HEARTBEAT_TIMEOUT of a kick, and never twice while the callback is      *)
(* still in can_send (SafetyMonitor!ExpiryNeverOverlaps).                  *)
(***************************************************************************)
EXTENDS Naturals, Sequences

CONSTANTS
  Levels,      \* payloads of a Notify, zero included; 0xFF may be one too
  WARNING,     \* the level byte of a warning frame (0xFF)
  CTR_MOD,     \* alive_counter is a uint8_t: 256
  MAX_NOTIFY   \* bound on the notifications of one level

ASSUME CanAssumption ==
  /\ Levels \subseteq Nat /\ 0 \in Levels
  /\ WARNING \in Nat
  /\ CTR_MOD \in Nat /\ CTR_MOD > 1
  /\ MAX_NOTIFY \in Nat

VARIABLES
  drowsiness_level,  \* atomic, shared by the two threads
  alive_counter,     \* static uint8_t, shared by can_thread and the callback
  canPc,             \* can_thread: the statement it is about to execute
  canFrame,          \* the frame it is building or sending
  warnFrame,         \* the frame the callback is sending; NoFrame when idle
  cbInWindow,        \* the callback ran between can_thread's load and store
  rxPc,              \* someip_thread: waiting, or before its kick
  fresh,             \* the safety timer was restarted and cannot expire yet
  bus,               \* the last two frames that got onto the bus
  notified,          \* history: notifications per level
  sent,              \* history: drowsiness frames on the bus per level
  owed               \* history: the level that can_send must still be given

canVars == <<drowsiness_level, alive_counter, canPc, canFrame, warnFrame,
             cbInWindow, rxPc, fresh, bus, notified, sent, owed>>

CanStates == {"get", "load", "store", "send", "sending", "clear", "sleep"}

Frames == [level : Levels \cup {WARNING}, ctr : 0..(CTR_MOD - 1)]
NoFrame == [level |-> WARNING, ctr |-> CTR_MOD]

\* can_thread is blocked, and lower priorities may run.
CanBlocked == canPc \in {"sending", "sleep"}

\* A frame gets onto the bus; only the last two are remembered.
OnBus(frame) ==
  bus' = (IF Len(bus) < 2 THEN bus ELSE Tail(bus)) \o <<frame>>

\* A fault: the counter is wider than the byte that carries it.
SuccNoWrap(ctr) == ctr + 1

Succ(ctr) == (ctr + 1) % CTR_MOD

CanInit ==
  /\ drowsiness_level = 0
  /\ alive_counter = 0
  /\ canPc = "get"
  /\ canFrame = NoFrame /\ warnFrame = NoFrame
  /\ cbInWindow = FALSE
  /\ rxPc = "wait"
  /\ fresh = TRUE
  /\ bus = <<>>
  /\ notified = [l \in Levels |-> 0]
  /\ sent = [l \in Levels |-> 0]
  /\ owed = 0

-----------------------------------------------------------------------------

\* A fault: a level of one is taken for no level.
GetAboveOne ==
  /\ canPc = "get"
  /\ IF drowsiness_level > 1
     THEN /\ canPc' = "load"
          /\ canFrame' = [level |-> drowsiness_level, ctr |-> CTR_MOD]
     ELSE canPc' = "sleep" /\ UNCHANGED canFrame
  /\ UNCHANGED <<drowsiness_level, alive_counter, warnFrame, cbInWindow,
                 rxPc, fresh, bus, notified, sent, owed>>

\* The shared level is read once, into a local.
CanGet ==
  /\ canPc = "get"
  /\ IF drowsiness_level > 0
     THEN /\ canPc' = "load"
          /\ canFrame' = [level |-> drowsiness_level, ctr |-> CTR_MOD]
     ELSE canPc' = "sleep" /\ UNCHANGED canFrame
  /\ UNCHANGED <<drowsiness_level, alive_counter, warnFrame, cbInWindow,
                 rxPc, fresh, bus, notified, sent, owed>>

\* alive_counter++ is a load and a store ...
CanLoad ==
  /\ canPc = "load"
  /\ canFrame' = [level |-> canFrame.level, ctr |-> alive_counter]
  /\ canPc' = "store"
  /\ cbInWindow' = FALSE
  /\ UNCHANGED <<drowsiness_level, alive_counter, warnFrame, rxPc, fresh, bus,
                 notified, sent, owed>>

\* A fault: the counter is used but not incremented.
StoreOld ==
  /\ canPc = "store"
  /\ alive_counter' = canFrame.ctr
  /\ canPc' = "send"
  /\ UNCHANGED <<drowsiness_level, canFrame, warnFrame, cbInWindow, rxPc,
                 fresh, bus, notified, sent, owed>>

\* ... and the store may overwrite an increment of the callback.
CanStore ==
  /\ canPc = "store"
  /\ alive_counter' = Succ(canFrame.ctr)
  /\ canPc' = "send"
  /\ UNCHANGED <<drowsiness_level, canFrame, warnFrame, cbInWindow, rxPc,
                 fresh, bus, notified, sent, owed>>

\* can_send is given the frame.
CanSend ==
  /\ canPc = "send"
  /\ canPc' = "sending"
  /\ owed' = IF canFrame.level = owed THEN 0 ELSE owed
  /\ UNCHANGED <<drowsiness_level, alive_counter, canFrame, warnFrame,
                 cbInWindow, rxPc, fresh, bus, notified, sent>>

CanSent ==
  /\ canPc = "sending"
  /\ OnBus(canFrame)
  /\ sent' = [sent EXCEPT ![canFrame.level] = @ + 1]
  /\ canPc' = "clear"
  /\ UNCHANGED <<drowsiness_level, alive_counter, canFrame, warnFrame,
                 cbInWindow, rxPc, fresh, notified, owed>>

\* can_send fails or times out: its result is dropped, nothing is retried.
CanFailed ==
  /\ canPc = "sending"
  /\ canPc' = "clear"
  /\ UNCHANGED <<drowsiness_level, alive_counter, canFrame, warnFrame,
                 cbInWindow, rxPc, fresh, bus, notified, sent, owed>>

\* A fault: the level is not cleared and is sent for ever.
KeepLevel ==
  /\ canPc = "clear"
  /\ canFrame' = NoFrame
  /\ canPc' = "sleep"
  /\ UNCHANGED <<drowsiness_level, alive_counter, warnFrame, cbInWindow,
                 rxPc, fresh, bus, notified, sent, owed>>

\* atomic_set(&drowsiness_level, 0), whatever has been written meanwhile.
CanClear ==
  /\ canPc = "clear"
  /\ drowsiness_level' = 0
  /\ canFrame' = NoFrame
  /\ canPc' = "sleep"
  /\ UNCHANGED <<alive_counter, warnFrame, cbInWindow, rxPc, fresh, bus,
                 notified, sent, owed>>

CanWake ==
  /\ canPc = "sleep"
  /\ canPc' = "get"
  /\ UNCHANGED <<drowsiness_level, alive_counter, canFrame, warnFrame,
                 cbInWindow, rxPc, fresh, bus, notified, sent, owed>>

-----------------------------------------------------------------------------

\* EVENT_NOTIFY: the payload replaces the shared level, read or not.  While
\* another one is in can_send nothing is owed: CanClear will drop it.
Notify(l) ==
  /\ CanBlocked /\ rxPc = "wait"
  /\ notified[l] < MAX_NOTIFY
  /\ drowsiness_level' = l
  /\ notified' = [notified EXCEPT ![l] = @ + 1]
  /\ owed' = IF canPc = "sleep" THEN l ELSE owed
  /\ rxPc' = "kick"
  /\ UNCHANGED <<alive_counter, canPc, canFrame, warnFrame, cbInWindow, fresh,
                 bus, sent>>

\* EVENT_HEARTBEAT, and any other event: no extra processing.
Heartbeat ==
  /\ CanBlocked /\ rxPc = "wait"
  /\ rxPc' = "kick"
  /\ UNCHANGED <<drowsiness_level, alive_counter, canPc, canFrame, warnFrame,
                 cbInWindow, fresh, bus, notified, sent, owed>>

\* safety_kick_watchdog restarts the safety timer.
Kick ==
  /\ CanBlocked /\ rxPc = "kick"
  /\ rxPc' = "wait"
  /\ fresh' = TRUE
  /\ UNCHANGED <<drowsiness_level, alive_counter, canPc, canFrame, warnFrame,
                 cbInWindow, bus, notified, sent, owed>>

\* The timer's period passes.  can_thread polls every 10 ms, so it has seen a
\* level that was pending; it can be inside can_send for 100 ms.
PeriodPasses ==
  /\ fresh
  /\ canPc = "sending" \/ (canPc = "sleep" /\ drowsiness_level = 0)
  /\ fresh' = FALSE
  /\ UNCHANGED <<drowsiness_level, alive_counter, canPc, canFrame, warnFrame,
                 cbInWindow, rxPc, bus, notified, sent, owed>>

\* The safety callback builds a warning frame; its load and store cannot be
\* interrupted by a thread.  One expiry at most falls between can_thread's
\* load and store, which are instructions apart.
WarnBuild ==
  /\ ~fresh /\ warnFrame = NoFrame
  /\ canPc = "store" => ~cbInWindow
  /\ warnFrame' = [level |-> WARNING, ctr |-> alive_counter]
  /\ alive_counter' = Succ(alive_counter)
  /\ cbInWindow' = TRUE
  /\ UNCHANGED <<drowsiness_level, canPc, canFrame, rxPc, fresh, bus,
                 notified, sent, owed>>

WarnSent ==
  /\ warnFrame # NoFrame
  /\ OnBus(warnFrame)
  /\ warnFrame' = NoFrame
  /\ UNCHANGED <<drowsiness_level, alive_counter, canPc, canFrame, cbInWindow,
                 rxPc, fresh, notified, sent, owed>>

WarnFailed ==
  /\ warnFrame # NoFrame
  /\ warnFrame' = NoFrame
  /\ UNCHANGED <<drowsiness_level, alive_counter, canPc, canFrame, cbInWindow,
                 rxPc, fresh, bus, notified, sent, owed>>

CanThread ==
  \/ CanGet \/ CanLoad \/ CanStore \/ CanSend \/ CanSent \/ CanFailed
  \/ CanClear \/ CanWake

CanNext ==
  \/ CanThread
  \/ (\E l \in Levels : Notify(l)) \/ Heartbeat \/ Kick
  \/ PeriodPasses \/ WarnBuild \/ WarnSent \/ WarnFailed

CanSpec == CanInit /\ [][CanNext]_canVars

\* can_thread runs for ever: nothing of higher priority keeps the processor,
\* and can_send returns within its timeout.
CanFairSpec == CanSpec /\ WF_canVars(CanThread)

-----------------------------------------------------------------------------

\* Every variable keeps its range; a frame on the bus was fully built.
CanTypeOK ==
  /\ drowsiness_level \in Levels
  /\ alive_counter \in 0..(CTR_MOD - 1)
  /\ canPc \in CanStates
  /\ canFrame.level \in Levels \cup {WARNING} /\ canFrame.ctr \in 0..CTR_MOD
  /\ warnFrame \in Frames \cup {NoFrame}
  /\ cbInWindow \in BOOLEAN /\ fresh \in BOOLEAN
  /\ rxPc \in {"wait", "kick"}
  /\ bus \in Seq(Frames) /\ Len(bus) <= 2
  /\ notified \in [Levels -> 0..MAX_NOTIFY]
  /\ sent \in [Levels -> Nat] /\ owed \in Levels

\* A notification is put on the bus at most once: can_thread clears the level
\* it has sent before it looks again.
AtMostOnce == \A l \in Levels : sent[l] <= notified[l]

\* The alive counter never goes back and never jumps, although can_thread's
\* increment can overwrite one of the callback.
CounterAdvances ==
  [][alive_counter' \in {alive_counter, Succ(alive_counter)}]_canVars

\* A level that arrives while can_thread sleeps is lost in no case: until it is
\* handed to can_send, or replaced by a newer one, it is the shared level, or
\* the one that can_thread has read.
OwedIsKept ==
  owed # 0 =>
    /\ drowsiness_level = owed
    /\ canPc \in {"load", "store", "send"} => canFrame.level = owed
    /\ canPc \notin {"sending", "clear"}

\* In the end it is handed to can_send, or a newer one is (or a newer zero
\* takes it back), although can_thread polls and clears what it has not read.
LevelIsTaken == []OwedIsKept /\ (owed # 0 ~> owed = 0)

\* What docs/hardware_verify_guide_kr.html says of a level that is received: a
\* frame is sent.  So the level that can_thread clears is the one it has sent.
EveryLevelIsSent ==
  [][canPc = "clear" /\ canPc' # "clear"
       => drowsiness_level \in {0, canFrame.level}]_canVars

=============================================================================
