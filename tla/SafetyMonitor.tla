--------------------------- MODULE SafetyMonitor ---------------------------
(***************************************************************************)
(* The MCU's heartbeat supervision: MCU/src/safety.cpp (safety timer, SAFE *)
(* state, hardware watchdog), with the part of someip_thread that kicks it *)
(* and the LED loop of main (MCU/src/main.cpp).                            *)
(*                                                                         *)
(* Time is discrete.  A tick is any fixed unit; every constant below is a  *)
(* number of ticks.  Three execution contexts touch the shared state, in   *)
(* decreasing priority:                                                    *)
(*   - the expiry callback safety_timeout, which runs to completion except *)
(*     where can_send may block it (at most WARN_TIMEOUT);                 *)
(*   - main's LED loop (priority 0);                                       *)
(*   - someip_thread (priority 6), which kicks when a packet arrives.      *)
(* A step of a thread is possible only when no context above it is ready.  *)
(***************************************************************************)
EXTENDS Naturals

CONSTANTS
  HEARTBEAT_TIMEOUT,  \* period of the safety timer
  WDT_TIMEOUT,        \* window of the hardware watchdog
  WARN_TIMEOUT,       \* longest can_send of a warning frame
  MAX_LAG,            \* ticks a ready thread can be kept from finishing
  SILENCE_CAP         \* where the history variable silence saturates

ASSUME ConstantsAssumption ==
  /\ HEARTBEAT_TIMEOUT \in Nat /\ WDT_TIMEOUT \in Nat
  /\ WARN_TIMEOUT \in Nat /\ MAX_LAG \in Nat /\ SILENCE_CAP \in Nat
  /\ WARN_TIMEOUT < HEARTBEAT_TIMEOUT
  /\ MAX_LAG < HEARTBEAT_TIMEOUT
  /\ HEARTBEAT_TIMEOUT + MAX_LAG + 1 < WDT_TIMEOUT
  /\ HEARTBEAT_TIMEOUT <= SILENCE_CAP

VARIABLES
  phase,       \* "boot", "run", or "halted" (main returned before safety_init)
  safe_state,  \* FALSE = NORMAL, TRUE = SAFE
  timer,       \* ticks until safety_timer expires
  wdtReady,    \* device_is_ready(wdt)
  wdt,         \* ticks until the watchdog resets the SoC
  cb,          \* safety_timeout: idle, expired, or inside can_send_warning
  cbLeft,      \* ticks that can_send may still block the callback
  rx,          \* someip_thread: waiting, or at a statement of the kick
  led,         \* level of the LED pin
  mainPc,      \* main: asleep, or past the check and about to toggle the LED
  lag,         \* ticks since the thread that is now ready became ready
  silence,     \* history: ticks since the safety timer was last started
  ledMain      \* history: toggles by main since SAFE was entered (up to 2)

vars == <<phase, safe_state, timer, wdtReady, wdt, cb, cbLeft, rx, led, mainPc,
          lag, silence, ledMain>>

Phases == {"boot", "run", "halted"}
CbStates == {"idle", "expired", "entering", "repeating"}
RxStates == {"wait", "feed", "restart", "recover"}
MainStates == {"asleep", "toggle"}

\* The callback is inside can_send, where the scheduler may run a thread.
CbBlocked == cb \in {"entering", "repeating"}
CbReady == cb = "expired"

\* Some thread has work to do and is waiting for the processor.
Busy(r, m) == r # "wait" \/ m = "toggle"
LagAfter(r, m) == IF Busy(r, m) THEN lag ELSE 0

-----------------------------------------------------------------------------

\* Power-on and reset values: static initialisers; timer and watchdog stopped.
Init ==
  /\ phase = "boot"
  /\ safe_state = FALSE
  /\ timer = HEARTBEAT_TIMEOUT
  /\ wdtReady \in BOOLEAN
  /\ wdt = WDT_TIMEOUT
  /\ cb = "idle" /\ cbLeft = 0
  /\ rx = "wait"
  /\ led = TRUE
  /\ mainPc = "asleep"
  /\ lag = 0
  /\ silence = 0
  /\ ledMain = 0


\* main() up to its loop: the peripherals are ready, safety_init arms the
\* watchdog and starts the periodic timer, and the threads are created.
BootOk ==
  /\ phase = "boot"
  /\ phase' = "run"
  /\ UNCHANGED <<wdtReady, safe_state, timer, wdt, cb, cbLeft, rx, led, mainPc,
                 lag, silence, ledMain>>

\* A peripheral is not ready: main returns before safety_init.
BootFail ==
  /\ phase = "boot"
  /\ phase' = "halted"
  /\ UNCHANGED <<wdtReady, safe_state, timer, wdt, cb, cbLeft, rx, led, mainPc,
                 lag, silence, ledMain>>

-----------------------------------------------------------------------------

\* A fault: the warning is sent with the CAN thread's timeout.
LongWarnTimeout == HEARTBEAT_TIMEOUT

\* K_MSEC(5): how long can_send_warning may block the callback.
WarnTimeout == WARN_TIMEOUT

\* The callback up to its can_send: NORMAL enters SAFE, SAFE repeats the
\* warning.  No thread can run between the check and the assignment.
SafetyTimeout ==
  /\ phase = "run" /\ CbReady
  /\ safe_state' = TRUE
  /\ cb' = IF safe_state THEN "repeating" ELSE "entering"
  /\ cbLeft' = WarnTimeout
  /\ ledMain' = IF safe_state THEN ledMain ELSE 0
  /\ UNCHANGED <<phase, wdtReady, timer, wdt, rx, led, mainPc, lag, silence>>

\* The watchdog after the callback: fed in the SAFE branch only.
FeedAfterWarning ==
  IF cb = "repeating" /\ wdtReady THEN WDT_TIMEOUT ELSE wdt

\* can_send returns (sent, error or timeout: the result is ignored) and the
\* callback finishes: it toggles the LED and, in the SAFE branch only, feeds
\* the watchdog.
WarnReturn ==
  /\ phase = "run" /\ CbBlocked
  /\ led' = ~led
  /\ wdt' = FeedAfterWarning
  /\ cb' = "idle" /\ cbLeft' = 0
  /\ UNCHANGED <<phase, wdtReady, safe_state, timer, rx, mainPc, lag, silence,
                 ledMain>>

-----------------------------------------------------------------------------

\* someip_thread has the processor.
SomeipRuns == phase = "run" /\ ~CbReady /\ mainPc = "asleep"

\* someip_receive returns 0: any event of the service, heartbeat or not,
\* leads to safety_kick_watchdog.
Receive ==
  /\ SomeipRuns /\ rx = "wait"
  /\ rx' = "feed"
  /\ UNCHANGED <<phase, wdtReady, safe_state, timer, wdt, cb, cbLeft, led,
                 mainPc, lag, silence, ledMain>>

\* A fault: the SAFE flag is cleared before the timer is restarted.
KickClearsFirst ==
  /\ SomeipRuns /\ rx = "feed"
  /\ wdt' = IF wdtReady THEN WDT_TIMEOUT ELSE wdt
  /\ safe_state' = FALSE
  /\ rx' = "restart"
  /\ UNCHANGED <<phase, wdtReady, timer, cb, cbLeft, led, mainPc, lag, silence,
                 ledMain>>

\* A fault: a packet restarts the timer but does not feed the watchdog.
KickWithoutFeed ==
  /\ SomeipRuns /\ rx = "feed"
  /\ rx' = "restart"
  /\ UNCHANGED <<phase, wdtReady, safe_state, timer, wdt, cb, cbLeft, led,
                 mainPc, lag, silence, ledMain>>

KickFeed ==
  /\ SomeipRuns /\ rx = "feed"
  /\ wdt' = IF wdtReady THEN WDT_TIMEOUT ELSE wdt
  /\ rx' = "restart"
  /\ UNCHANGED <<phase, wdtReady, safe_state, timer, cb, cbLeft, led, mainPc,
                 lag, silence, ledMain>>

\* A fault: a packet does not restart the safety timer.
KickWithoutRestart ==
  /\ SomeipRuns /\ rx = "restart"
  /\ silence' = 0
  /\ rx' = "recover"
  /\ UNCHANGED <<phase, wdtReady, safe_state, timer, wdt, cb, cbLeft, led,
                 mainPc, lag, ledMain>>

\* k_timer_start: both the first expiry and the period are set again.
KickRestart ==
  /\ SomeipRuns /\ rx = "restart"
  /\ timer' = HEARTBEAT_TIMEOUT
  /\ silence' = 0
  /\ rx' = "recover"
  /\ UNCHANGED <<phase, wdtReady, safe_state, wdt, cb, cbLeft, led, mainPc,
                 lag, ledMain>>

\* A fault: a packet restarts the timer but does not end SAFE.
KickKeepsSafe ==
  /\ SomeipRuns /\ rx = "recover"
  /\ rx' = "wait"
  /\ lag' = LagAfter("wait", mainPc)
  /\ UNCHANGED <<phase, wdtReady, safe_state, timer, wdt, cb, cbLeft, led,
                 mainPc, silence, ledMain>>

KickRecover ==
  /\ SomeipRuns /\ rx = "recover"
  /\ safe_state' = FALSE
  /\ rx' = "wait"
  /\ lag' = LagAfter("wait", mainPc)
  /\ UNCHANGED <<phase, wdtReady, timer, wdt, cb, cbLeft, led, mainPc, silence,
                 ledMain>>

-----------------------------------------------------------------------------

\* A fault: main toggles the LED whatever the state.
MainTogglesAlways ==
  /\ phase = "run" /\ ~CbReady /\ mainPc = "asleep"
  /\ mainPc' = "toggle"
  /\ UNCHANGED <<phase, wdtReady, safe_state, timer, wdt, cb, cbLeft, rx, led,
                 lag, silence, ledMain>>

\* main wakes and checks safe_state; in SAFE it goes back to sleep.
MainCheck ==
  /\ phase = "run" /\ ~CbReady /\ mainPc = "asleep"
  /\ ~safe_state
  /\ mainPc' = "toggle"
  /\ UNCHANGED <<phase, wdtReady, safe_state, timer, wdt, cb, cbLeft, rx, led,
                 lag, silence, ledMain>>

MainToggle ==
  /\ phase = "run" /\ ~CbReady /\ mainPc = "toggle"
  /\ led' = ~led
  /\ mainPc' = "asleep"
  /\ lag' = LagAfter(rx, "asleep")
  /\ ledMain' = IF safe_state /\ ledMain < 2 THEN ledMain + 1 ELSE ledMain
  /\ UNCHANGED <<phase, wdtReady, safe_state, timer, wdt, cb, cbLeft, rx,
                 silence>>

-----------------------------------------------------------------------------

\* A fault: can_send of a warning waits for ever.
WarningUnbounded ==
  /\ phase = "run" /\ ~CbReady
  /\ Busy(rx, mainPc) => lag < MAX_LAG

\* Time cannot pass while the callback is ready, past the can_send timeout,
\* or past the scheduling bound of a ready thread.
TimeMayPass ==
  /\ phase = "run" /\ ~CbReady
  /\ CbBlocked => cbLeft > 0
  /\ Busy(rx, mainPc) => lag < MAX_LAG

WdtExpires == wdtReady /\ wdt = 1

\* A fault: the timer is started without a period.
OneShotTimer == IF timer = 0 THEN 0 ELSE timer - 1

\* The periodic timer reloads itself when it expires.
NextTimer == IF timer = 1 THEN HEARTBEAT_TIMEOUT ELSE timer - 1

Tick ==
  /\ TimeMayPass /\ ~WdtExpires
  /\ timer' = NextTimer
  /\ cb' = IF timer = 1 /\ cb = "idle" THEN "expired" ELSE cb
  /\ cbLeft' = IF CbBlocked THEN cbLeft - 1 ELSE cbLeft
  /\ wdt' = IF wdtReady THEN wdt - 1 ELSE wdt
  /\ lag' = IF Busy(rx, mainPc) THEN lag + 1 ELSE lag
  /\ silence' = IF silence < SILENCE_CAP THEN silence + 1 ELSE silence
  /\ UNCHANGED <<phase, wdtReady, safe_state, rx, led, mainPc, ledMain>>

\* The watchdog window closes: WDT_FLAG_RESET_SOC takes every variable back
\* to its power-on value.
WdtReset ==
  /\ TimeMayPass /\ WdtExpires
  /\ phase' = "boot"
  /\ safe_state' = FALSE
  /\ timer' = HEARTBEAT_TIMEOUT /\ wdt' = WDT_TIMEOUT
  /\ cb' = "idle" /\ cbLeft' = 0
  /\ rx' = "wait" /\ mainPc' = "asleep"
  /\ led' = TRUE
  /\ lag' = 0 /\ silence' = 0 /\ ledMain' = 0
  /\ UNCHANGED wdtReady

Boot == BootOk \/ BootFail
Callback == SafetyTimeout \/ WarnReturn
Someip == Receive \/ KickFeed \/ KickRestart \/ KickRecover
MainLoop == MainCheck \/ MainToggle

Next == Boot \/ Callback \/ Someip \/ MainLoop \/ Tick \/ WdtReset

Spec == Init /\ [][Next]_vars

\* Time passes, the SoC boots, the callback and a thread that is ready
\* finish.  Packets (Receive) and main's wake-ups are not promised.
Fairness ==
  /\ WF_vars(Boot) /\ WF_vars(Callback)
  /\ WF_vars(KickFeed \/ KickRestart \/ KickRecover)
  /\ WF_vars(MainToggle)
  /\ WF_vars(Tick \/ WdtReset)

FairSpec == Spec /\ Fairness

-----------------------------------------------------------------------------

\* Every variable keeps its range: timer and wdt are running counters that
\* never reach zero unnoticed.
TypeOK ==
  /\ phase \in Phases
  /\ safe_state \in BOOLEAN
  /\ timer \in 1..HEARTBEAT_TIMEOUT
  /\ wdtReady \in BOOLEAN /\ wdt \in 1..WDT_TIMEOUT
  /\ cb \in CbStates
  /\ cbLeft \in Nat
  /\ rx \in RxStates
  /\ led \in BOOLEAN
  /\ mainPc \in MainStates
  /\ lag \in 0..MAX_LAG
  /\ silence \in 0..SILENCE_CAP
  /\ ledMain \in 0..2

\* A silence of HEARTBEAT_TIMEOUT or more is answered by SAFE, whatever
\* someip_thread was in the middle of when the timer expired: the three
\* statements of safety_kick_watchdog race with safety_timeout.
SilenceDetected ==
  phase = "run" /\ silence >= HEARTBEAT_TIMEOUT /\ cb # "expired"
    => safe_state

\* SAFE is entered only after a full HEARTBEAT_TIMEOUT without a restart of
\* the timer: an expiry never slips in behind a packet.
NoFalseAlarm ==
  [][~safe_state /\ safe_state' => silence >= HEARTBEAT_TIMEOUT]_vars

\* The watchdog resets the SoC only after SAFE was entered: in NORMAL the
\* packets that keep the safety timer from expiring also feed the watchdog.
ResetOnlyFromSafe ==
  [][phase = "run" /\ phase' = "boot" => safe_state]_vars

\* The callback is never still blocked in can_send when the timer expires
\* again, so no expiry is lost.
ExpiryNeverOverlaps == CbBlocked => cbLeft < timer

\* The check of safety_is_safe_state and the toggle in main are not atomic,
\* but main toggles the LED at most once in a stay in SAFE.
LedGlitchBounded == ledMain <= 1

\* If packets stop for good, warnings go on for ever (the timer is periodic
\* and the callback never gives up), unless main never started the system.
WarningsNeverStop ==
  <>[](rx = "wait") => []<>CbBlocked \/ <>(phase = "halted")

\* A packet that arrives brings the MCU back to NORMAL, however the kick is
\* interleaved with expiries, unless the SoC is reset meanwhile.
KickRecovers == rx = "feed" ~> ~safe_state

\* What safety_timeout promises of SAFE ("WDT feed ... no reset"): in SAFE
\* the watchdog does not reset the SoC.
SafeStateHeld ==
  [][phase = "run" /\ safe_state => phase' # "boot"]_vars

-----------------------------------------------------------------------------

\* What the rest of the system sees of the monitor.  From the restart of the
\* timer on, a kick has brought the monitor back to NORMAL.
Mode ==
  IF phase # "run" THEN "DOWN"
  ELSE IF safe_state /\ rx # "recover" THEN "SAFE"
  ELSE "NORMAL"

Contract == INSTANCE HeartbeatContract
  WITH TIMEOUT <- HEARTBEAT_TIMEOUT, CAP <- SILENCE_CAP,
       mode <- Mode, quiet <- silence

\* The interrupts, threads and the watchdog together behave as the atomic
\* supervisor of HeartbeatContract.
ImplementsContract == Contract!Spec

=============================================================================
