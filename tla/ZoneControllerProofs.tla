------------------------ MODULE ZoneControllerProofs ------------------------
(***************************************************************************)
(* Proofs about the two safety-relevant parts of the MCU, for every value  *)
(* of their constants: the heartbeat supervision (SafetyMonitor), and the  *)
(* CAN path with its alive counter (CanGateway).                           *)
(***************************************************************************)
EXTENDS SafetyMonitor, CanGateway, TLAPS

\* Before and without safety_init nothing runs.
NotRunning ==
  phase # "run" => cb = "idle" /\ rx = "wait" /\ ~safe_state /\ silence = 0

\* Until the first expiry the timer measures the silence.
TimerMeasuresSilence ==
  silence < HEARTBEAT_TIMEOUT => timer + silence = HEARTBEAT_TIMEOUT

\* An expiry is answered before time passes, and only after a full period.
ExpiryIsFresh ==
  cb = "expired" => timer = HEARTBEAT_TIMEOUT /\ silence >= HEARTBEAT_TIMEOUT

\* NORMAL lasts only as long as the silence is short.
NormalIsRecent ==
  /\ ~safe_state /\ cb # "expired" => silence < HEARTBEAT_TIMEOUT
  /\ ~safe_state => silence <= HEARTBEAT_TIMEOUT

\* A kick past k_timer_start is recent.
RecoveryIsRecent == rx = "recover" => silence <= lag

\* A kick past wdt_feed has fed the watchdog recently, and so has NORMAL.
FedByKick ==
  wdtReady =>
    /\ rx \in {"restart", "recover"} => wdt + lag >= WDT_TIMEOUT
    /\ ~safe_state => wdt + silence + MAX_LAG >= WDT_TIMEOUT

\* main can be past its check in SAFE only before it toggled once.
ToggleIsFirst ==
  /\ safe_state /\ mainPc = "toggle" => ledMain = 0
  /\ ledMain <= 1

IndInv ==
  /\ TypeOK /\ NotRunning /\ TimerMeasuresSilence /\ ExpiryIsFresh
  /\ ExpiryNeverOverlaps /\ NormalIsRecent /\ RecoveryIsRecent
  /\ FedByKick /\ ToggleIsFirst

-----------------------------------------------------------------------------

\* Every power-on value lies in its range.
LEMMA PowerOnValues ==
  /\ HEARTBEAT_TIMEOUT \in 1..HEARTBEAT_TIMEOUT
  /\ WDT_TIMEOUT \in 1..WDT_TIMEOUT
  /\ 0 \in 0..MAX_LAG /\ 0 \in 0..SILENCE_CAP /\ 0 \in 0..2
  BY ConstantsAssumption DEF ConstantsAssumption

\* Power-on values satisfy the invariant.
LEMMA InitIndInv == Init => IndInv
<1> SUFFICES ASSUME Init PROVE IndInv
  OBVIOUS
<1> USE ConstantsAssumption DEF ConstantsAssumption, Init
<1>1. TypeOK
  BY PowerOnValues DEF TypeOK, Phases, CbStates, RxStates, MainStates
<1>2. NotRunning /\ TimerMeasuresSilence /\ ExpiryIsFresh
  BY DEF NotRunning, TimerMeasuresSilence, ExpiryIsFresh
<1>3. ExpiryNeverOverlaps /\ NormalIsRecent /\ RecoveryIsRecent
  BY DEF ExpiryNeverOverlaps, CbBlocked, NormalIsRecent, RecoveryIsRecent
<1>4. FedByKick /\ ToggleIsFirst
  BY DEF FedByKick, ToggleIsFirst
<1> QED
  BY <1>1, <1>2, <1>3, <1>4 DEF IndInv

\* Every step of every context preserves it.
LEMMA StepIndInv == IndInv /\ [Next]_vars => IndInv'
<1> SUFFICES ASSUME IndInv, [Next]_vars PROVE IndInv'
  OBVIOUS
<1> USE ConstantsAssumption
    DEF ConstantsAssumption, IndInv, TypeOK, NotRunning,
        TimerMeasuresSilence, ExpiryIsFresh, ExpiryNeverOverlaps,
        NormalIsRecent, RecoveryIsRecent, FedByKick, ToggleIsFirst,
        CbBlocked, CbReady, Phases, CbStates, RxStates, MainStates
<1>1. CASE BootOk
  BY <1>1 DEF BootOk
<1>2. CASE BootFail
  BY <1>2 DEF BootFail
<1>3. CASE SafetyTimeout
  BY <1>3 DEF SafetyTimeout, WarnTimeout
<1>4. CASE WarnReturn
  BY <1>4 DEF WarnReturn, FeedAfterWarning
<1>5. CASE Receive
  BY <1>5 DEF Receive, SomeipRuns
<1>6. CASE KickFeed
  BY <1>6 DEF KickFeed, SomeipRuns
<1>7. CASE KickRestart
  BY <1>7 DEF KickRestart, SomeipRuns
<1>8. CASE KickRecover
  <2> USE <1>8 DEF KickRecover, SomeipRuns, LagAfter, Busy
  <2>1. TypeOK'
    <3>1. lag' \in 0..MAX_LAG
      OBVIOUS
    <3> QED
      BY <3>1
  <2>2. NotRunning' /\ TimerMeasuresSilence' /\ ExpiryIsFresh'
    OBVIOUS
  <2>3. NormalIsRecent'
    OBVIOUS
  <2>4. ExpiryNeverOverlaps' /\ RecoveryIsRecent'
    OBVIOUS
  <2>5. FedByKick' /\ ToggleIsFirst'
    OBVIOUS
  <2> QED
    BY <2>1, <2>2, <2>3, <2>4, <2>5
<1>9. CASE MainCheck
  BY <1>9 DEF MainCheck
<1>10. CASE MainToggle
  BY <1>10 DEF MainToggle, LagAfter, Busy
<1>11. CASE Tick
  BY <1>11 DEF Tick, TimeMayPass, WdtExpires, NextTimer, Busy
<1>12. CASE WdtReset
  <2>1. TypeOK'
    BY <1>12, PowerOnValues DEF WdtReset
  <2>2. /\ NotRunning' /\ TimerMeasuresSilence' /\ ExpiryIsFresh'
        /\ ExpiryNeverOverlaps' /\ NormalIsRecent' /\ RecoveryIsRecent'
    BY <1>12 DEF WdtReset
  <2>3. FedByKick' /\ ToggleIsFirst'
    BY <1>12 DEF WdtReset
  <2> QED
    BY <2>1, <2>2, <2>3
<1>13. CASE UNCHANGED vars
  BY <1>13 DEF vars
<1> QED
  BY <1>1, <1>2, <1>3, <1>4, <1>5, <1>6, <1>7, <1>8, <1>9, <1>10, <1>11,
     <1>12, <1>13
  DEF Next, Boot, Callback, Someip, MainLoop

\* The invariant the other theorems rest on holds in every behaviour.
THEOREM Invariance == Spec => []IndInv
  BY InitIndInv, StepIndInv, PTL DEF Spec

-----------------------------------------------------------------------------

\* Timer, watchdog and thread variables keep their ranges.
THEOREM TypeCorrect == Spec => []TypeOK
<1>1. IndInv => TypeOK
  BY DEF IndInv
<1> QED
  BY <1>1, Invariance, PTL

\* A silence of HEARTBEAT_TIMEOUT is answered by SAFE (safety_timeout against
\* safety_kick_watchdog, in any interleaving).
THEOREM SilenceIsDetected == Spec => []SilenceDetected
<1>1. IndInv => SilenceDetected
  BY ConstantsAssumption
  DEF ConstantsAssumption, IndInv, NormalIsRecent, SilenceDetected, TypeOK
<1> QED
  BY <1>1, Invariance, PTL

\* The callback finishes before the next expiry: none is lost.
THEOREM NoExpiryIsLost == Spec => []ExpiryNeverOverlaps
<1>1. IndInv => ExpiryNeverOverlaps
  BY DEF IndInv
<1> QED
  BY <1>1, Invariance, PTL

\* main's unlocked check and toggle of the LED go wrong at most once per stay
\* in SAFE.
THEOREM LedGlitchIsBounded == Spec => []LedGlitchBounded
<1>1. IndInv => LedGlitchBounded
  BY DEF IndInv, ToggleIsFirst, LedGlitchBounded
<1> QED
  BY <1>1, Invariance, PTL

\* SAFE is entered only after a full silence.
THEOREM NoFalseAlarmEver == Spec => NoFalseAlarm
<1>1. IndInv /\ [Next]_vars
        => [~safe_state /\ safe_state' => silence >= HEARTBEAT_TIMEOUT]_vars
  <2> SUFFICES ASSUME IndInv, [Next]_vars, ~safe_state, safe_state'
               PROVE  silence >= HEARTBEAT_TIMEOUT
    OBVIOUS
  <2>1. cb = "expired"
    BY DEF Next, Boot, BootOk, BootFail, Callback, SafetyTimeout, CbReady,
           WarnReturn, Someip, Receive, KickFeed, KickRestart, KickRecover,
           MainLoop, MainCheck, MainToggle, Tick, WdtReset, vars
  <2> QED
    BY <2>1 DEF IndInv, ExpiryIsFresh
<1> QED
  BY <1>1, Invariance, PTL DEF Spec, NoFalseAlarm

\* Only WdtReset takes a running system back to "boot".
LEMMA BootIsReset ==
  [Next]_vars /\ phase = "run" /\ phase' = "boot" => WdtReset
  BY DEF Next, Boot, BootOk, BootFail, Callback, SafetyTimeout,
         WarnReturn, Someip, Receive, KickFeed, KickRestart, KickRecover,
         MainLoop, MainCheck, MainToggle, Tick, vars

\* In NORMAL the watchdog window has room left whenever time can pass.
LEMMA ResetNeedsSafe == IndInv /\ WdtReset => safe_state
  BY ConstantsAssumption
  DEF ConstantsAssumption, IndInv, TypeOK, FedByKick, NormalIsRecent,
      WdtReset, TimeMayPass, WdtExpires, CbReady

\* The watchdog never resets the SoC in NORMAL.
THEOREM ResetOnlyFromSafeEver == Spec => ResetOnlyFromSafe
<1>1. IndInv /\ [Next]_vars
        => [phase = "run" /\ phase' = "boot" => safe_state]_vars
  BY BootIsReset, ResetNeedsSafe
<1> QED
  BY <1>1, Invariance, PTL DEF Spec, ResetOnlyFromSafe

-----------------------------------------------------------------------------

LEMMA InitContract == Init => Contract!Init
  BY DEF Init, Contract!Init, Mode

\* Every step of the monitor is a step of the contract, or changes nothing
\* that the contract sees.
LEMMA StepContract ==
  IndInv /\ IndInv' /\ [Next]_vars => [Contract!Next]_(Contract!contractVars)
<1> SUFFICES ASSUME IndInv, IndInv', [Next]_vars
             PROVE  [Contract!Next]_(Contract!contractVars)
  OBVIOUS
<1> USE DEF Contract!Next, Contract!contractVars, Mode
<1>1. CASE BootOk
  BY <1>1 DEF BootOk, IndInv, NotRunning, Contract!Start
<1>2. CASE BootFail
  BY <1>2 DEF BootFail
<1>3. CASE SafetyTimeout
  BY <1>3, ConstantsAssumption
  DEF SafetyTimeout, IndInv, ExpiryIsFresh, CbReady, RecoveryIsRecent, TypeOK,
      ConstantsAssumption, Contract!Enter, Contract!Overdue
<1>4. CASE WarnReturn
  BY <1>4 DEF WarnReturn
<1>5. CASE Receive
  BY <1>5 DEF Receive
<1>6. CASE KickFeed
  BY <1>6 DEF KickFeed
<1>7. CASE KickRestart
  BY <1>7 DEF KickRestart, SomeipRuns, Contract!Heartbeat
<1>8. CASE KickRecover
  BY <1>8 DEF KickRecover, SomeipRuns
<1>9. CASE MainCheck \/ MainToggle
  BY <1>9 DEF MainCheck, MainToggle
<1>10. CASE Tick
  <2>1. ~Contract!Overdue
    BY <1>10, ConstantsAssumption
    DEF Tick, TimeMayPass, CbReady, Contract!Overdue, ConstantsAssumption,
        IndInv, TypeOK, NormalIsRecent, RecoveryIsRecent
  <2> QED
    BY <1>10, <2>1 DEF Tick, TimeMayPass, Contract!Elapse
<1>11. CASE WdtReset
  <2>1. safe_state
    BY <1>11, ResetNeedsSafe
  <2>2. rx # "recover"
    BY <1>11, ConstantsAssumption
    DEF WdtReset, TimeMayPass, WdtExpires, ConstantsAssumption, IndInv,
        TypeOK, FedByKick
  <2> QED
    BY <1>11, <2>1, <2>2 DEF WdtReset, TimeMayPass, Contract!Fail
<1>12. CASE UNCHANGED vars
  BY <1>12 DEF vars
<1> QED
  BY <1>1, <1>2, <1>3, <1>4, <1>5, <1>6, <1>7, <1>8, <1>9, <1>10, <1>11,
     <1>12
  DEF Next, Boot, Callback, Someip, MainLoop

\* The monitor implements the atomic supervisor of HeartbeatContract.
THEOREM Refinement == Spec => ImplementsContract
<1>1. Spec => Contract!Init
  BY InitContract DEF Spec
<1>2. Spec => [][Contract!Next]_(Contract!contractVars)
  BY StepContract, Invariance, PTL DEF Spec
<1> QED
  BY <1>1, <1>2 DEF ImplementsContract, Contract!Spec

-----------------------------------------------------------------------------

\* The CAN path, for every set of levels, every width of the counter and every
\* bound on the notifications.

\* can_thread holds a level that it read and has not put on the bus yet.
InFlight(l) ==
  canPc \in {"load", "store", "send", "sending"} /\ canFrame.level = l

\* The shared level is one that can_thread has not read yet.
Pending(l) == canPc \in {"get", "sleep"} /\ drowsiness_level = l

\* A notification is counted once: on the bus, in flight or pending.
Accounted ==
  \A l \in Levels :
    /\ sent[l] <= notified[l]
    /\ l # 0 /\ (InFlight(l) \/ Pending(l)) => sent[l] < notified[l]

\* The frame can_thread works on carries a notified level.
FrameHasLevel ==
  canPc \in {"load", "store", "send", "sending", "clear"}
    => canFrame.level \in Levels \ {0}

\* Between the load and the store the counter is the loaded one, or one more.
WindowBounded ==
  canPc = "store" =>
    alive_counter = IF cbInWindow THEN Succ(canFrame.ctr) ELSE canFrame.ctr

Ranges ==
  /\ drowsiness_level \in Levels
  /\ canPc \in CanStates
  /\ notified \in [Levels -> Nat]
  /\ sent \in [Levels -> Nat]
  /\ cbInWindow \in BOOLEAN
  /\ owed \in Levels

CanInv ==
  Ranges /\ FrameHasLevel /\ Accounted /\ WindowBounded /\ OwedIsKept

-----------------------------------------------------------------------------

\* A notification more of one level.
LEMMA CountSent ==
  ASSUME NEW S, NEW f \in [S -> Nat], NEW l \in S
  PROVE  [f EXCEPT ![l] = @ + 1] \in [S -> Nat]
OBVIOUS

LEMMA InitCanInv == CanInit => CanInv
<1> SUFFICES ASSUME CanInit PROVE CanInv
  OBVIOUS
<1>1. Ranges
  BY CanAssumption DEF CanAssumption, CanInit, Ranges, CanStates
<1>2. FrameHasLevel /\ WindowBounded /\ OwedIsKept
  BY DEF CanInit, FrameHasLevel, WindowBounded, OwedIsKept
<1>3. \A l \in Levels : sent[l] = 0 /\ notified[l] = 0
  BY DEF CanInit
<1>4. \A l \in Levels \ {0} : ~InFlight(l) /\ ~Pending(l)
  BY DEF CanInit, InFlight, Pending
<1>5. Accounted
  <2> SUFFICES ASSUME NEW l \in Levels
               PROVE  /\ sent[l] <= notified[l]
                      /\ l # 0 /\ (InFlight(l) \/ Pending(l))
                           => sent[l] < notified[l]
    BY DEF Accounted
  <2>1. sent[l] <= notified[l]
    BY <1>3
  <2>2. l = 0 \/ ~(InFlight(l) \/ Pending(l))
    BY <1>4
  <2> QED
    BY <2>1, <2>2
<1> QED
  BY <1>1, <1>2, <1>5 DEF CanInv

\* Every step of the two threads, the timer and the callback preserves it.
LEMMA StepCanInv == CanInv /\ [CanNext]_canVars => CanInv'
<1> SUFFICES ASSUME CanInv, [CanNext]_canVars PROVE CanInv'
  OBVIOUS
<1> USE CanAssumption
    DEF CanAssumption, CanInv, Ranges, FrameHasLevel, Accounted, InFlight,
        Pending, WindowBounded, OwedIsKept, CanStates
<1>1. CASE CanGet
  BY <1>1 DEF CanGet, NoFrame
<1>2. CASE CanLoad
  <2>1. Ranges' /\ OwedIsKept' /\ canFrame'.level = canFrame.level
    BY <1>2 DEF CanLoad
  <2>2. FrameHasLevel' /\ Accounted'
    BY <1>2, <2>1 DEF CanLoad
  <2>3. WindowBounded'
    BY <1>2 DEF CanLoad
  <2> QED
    BY <2>1, <2>2, <2>3
<1>3. CASE CanStore
  BY <1>3 DEF CanStore
<1>4. CASE CanSend
  BY <1>4 DEF CanSend
<1>5. CASE CanSent
  <2>1. Ranges'
    <3>1. canFrame.level \in Levels /\ sent[canFrame.level] \in Nat
      BY <1>5 DEF CanSent
    <3>2. sent' \in [Levels -> Nat]
      BY <1>5, <3>1, CountSent DEF CanSent
    <3> QED
      BY <1>5, <3>2 DEF CanSent
  <2>2. FrameHasLevel' /\ WindowBounded' /\ OwedIsKept'
    BY <1>5 DEF CanSent
  <2>3. Accounted'
    BY <1>5 DEF CanSent
  <2> QED
    BY <2>1, <2>2, <2>3
<1>6. CASE CanFailed
  BY <1>6 DEF CanFailed
<1>7. CASE CanClear
  BY <1>7 DEF CanClear, NoFrame
<1>8. CASE CanWake
  BY <1>8 DEF CanWake
<1>9. ASSUME NEW l \in Levels, Notify(l) PROVE CanInv'
  BY <1>9 DEF Notify, CanBlocked
<1>10. CASE Heartbeat
  BY <1>10 DEF Heartbeat
<1>11. CASE Kick
  BY <1>11 DEF Kick
<1>12. CASE PeriodPasses
  BY <1>12 DEF PeriodPasses
<1>13. CASE WarnBuild
  BY <1>13 DEF WarnBuild
<1>14. CASE WarnSent
  BY <1>14 DEF WarnSent
<1>15. CASE WarnFailed
  BY <1>15 DEF WarnFailed
<1>16. CASE UNCHANGED canVars
  BY <1>16 DEF canVars
<1> QED
  BY <1>1, <1>2, <1>3, <1>4, <1>5, <1>6, <1>7, <1>8, <1>9, <1>10, <1>11,
     <1>12, <1>13, <1>14, <1>15, <1>16
  DEF CanNext, CanThread

THEOREM CanInvariance == CanSpec => []CanInv
  BY InitCanInv, StepCanInv, PTL DEF CanSpec

-----------------------------------------------------------------------------

\* No notification reaches the bus twice, whatever the order in which
\* someip_thread writes the level and can_thread sends and clears it.
THEOREM SentAtMostOnce == CanSpec => []AtMostOnce
<1>1. CanInv => AtMostOnce
  BY DEF CanInv, Accounted, AtMostOnce
<1> QED
  BY <1>1, CanInvariance, PTL

\* A level that arrives while can_thread sleeps is the shared level, or the one
\* that can_thread has read, until it is handed to can_send or replaced: no
\* CanClear can hit it, whatever interleaving of can_thread and someip_thread.
THEOREM NoOwedLevelIsLost == CanSpec => []OwedIsKept
<1>1. CanInv => OwedIsKept
  BY DEF CanInv
<1> QED
  BY <1>1, CanInvariance, PTL

\* alive_counter never goes back: can_thread's store may repeat what the
\* callback stored, and never undoes more.
THEOREM CounterAdvancesAlways == CanSpec => CounterAdvances
<1>1. CanInv /\ [CanNext]_canVars
        => [alive_counter' \in {alive_counter, Succ(alive_counter)}]_canVars
  <2> SUFFICES ASSUME CanInv, [CanNext]_canVars
               PROVE  alive_counter' \in {alive_counter, Succ(alive_counter)}
    OBVIOUS
  <2>1. CASE CanStore
    BY <2>1 DEF CanStore, CanInv, WindowBounded
  <2>2. CASE WarnBuild
    BY <2>2 DEF WarnBuild
  <2> QED
    BY <2>1, <2>2
    DEF CanNext, CanThread, CanGet, CanLoad, CanSend, CanSent, CanFailed,
        CanClear, CanWake, Notify, Heartbeat, Kick, PeriodPasses, WarnSent,
        WarnFailed, canVars
<1> QED
  BY <1>1, CanInvariance, PTL DEF CanSpec, CounterAdvances

-----------------------------------------------------------------------------
\* A frame is complete, its counter included, before it is handed to can_send.
FrameComplete == canPc \in {"store", "send", "sending"} => canFrame \in Frames

LEMMA SuccInRange ==
  ASSUME NEW ctr \in 0..(CTR_MOD - 1)
  PROVE  Succ(ctr) \in 0..(CTR_MOD - 1)
  BY CanAssumption DEF CanAssumption, Succ

LEMMA ConcatKept ==
  ASSUME NEW S, NEW s \in Seq(S), NEW t \in Seq(S)
  PROVE  s \o t \in Seq(S) /\ Len(s \o t) = Len(s) + Len(t)
  OBVIOUS

LEMMA BusKept ==
  ASSUME CanTypeOK, NEW f \in Frames, OnBus(f)
  PROVE  bus' \in Seq(Frames) /\ Len(bus') <= 2
<1>1. CASE Len(bus) < 2
  <2>1. bus' = bus \o <<f>>
    BY <1>1 DEF OnBus
  <2> QED
    BY <1>1, <2>1 DEF CanTypeOK
<1>2. CASE ~(Len(bus) < 2)
  <2>1. bus' = Tail(bus) \o <<f>>
    BY <1>2 DEF OnBus
  <2>2. bus \in Seq(Frames) /\ Len(bus) = 2
    <3>1. bus \in Seq(Frames) /\ Len(bus) <= 2
      BY Zenon DEF CanTypeOK
    <3>2. Len(bus) \in Nat
      BY <3>1
    <3>3. \A n \in Nat : n <= 2 /\ ~(n < 2) => n = 2
      OBVIOUS
    <3> QED
      BY <1>2, <3>1, <3>2, <3>3, Zenon
  <2>3. Tail(bus) \in Seq(Frames) /\ Len(Tail(bus)) = 1
    BY <2>2
  <2>4. <<f>> \in Seq(Frames) /\ Len(<<f>>) = 1
    OBVIOUS
  <2>5. bus' \in Seq(Frames) /\ Len(bus') = Len(Tail(bus)) + Len(<<f>>)
    BY <2>1, <2>3, <2>4, ConcatKept, Zenon
  <2>6. Len(Tail(bus)) + Len(<<f>>) = 2
    BY <2>3, <2>4
  <2>7. 2 <= 2
    OBVIOUS
  <2> QED
    BY <2>5, <2>6, <2>7, Zenon
<1> QED
  BY <1>1, <1>2

LEMMA InitTypeOK == CanInit => CanTypeOK /\ FrameComplete
<1> SUFFICES ASSUME CanInit PROVE CanTypeOK /\ FrameComplete
  OBVIOUS
<1>1. bus \in Seq(Frames) /\ Len(bus) <= 2
  BY DEF CanInit
<1>2. canFrame = NoFrame /\ warnFrame = NoFrame /\ canPc = "get"
  BY DEF CanInit
<1>3. canFrame.level \in Levels \cup {WARNING} /\ canFrame.ctr \in 0..CTR_MOD
  BY <1>2, CanAssumption DEF NoFrame, CanAssumption
<1>4. /\ drowsiness_level \in Levels /\ owed \in Levels
      /\ alive_counter \in 0..(CTR_MOD - 1)
      /\ notified \in [Levels -> 0..MAX_NOTIFY] /\ sent \in [Levels -> Nat]
  BY CanAssumption DEF CanInit, CanAssumption
<1>5. cbInWindow = FALSE /\ fresh = TRUE /\ rxPc = "wait"
  BY DEF CanInit
<1> QED
  BY <1>1, <1>2, <1>3, <1>4, <1>5
  DEF CanTypeOK, FrameComplete, CanStates

LEMMA StepTypeOK ==
  ASSUME CanTypeOK, FrameComplete, CanInv, [CanNext]_canVars
  PROVE  CanTypeOK' /\ FrameComplete'
<1> USE CanAssumption DEF CanAssumption, CanTypeOK, FrameComplete, CanStates
<1>1. CASE CanGet
  <2>1. CASE drowsiness_level > 0
    <3>1. /\ canPc' = "load"
          /\ canFrame' = [level |-> drowsiness_level, ctr |-> CTR_MOD]
      BY <1>1, <2>1 DEF CanGet
    <3>2. canFrame'.level \in Levels /\ canFrame'.ctr \in 0..CTR_MOD
      BY <3>1
    <3> QED
      BY <1>1, <3>1, <3>2 DEF CanGet
  <2>2. CASE ~(drowsiness_level > 0)
    BY <1>1, <2>2 DEF CanGet
  <2> QED
    BY <2>1, <2>2
<1>2. CASE CanLoad
  <2>1. /\ canFrame' = [level |-> canFrame.level, ctr |-> alive_counter]
        /\ canFrame.level \in Levels
    BY <1>2 DEF CanLoad, CanInv, FrameHasLevel
  <2>2. /\ canFrame' \in Frames
        /\ canFrame'.level \in Levels /\ canFrame'.ctr \in 0..CTR_MOD
    BY <2>1 DEF Frames
  <2> QED
    BY <1>2, <2>2 DEF CanLoad
<1>3. CASE CanStore
  <2>1. canFrame \in Frames /\ canFrame.ctr \in 0..(CTR_MOD - 1)
    BY <1>3 DEF CanStore, Frames
  <2>2. alive_counter' \in 0..(CTR_MOD - 1)
    BY <1>3, <2>1, SuccInRange DEF CanStore
  <2> QED
    BY <1>3, <2>1, <2>2 DEF CanStore
<1>4. CASE CanSend
  BY <1>4 DEF CanSend
<1>5. CASE CanSent
  <2>1. bus' \in Seq(Frames) /\ Len(bus') <= 2
    BY <1>5, BusKept DEF CanSent
  <2>2. sent' \in [Levels -> Nat]
    <3>1. canFrame.level \in Levels
      BY <1>5 DEF CanSent, CanInv, FrameHasLevel
    <3>2. sent \in [Levels -> Nat]
      BY DEF CanTypeOK
    <3>3. sent' = [sent EXCEPT ![canFrame.level] = @ + 1]
      BY <1>5 DEF CanSent
    <3> QED
      BY <3>1, <3>2, <3>3, CountSent
  <2> QED
    BY <1>5, <2>1, <2>2 DEF CanSent
<1>6. CASE CanFailed
  BY <1>6 DEF CanFailed
<1>7. CASE CanClear
  BY <1>7 DEF CanClear, NoFrame
<1>8. CASE CanWake
  BY <1>8 DEF CanWake
<1>9. ASSUME NEW l \in Levels, Notify(l) PROVE CanTypeOK' /\ FrameComplete'
  <2>1. notified' \in [Levels -> 0..MAX_NOTIFY]
    <3>1. /\ notified \in [Levels -> 0..MAX_NOTIFY]
          /\ notified[l] < MAX_NOTIFY
          /\ notified' = [notified EXCEPT ![l] = @ + 1]
      BY <1>9 DEF Notify, CanTypeOK
    <3>2. notified[l] + 1 \in 0..MAX_NOTIFY
      BY <3>1
    <3> QED
      BY <3>1, <3>2
  <2> QED
    BY <1>9, <2>1 DEF Notify
<1>10. CASE Heartbeat
  BY <1>10 DEF Heartbeat
<1>11. CASE Kick
  BY <1>11 DEF Kick
<1>12. CASE PeriodPasses
  BY <1>12 DEF PeriodPasses
<1>13. CASE WarnBuild
  <2>1. warnFrame' \in Frames
    BY <1>13 DEF WarnBuild, Frames
  <2>2. alive_counter' \in 0..(CTR_MOD - 1)
    BY <1>13, SuccInRange DEF WarnBuild
  <2> QED
    BY <1>13, <2>1, <2>2 DEF WarnBuild
<1>14. CASE WarnSent
  <2>1. bus' \in Seq(Frames) /\ Len(bus') <= 2
    BY <1>14, BusKept DEF WarnSent
  <2> QED
    BY <1>14, <2>1 DEF WarnSent
<1>15. CASE WarnFailed
  BY <1>15 DEF WarnFailed
<1>16. CASE UNCHANGED canVars
  BY <1>16 DEF canVars
<1> QED
  BY <1>1, <1>2, <1>3, <1>4, <1>5, <1>6, <1>7, <1>8, <1>9, <1>10, <1>11,
     <1>12, <1>13, <1>14, <1>15, <1>16
  DEF CanNext, CanThread

\* Every variable keeps its range, the counter its byte, and nothing but a
\* frame with its counter filled in gets onto the bus (can_gateway.cpp).
THEOREM CanTypeCorrect == CanSpec => []CanTypeOK
<1>1. CanTypeOK /\ FrameComplete /\ CanInv /\ [CanNext]_canVars
        => CanTypeOK' /\ FrameComplete'
  BY StepTypeOK
<1> QED
  BY <1>1, InitTypeOK, CanInvariance, PTL DEF CanSpec

=============================================================================
