------------------------ MODULE HeartbeatLinkProofs ------------------------
(***************************************************************************)
(* Proofs about HeartbeatLink: how fast a dead MPU is noticed, and that a  *)
(* living one is never taken for dead, for every period, jitter, delay and *)
(* timeout that leave some slack.                                          *)
(***************************************************************************)
EXTENDS HeartbeatLink, TLAPS

\* A reset MCU has forgotten its silence, and NORMAL ends when TIMEOUT has
\* passed.
McuInv ==
  /\ mode = "DOWN" => quiet = 0
  /\ mode = "NORMAL" => quiet <= TIMEOUT

\* What has not arrived yet accounts for the silence: it is no longer than
\* the gap since the last heartbeat, or than the longest gap and the age of a
\* packet on its way.
SteadyInv ==
  steady =>
    /\ mpu = "up" /\ mode # "SAFE"
    /\ quiet <= gap \/ \E a \in wire : quiet <= LongestGap + a

\* Packets of a dead MPU are at least as old as its death, so the MCU has
\* heard nothing of it for all but DELAY of that time.
AloneInv ==
  mpu = "down" =>
    /\ \A a \in wire : alone <= a
    /\ mode = "NORMAL" => alone <= quiet + DELAY

LinkInv == TypeOK /\ McuInv /\ SteadyInv /\ AloneInv

USE DEF LongestGap

LEMMA InitLinkInv == Init => LinkInv
<1> SUFFICES ASSUME Init PROVE LinkInv
  OBVIOUS
<1>1. /\ mpu = "down" /\ gap = PERIOD /\ wire = {} /\ lossy = FALSE
      /\ steady = FALSE /\ alone = 0 /\ mode = "DOWN" /\ quiet = 0
  BY DEF Init, MCU!Init
<1>2. lossy \in BOOLEAN /\ steady \in BOOLEAN
  BY <1>1, Zenon
<1>3. gap \in 0..(PERIOD + JITTER) /\ alone \in 0..(DELAY + TIMEOUT + 1)
      /\ quiet \in 0..CAP
  BY <1>1, LinkAssumption DEF LinkAssumption
<1>4. TypeOK
  BY <1>1, <1>2, <1>3 DEF TypeOK
<1> QED
  BY <1>1, <1>4 DEF LinkInv, McuInv, SteadyInv, AloneInv

\* A packet that arrives on the MCU.
LEMMA ArriveKeeps ==
  ASSUME LinkInv, Arrive, NEW a \in wire,
         wire' \in {wire, wire \ {a}},
         UNCHANGED <<mpu, gap, lossy, alone>>
  PROVE  LinkInv'
<1> USE LinkAssumption DEF LinkAssumption, LinkInv, McuInv
<1>1. CASE mode = "DOWN"
  <2>1. UNCHANGED <<mcuVars, steady>>
    BY <1>1 DEF Arrive
  <2> QED
    BY <1>1, <2>1 DEF mcuVars, TypeOK, SteadyInv, AloneInv
<1>2. CASE mode # "DOWN"
  <2>1. mode' = "NORMAL" /\ quiet' = 0 /\ steady' = (mpu = "up")
    BY <1>2 DEF Arrive, MCU!Heartbeat
  <2>2. TypeOK'
    BY <2>1 DEF TypeOK
  <2>3. SteadyInv'
    BY <2>1 DEF TypeOK, SteadyInv
  <2>4. AloneInv'
    <3>1. mpu = "down" => alone <= a /\ a <= DELAY
      BY DEF AloneInv, TypeOK
    <3> QED
      BY <2>1, <3>1 DEF AloneInv, TypeOK
  <2> QED
    BY <2>1, <2>2, <2>3, <2>4
<1> QED
  BY <1>1, <1>2

\* Time.
LEMMA TickKeeps ==
  ASSUME LinkInv, Tick
  PROVE  LinkInv'
<1> USE LinkAssumption DEF LinkAssumption, LinkInv
<1>1. /\ UNCHANGED <<mpu, lossy, steady, mode>>
      /\ wire' = {a + 1 : a \in wire}
  BY DEF Tick, McuElapses, MCU!Elapse, mcuVars
<1>2. gap' = IF mpu = "up" THEN gap + 1 ELSE gap
  BY DEF Tick
<1>3. alone' \in 0..(DELAY + TIMEOUT + 1) /\ alone' <= alone + 1
  BY DEF Tick, TypeOK
<1>4. CASE mode = "DOWN"
  <2>1. quiet' = 0
    BY <1>4 DEF McuInv, Tick, McuElapses, MCU!Elapse, mcuVars
  <2>2. TypeOK'
    BY <1>1, <1>2, <1>3, <2>1 DEF TypeOK, Tick
  <2>3. SteadyInv'
    BY <1>1, <1>2, <1>4, <2>1, <2>2 DEF SteadyInv, TypeOK
  <2>4. AloneInv'
    BY <1>1, <1>3, <1>4 DEF AloneInv, TypeOK
  <2> QED
    BY <1>1, <1>4, <2>1, <2>2, <2>3, <2>4 DEF McuInv
<1>5. CASE mode # "DOWN"
  <2>1. mode = "NORMAL" => quiet < TIMEOUT /\ quiet' = quiet + 1
    BY <1>5 DEF Tick, McuElapses, MCU!Elapse, MCU!Overdue, TypeOK
  <2>2. quiet' \in 0..CAP
    BY <1>5 DEF Tick, McuElapses, MCU!Elapse, TypeOK
  <2>3. TypeOK'
    BY <1>1, <1>2, <1>3, <2>2 DEF TypeOK, Tick
  <2>4. McuInv'
    BY <1>1, <1>5, <2>1 DEF McuInv, TypeOK
  <2>5. SteadyInv'
    <3> SUFFICES ASSUME steady
                 PROVE  quiet' <= gap' \/ \E a \in wire' : quiet' <= LongestGap + a
      BY <1>1 DEF SteadyInv
    <3>1. mode = "NORMAL" /\ mpu = "up"
      BY <1>5 DEF SteadyInv, TypeOK
    <3>2. quiet' = quiet + 1 /\ gap' = gap + 1
      BY <1>2, <2>1, <3>1
    <3>3. CASE quiet <= gap
      BY <3>2, <3>3 DEF TypeOK
    <3>4. CASE \E a \in wire : quiet <= LongestGap + a
      <4>1. PICK a \in wire : quiet <= LongestGap + a
        BY <3>4
      <4>2. a + 1 \in wire' /\ quiet + 1 <= LongestGap + (a + 1)
        BY <1>1, <4>1 DEF TypeOK
      <4> QED
        BY <3>2, <4>2
    <3> QED
      BY <3>3, <3>4 DEF SteadyInv
  <2>6. AloneInv'
    BY <1>1, <1>3, <2>1 DEF AloneInv, TypeOK
  <2> QED
    BY <2>3, <2>4, <2>5, <2>6
<1> QED
  BY <1>4, <1>5

\* The other steps: one per action, with the invariants it can disturb.
LEMMA StepLinkInv == LinkInv /\ [Next]_linkVars => LinkInv'
<1> SUFFICES ASSUME LinkInv, [Next]_linkVars PROVE LinkInv'
  OBVIOUS
<1> USE LinkAssumption DEF LinkAssumption, LinkInv
<1>1. CASE Restart
  <2>1. mpu' = "up" /\ UNCHANGED <<gap, wire, mode, quiet, lossy, steady, alone>>
    BY <1>1 DEF Restart, mcuVars
  <2> QED
    BY <2>1 DEF TypeOK, McuInv, SteadyInv, AloneInv
<1>2. CASE Crash
  <2>1. /\ mpu' = "down" /\ gap' = PERIOD /\ steady' = FALSE /\ alone' = 0
        /\ UNCHANGED <<wire, mode, quiet, lossy>>
    BY <1>2 DEF Crash, mcuVars
  <2>2. steady' \in BOOLEAN
    BY <2>1, Zenon
  <2>3. TypeOK'
    BY <2>1, <2>2 DEF TypeOK
  <2>4. AloneInv'
    BY <2>1 DEF AloneInv, TypeOK, McuInv
  <2> QED
    BY <2>1, <2>3, <2>4 DEF McuInv, SteadyInv
<1>3. CASE Beat
  <2>1. /\ mpu = "up" /\ gap' = 0 /\ lossy' \in BOOLEAN
        /\ wire' = (IF lossy' THEN wire ELSE wire \cup {0})
        /\ steady' = (steady /\ ~lossy')
        /\ UNCHANGED <<mpu, mode, quiet, alone>>
    BY <1>3 DEF Beat, mcuVars
  <2>2. wire \subseteq wire' /\ wire' \subseteq wire \cup {0}
    BY <2>1
  <2>3. TypeOK'
    <3>1. steady' \in BOOLEAN
      BY <2>1, Zenon DEF TypeOK
    <3> QED
      BY <2>1, <2>2, <3>1 DEF TypeOK
  <2>4. SteadyInv'
    <3> SUFFICES ASSUME steady'
                 PROVE  /\ mpu' = "up" /\ mode' # "SAFE"
                        /\ \E a \in wire' : quiet' <= LongestGap + a
      BY DEF SteadyInv
    <3>1. steady /\ 0 \in wire'
      BY <2>1
    <3>2. CASE quiet <= gap
      <4>1. quiet' <= LongestGap + 0
        BY <2>1, <3>2 DEF TypeOK
      <4> QED
        BY <2>1, <3>1, <4>1 DEF SteadyInv
    <3>3. CASE \E a \in wire : quiet <= LongestGap + a
      BY <2>1, <2>2, <3>1, <3>3 DEF SteadyInv
    <3> QED
      BY <3>1, <3>2, <3>3 DEF SteadyInv
  <2> QED
    BY <2>1, <2>3, <2>4 DEF McuInv, AloneInv
<1>4. CASE Notify
  <2>1. /\ mpu = "up" /\ wire' = wire \cup {0}
        /\ UNCHANGED <<mpu, gap, mode, quiet, lossy, steady, alone>>
    BY <1>4 DEF Notify, mcuVars
  <2>2. TypeOK'
    BY <2>1 DEF TypeOK
  <2>3. SteadyInv'
    BY <2>1 DEF SteadyInv
  <2> QED
    BY <2>1, <2>2, <2>3 DEF McuInv, AloneInv
<1>5. ASSUME NEW a \in wire, Deliver(a) PROVE LinkInv'
  BY <1>5, ArriveKeeps DEF Deliver
<1>6. ASSUME NEW a \in wire, DeliverOne(a) PROVE LinkInv'
  BY <1>6, ArriveKeeps DEF DeliverOne
<1>7. CASE McuStarts
  <2>1. /\ mode = "DOWN" /\ mode' = "NORMAL" /\ steady' = (mpu = "up")
        /\ alone' = 0 /\ UNCHANGED <<mpu, gap, wire, quiet, lossy>>
    BY <1>7 DEF McuStarts, MCU!Start
  <2> QED
    BY <2>1 DEF TypeOK, McuInv, SteadyInv, AloneInv
<1>8. CASE McuEntersSafe
  <2>1. /\ mode = "NORMAL" /\ quiet >= TIMEOUT /\ mode' = "SAFE"
        /\ UNCHANGED <<mpu, gap, wire, quiet, lossy, steady, alone>>
    BY <1>8 DEF McuEntersSafe, MCU!Enter, MCU!Overdue
  <2>2. ~steady
    BY <2>1 DEF SteadyInv, TypeOK
  <2> QED
    BY <2>1, <2>2 DEF TypeOK, McuInv, SteadyInv, AloneInv
<1>9. CASE McuFails
  <2>1. /\ mode = "SAFE" /\ mode' = "DOWN" /\ quiet' = 0
        /\ UNCHANGED <<mpu, gap, wire, lossy, steady, alone>>
    BY <1>9 DEF McuFails, MCU!Fail
  <2> QED
    BY <2>1 DEF TypeOK, McuInv, SteadyInv, AloneInv
<1>10. CASE Tick
  BY <1>10, TickKeeps
<1>11. CASE UNCHANGED linkVars
  BY <1>11 DEF linkVars, mcuVars, TypeOK, McuInv, SteadyInv, AloneInv
<1> QED
  BY <1>1, <1>2, <1>3, <1>4, <1>5, <1>6, <1>7, <1>8, <1>9, <1>10, <1>11
  DEF Next

LEMMA LinkInvAlways == Spec => []LinkInv
  BY InitLinkInv, StepLinkInv, PTL DEF Spec

\* Neither a thread nor a packet is ever later than its bound.
THEOREM LinkTypeCorrect == Spec => []TypeOK
<1>1. LinkInv => TypeOK
  BY DEF LinkInv
<1> QED
  BY <1>1, LinkInvAlways, PTL

\* When the MPU has died the MCU leaves NORMAL within the timeout and the delay
\* of the link, for every timeout and delay.
THEOREM DeadMpuIsNoticed == Spec => []DeadMpuNoticed
<1>1. LinkInv => DeadMpuNoticed
  BY LinkAssumption
  DEF LinkAssumption, LinkInv, TypeOK, McuInv, AloneInv, DeadMpuNoticed
<1> QED
  BY <1>1, LinkInvAlways, PTL

\* Heartbeats that come through keep the MCU out of SAFE, as long as the period,
\* its jitter and the delay together are shorter than the timeout.
THEOREM NoFalseSafeEver == Spec => NoFalseSafe
<1>1. LinkInv /\ [Next]_linkVars
        => [mode = "NORMAL" /\ mode' = "SAFE" => ~steady]_linkVars
  <2> SUFFICES ASSUME LinkInv, [Next]_linkVars,
                      mode = "NORMAL", mode' = "SAFE"
               PROVE  ~steady
    OBVIOUS
  <2>1. quiet >= TIMEOUT
    BY DEF Next, Restart, Crash, Beat, Notify, Deliver, DeliverOne, Arrive,
           McuStarts, McuEntersSafe, McuFails, Tick, McuElapses, mcuVars,
           linkVars, MCU!Start, MCU!Heartbeat, MCU!Enter, MCU!Overdue,
           MCU!Fail, MCU!Elapse
  <2> QED
    BY <2>1, LinkAssumption DEF LinkAssumption, LinkInv, TypeOK, SteadyInv
<1> QED
  BY <1>1, LinkInvAlways, PTL DEF Spec, NoFalseSafe

=============================================================================
