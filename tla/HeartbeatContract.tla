------------------------- MODULE HeartbeatContract -------------------------
(***************************************************************************)
(* What MCU/src/safety.cpp promises to the vehicle, with atomic steps: a   *)
(* supervisor that is NORMAL while packets arrive, SAFE exactly when none  *)
(* has arrived for TIMEOUT, back in NORMAL at the next packet, and that    *)
(* fails (is reset) in SAFE only.  SafetyMonitor implements it.            *)
(***************************************************************************)
EXTENDS Naturals

CONSTANTS
  TIMEOUT,  \* longest silence that is not answered
  CAP       \* where quiet saturates

VARIABLES
  mode,  \* "DOWN", "NORMAL" or "SAFE"
  quiet  \* time since the last packet, or since the start

contractVars == <<mode, quiet>>

Init == mode = "DOWN" /\ quiet = 0

\* Silence has lasted TIMEOUT and is still to be answered.
Overdue == mode = "NORMAL" /\ quiet >= TIMEOUT

Start == mode = "DOWN" /\ mode' = "NORMAL" /\ UNCHANGED quiet

Heartbeat == mode # "DOWN" /\ mode' = "NORMAL" /\ quiet' = 0

Enter == Overdue /\ mode' = "SAFE" /\ UNCHANGED quiet

\* Time passes, but never past a silence that is to be answered.
Elapse ==
  /\ mode # "DOWN" /\ ~Overdue
  /\ quiet' = IF quiet < CAP THEN quiet + 1 ELSE quiet
  /\ UNCHANGED mode

Fail == mode = "SAFE" /\ mode' = "DOWN" /\ quiet' = 0

Next == Start \/ Heartbeat \/ Enter \/ Elapse \/ Fail

Spec == Init /\ [][Next]_contractVars

=============================================================================
