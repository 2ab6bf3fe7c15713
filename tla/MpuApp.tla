------------------------------- MODULE MpuApp -------------------------------
(***************************************************************************)
(* The process on the MPU: its main thread, which reads frames, counts     *)
(* closed eyes and sends Notify, and the daemon thread that sends a        *)
(* heartbeat every 50 ms through the same transport (mpu/someip/client.py, *)
(* transport.py).  There are two of it: mpu/ai/drowsiness.py in a          *)
(* container, and the older drowsiness.py of the Yocto image, which has no *)
(* transport object and no heartbeat.  Each is restarted as its supervisor *)
(* (Docker, systemd) is configured to.                                     *)
(*                                                                         *)
(* A tick is 50 ms.  Threads run as soon as their sleep is over and take   *)
(* no time themselves: the detector is modelled at its best.  The camera   *)
(* and what OpenCV finds in a frame are inputs.  The SD advertiser that    *)
(* --sd starts is module SdServer.                                         *)
(***************************************************************************)
EXTENDS Integers, Sequences, FiniteSets, FiniteSetsExt

CONSTANTS
  CONSEC,       \* EAR_CONSEC_FRAMES
  HB_PERIOD,    \* HEARTBEAT_PERIOD_MS, in ticks
  FRAME,        \* time.sleep(0.1) after a frame, in ticks
  SIM_PERIOD,   \* time.sleep(2) of the simulation, in ticks
  HB_MAX,       \* 0xFF, the largest heartbeat counter
  MAX_FACES,    \* bound: faces in a frame
  COUNTER_CAP,  \* bound: no closed face is seen beyond this counter
  OBS_BOUND,    \* bound: how many faces the history obs records
  TIME_CAP      \* where since saturates

ASSUME AppAssumption ==
  /\ CONSEC \in Nat \ {0} /\ HB_PERIOD \in Nat \ {0} /\ FRAME \in Nat \ {0}
  /\ SIM_PERIOD \in Nat \ {0} /\ HB_MAX \in Nat
  /\ MAX_FACES \in Nat /\ COUNTER_CAP \in Nat /\ OBS_BOUND \in Nat
  /\ TIME_CAP \in Nat

VARIABLES
  app,         \* "container" (docker-compose.yml) or "image" (sdv-mpu.service)
  main,        \* where the main thread is
  mainWait,    \* ticks left of its sleep
  why,         \* why it is over: "none", "transport", "camera", "quit", "error"
  camera,      \* use_camera
  counter,     \* closed faces, less two for each open one
  faces,       \* faces of the current frame not looked at yet
  level,       \* level of the Notify about to be sent
  hb,          \* the heartbeat thread; "dead" once the process is gone
  hbWait,      \* ticks left of its sleep
  hbCounter,   \* state["counter"]
  shut,        \* history: every face since some frame had its eyes closed
  since,       \* history: ticks since that frame
  told,        \* history: a Notify was sent, or the send given up, since then
  recording,   \* history: no more than OBS_BOUND faces have been seen
  obs          \* history: all faces while recording, TRUE for closed eyes

mainVars == <<main, mainWait, why, camera, counter, faces, level>>
hbVars == <<hb, hbWait, hbCounter>>
history == <<shut, since, told, recording, obs>>
appVars == <<app, mainVars, hbVars, history>>

Init ==
  /\ app \in {"container", "image"}
  /\ main = "boot" /\ mainWait = 0 /\ why = "none" /\ camera = FALSE
  /\ counter = 0 /\ faces = 0 /\ level = 0
  /\ hb = "off" /\ hbWait = 0 /\ hbCounter = 0
  /\ shut = FALSE /\ since = 0 /\ told = FALSE
  /\ recording = TRUE /\ obs = <<>>

\* The main thread leaves main(), by return or by an exception.
MainEnds(reason) == main' = "over" /\ why' = reason

-----------------------------------------------------------------------------
\* main() up to its loops.

\* create_transport raises: no pyserial, or no such port.
TransportFails ==
  /\ app = "container" /\ main = "boot" /\ MainEnds("transport")
  /\ UNCHANGED <<app, mainWait, camera, counter, faces, level, hbVars, history>>

\* start_heartbeat_thread: the thread is up before the camera is opened.
StartHeartbeat ==
  /\ app = "container" /\ main = "boot" /\ main' = "open" /\ hb' = "send"
  /\ UNCHANGED <<app, mainWait, why, camera, counter, faces, level,
                 hbWait, hbCounter, history>>

\* main() of the image goes straight to the camera.
ImageStarts ==
  /\ app = "image" /\ main = "boot" /\ main' = "open"
  /\ UNCHANGED <<app, mainWait, why, camera, counter, faces, level, hbVars,
                 history>>

\* cap.isOpened() chooses between detection and simulation.
OpenCamera ==
  /\ main = "open" /\ camera' \in BOOLEAN
  /\ main' = IF camera' THEN "read" ELSE "choose"
  /\ UNCHANGED <<app, mainWait, why, counter, faces, level, hbVars, history>>

-----------------------------------------------------------------------------
\* The detection loop.

\* cap.read() returns a frame; a frame without faces tells nothing.
Read ==
  /\ main = "read" /\ main' = "faces"
  /\ faces' \in 0..MAX_FACES
  /\ shut' = (shut /\ faces' > 0)
  /\ UNCHANGED <<app, mainWait, why, camera, counter, level, hbVars,
                 since, told, recording, obs>>

\* if not ret: break
ReadFails ==
  /\ main = "read" /\ MainEnds("camera")
  /\ UNCHANGED <<app, mainWait, camera, counter, faces, level, hbVars, history>>

\* cap.read() never returns.
CameraHangs ==
  /\ main = "read" /\ main' = "hung"
  /\ UNCHANGED <<app, mainWait, why, camera, counter, faces, level, hbVars,
                 history>>

\* The history of faces is dropped once it is full: what follows depends on
\* the counter alone.
Record(closed) ==
  /\ recording' = (recording /\ Len(obs) < OBS_BOUND)
  /\ obs' = IF recording' THEN Append(obs, closed) ELSE <<>>

\* A fault: the level has no upper limit.
LevelUncapped(c) == 50 + c * 2

LevelOf(c) == IF 50 + c * 2 > 100 THEN 100 ELSE 50 + c * 2

\* Fewer than two eyes found: one more closed face, and a Notify from CONSEC on.
FaceClosed ==
  /\ main = "faces" /\ faces > 0 /\ counter < COUNTER_CAP
  /\ faces' = faces - 1 /\ counter' = counter + 1
  /\ IF counter' >= CONSEC
       THEN main' = "notify" /\ level' = LevelOf(counter')
       ELSE UNCHANGED <<main, level>>
  /\ shut' = TRUE
  /\ since' = IF shut THEN since ELSE 0
  /\ told' = (shut /\ told)
  /\ Record(TRUE)
  /\ UNCHANGED <<app, mainWait, why, camera, hbVars>>

\* Faults: the counter goes below zero, or starts again at every open face.
DecayBelowZero(c) == c - 2
DecayToZero(c) == 0

Decay(c) == IF c > 2 THEN c - 2 ELSE 0

\* Two eyes found.
FaceOpen ==
  /\ main = "faces" /\ faces > 0
  /\ faces' = faces - 1 /\ counter' = Decay(counter)
  /\ shut' = FALSE /\ Record(FALSE)
  /\ UNCHANGED <<app, main, mainWait, why, camera, level, hbVars, since, told>>

\* All faces done: time.sleep(0.1).
FrameDone ==
  /\ main = "faces" /\ faces = 0
  /\ main' = "sleep" /\ mainWait' = FRAME
  /\ UNCHANGED <<app, why, camera, counter, faces, level, hbVars, history>>

\* cv2.waitKey: the next frame, or the operator quits.
NextFrame ==
  /\ main = "sleep" /\ mainWait = 0 /\ main' = "read"
  /\ UNCHANGED <<app, mainWait, why, camera, counter, faces, level, hbVars,
                 history>>

Quit ==
  /\ main = "sleep" /\ mainWait = 0 /\ MainEnds("quit")
  /\ UNCHANGED <<app, mainWait, camera, counter, faces, level, hbVars, history>>

-----------------------------------------------------------------------------
\* The simulation loop, and the sending both loops share.

\* random.choice([0, 0, 0, 85, 90]); only a positive level is sent.
Choose ==
  /\ main = "choose"
  /\ level' \in {0, 85, 90}
  /\ IF level' > 0 THEN main' = "notify" /\ UNCHANGED mainWait
                   ELSE main' = "pause" /\ mainWait' = SIM_PERIOD
  /\ UNCHANGED <<app, why, camera, counter, faces, hbVars, history>>

ChooseAgain ==
  /\ main = "pause" /\ mainWait = 0 /\ main' = "choose"
  /\ UNCHANGED <<app, mainWait, why, camera, counter, faces, level, hbVars,
                 history>>

\* Then on with the frame's faces, or with the pause.
Notified ==
  /\ main = "notify" /\ told' = TRUE
  /\ IF camera THEN main' = "faces" /\ UNCHANGED mainWait
               ELSE main' = "pause" /\ mainWait' = SIM_PERIOD
  /\ UNCHANGED <<app, why, camera, counter, faces, level, hbVars, shut, since,
                 recording, obs>>

\* send_notify returns.
Notify == app = "container" /\ Notified

\* someip_notify of the image returns, also when sendto failed: it logs that.
SomeipNotify == app = "image" /\ Notified

\* send_notify raises a socket or serial error, or in the image socket() does:
\* nothing in main catches it.
NotifyFails ==
  /\ main = "notify" /\ MainEnds("error")
  /\ UNCHANGED <<app, mainWait, camera, counter, faces, level, hbVars, history>>

-----------------------------------------------------------------------------
\* The heartbeat thread, the process, and time.

\* A fault: an exception ends the thread.
BeatOrCrash ==
  /\ hb = "send"
  /\ \/ /\ hb' = "sleep" /\ hbWait' = HB_PERIOD
        /\ hbCounter' = (hbCounter + 1) % (HB_MAX + 1)
     \/ hb' = "crashed" /\ UNCHANGED <<hbWait, hbCounter>>
  /\ UNCHANGED <<app, mainVars, history>>

\* send_heartbeat, whose exception is logged and dropped; then the counter
\* advances and the thread sleeps.
Beat ==
  /\ hb = "send" /\ hb' = "sleep" /\ hbWait' = HB_PERIOD
  /\ hbCounter' = (hbCounter + 1) % (HB_MAX + 1)
  /\ UNCHANGED <<app, mainVars, history>>

BeatAgain ==
  /\ hb = "sleep" /\ hbWait = 0 /\ hb' = "send"
  /\ UNCHANGED <<app, hbWait, hbCounter, mainVars, history>>

\* A fault: the thread is no daemon, so the interpreter waits for it.
ExitAfterThreads ==
  /\ main = "over" /\ hb = "off" /\ hb' = "dead"
  /\ UNCHANGED <<app, hbWait, hbCounter, mainVars, history>>

\* The interpreter exits once main() is over: daemon threads die with it.
ProcessExits ==
  /\ main = "over" /\ hb # "dead" /\ hb' = "dead"
  /\ UNCHANGED <<app, hbWait, hbCounter, mainVars, history>>

\* A fault: Docker, too, restarts the process after a failure only.
OnFailureOnly == why \in {"transport", "error"}

\* restart: unless-stopped in the container; Restart=on-failure in the image,
\* where a failed camera or a quit is a success: the exit code is 0.
Restarted == app = "container" \/ why \in {"transport", "error"}

\* Docker or systemd starts the process again.
Restart ==
  /\ hb = "dead" /\ Restarted
  /\ main' = "boot" /\ mainWait' = 0 /\ why' = "none" /\ camera' = FALSE
  /\ counter' = 0 /\ faces' = 0 /\ level' = 0
  /\ hb' = "off" /\ hbWait' = 0 /\ hbCounter' = 0
  /\ shut' = FALSE /\ since' = 0 /\ told' = FALSE
  /\ recording' = TRUE /\ obs' = <<>>
  /\ UNCHANGED app

Down(n) == IF n > 0 THEN n - 1 ELSE 0

\* Nobody has anything to do before the next tick.
AllAsleep ==
  /\ hb = "send" \/ hb = "sleep" => hb = "sleep" /\ hbWait > 0
  /\ \/ main \in {"sleep", "pause"} /\ mainWait > 0
     \/ main = "hung"

Tick ==
  /\ AllAsleep
  /\ mainWait' = Down(mainWait) /\ hbWait' = Down(hbWait)
  /\ since' = IF since < TIME_CAP THEN since + 1 ELSE since
  /\ UNCHANGED <<app, main, why, camera, counter, faces, level, hb, hbCounter,
                 shut, told, recording, obs>>

-----------------------------------------------------------------------------

Main ==
  \/ TransportFails \/ StartHeartbeat \/ ImageStarts \/ OpenCamera
  \/ Read \/ ReadFails \/ CameraHangs \/ FaceClosed \/ FaceOpen \/ FrameDone
  \/ NextFrame \/ Quit \/ Choose \/ ChooseAgain
  \/ Notify \/ SomeipNotify \/ NotifyFails

Heartbeat == Beat \/ BeatAgain

Next == Main \/ Heartbeat \/ ProcessExits \/ Restart \/ Tick

Spec == Init /\ [][Next]_appVars

\* The scheduler runs every thread that is ready, the supervisor restarts what
\* it is configured to restart, and time passes.
FairSpec ==
  /\ Spec
  /\ WF_appVars(Main) /\ WF_appVars(Heartbeat)
  /\ WF_appVars(ProcessExits) /\ WF_appVars(Restart) /\ WF_appVars(Tick)

-----------------------------------------------------------------------------
\* Properties.

\* The values the variables take; a level is a percentage.
TypeOK ==
  /\ app \in {"container", "image"}
  /\ main \in {"boot", "open", "read", "faces", "notify", "sleep", "hung",
               "choose", "pause", "over"}
  /\ mainWait \in 0..SIM_PERIOD \cup 0..FRAME
  /\ why \in {"none", "transport", "camera", "quit", "error"}
  /\ camera \in BOOLEAN
  /\ counter \in 0..COUNTER_CAP /\ faces \in 0..MAX_FACES /\ level \in 0..100
  /\ hb \in {"off", "send", "sleep", "dead"} /\ hbWait \in 0..HB_PERIOD
  /\ hbCounter \in 0..HB_MAX
  /\ shut \in BOOLEAN /\ told \in BOOLEAN /\ since \in 0..TIME_CAP
  /\ recording \in BOOLEAN
  /\ obs \in Seq(BOOLEAN) /\ Len(obs) <= OBS_BOUND

\* The faces with eyes closed (or open) from the k-th on.
ClosedFrom(k) == Cardinality({i \in k..Len(obs) : obs[i]})
OpenFrom(k) == Cardinality({i \in k..Len(obs) : ~obs[i]})

\* What the loop computes: counter is the largest excess, over all the recent
\* stretches of faces, of the closed ones over twice the open ones.  So an
\* alarm means such a stretch with an excess of CONSEC, and a driver who only
\* blinks (one open face for two closed ones) is never reported.
CounterIsExcess ==
  recording =>
    counter = Max({ClosedFrom(k) - 2 * OpenFrom(k) : k \in 1..(Len(obs) + 1)})

\* Whatever was seen before, eyes that stay closed are reported by the time
\* CONSEC frames have passed, unless the camera hangs or the program ends.
DetectsInTime ==
  shut /\ since > FRAME * (CONSEC - 1) /\ main \notin {"hung", "over"} => told

\* Heartbeats go on for ever, across failing sends, the end of main() and any
\* number of restarts, unless the transport cannot be opened again and again.
HeartbeatsComeBack ==
  app = "container" => []<>(hb = "send") \/ []<>(why = "transport")

\* Frames are read again after main() has ended: in the container however it
\* ended, in the image after a failing send.  The process must exit although a
\* thread of it still runs, and be started again.  The camera opens at every
\* start (a process that starts without one simulates for ever), and in the end
\* the transport opens too.  A camera that hangs ends nothing, and no supervisor
\* notices it; nor does systemd start the image again after an exit code of 0.
DetectionComesBack ==
  [](main # "choose") /\ <>[](why # "transport")
    => (main = "over" /\ (app = "container" \/ why = "error") ~> main = "read")

=============================================================================
