---------------------------- MODULE MpuAppProofs ----------------------------
(***************************************************************************)
(* Proofs about MpuApp: the ranges of its variables, the alarm for eyes    *)
(* that stay closed, and the closed form of the detection counter, for     *)
(* every frame period, every number of frames and every number of faces in *)
(* them.                                                                   *)
(***************************************************************************)
EXTENDS MpuApp, FiniteSetTheorems, TLAPS

\* The level of a Notify is a percentage.
LEMMA LevelInRange ==
  ASSUME NEW c \in Nat
  PROVE  LevelOf(c) \in 0..100
  BY DEF LevelOf

LEMMA DecayInRange ==
  ASSUME NEW c \in 0..COUNTER_CAP
  PROVE  Decay(c) \in 0..COUNTER_CAP
  BY AppAssumption DEF AppAssumption, Decay

LEMMA RecordInRange ==
  ASSUME TypeOK, NEW closed \in BOOLEAN, Record(closed)
  PROVE  /\ recording' \in BOOLEAN
         /\ obs' \in Seq(BOOLEAN) /\ Len(obs') <= OBS_BOUND
<1>0. recording' \in BOOLEAN
  BY Zenon DEF Record, TypeOK
<1>1. CASE recording'
  <2>1. obs' = Append(obs, closed) /\ Len(obs) < OBS_BOUND
    BY <1>1 DEF Record
  <2>2. obs' \in Seq(BOOLEAN) /\ Len(obs') = Len(obs) + 1
    BY <2>1 DEF TypeOK
  <2> QED
    BY <1>0, <2>1, <2>2, AppAssumption DEF TypeOK, AppAssumption
<1>2. CASE ~recording'
  <2>1. obs' = <<>>
    BY <1>2 DEF Record
  <2> QED
    BY <1>0, <2>1, AppAssumption DEF AppAssumption
<1> QED
  BY <1>1, <1>2

LEMMA InitType == Init => TypeOK
<1> SUFFICES ASSUME Init PROVE TypeOK
  OBVIOUS
<1>1. obs \in Seq(BOOLEAN) /\ Len(obs) <= OBS_BOUND
  BY AppAssumption DEF Init, AppAssumption
<1>2. /\ app \in {"container", "image"} /\ main = "boot" /\ mainWait = 0
      /\ why = "none" /\ camera \in BOOLEAN /\ counter = 0 /\ faces = 0
      /\ level = 0 /\ hb = "off" /\ hbWait = 0 /\ hbCounter = 0
  BY DEF Init
<1>3. /\ shut \in BOOLEAN /\ told \in BOOLEAN /\ recording \in BOOLEAN
      /\ since = 0
  BY DEF Init
<1> QED
  BY <1>1, <1>2, <1>3, AppAssumption DEF TypeOK, AppAssumption

\* What the actions of main() that leave the histories alone do to the types.
LEMMA QuietType ==
  ASSUME TypeOK,
         \/ TransportFails \/ StartHeartbeat \/ ImageStarts \/ OpenCamera
         \/ ReadFails \/ CameraHangs \/ FrameDone \/ NextFrame \/ Quit
         \/ Choose \/ ChooseAgain \/ NotifyFails
  PROVE  TypeOK'
<1> USE AppAssumption
        DEF AppAssumption, TypeOK, mainVars, hbVars, history, MainEnds
<1>1. CASE TransportFails BY <1>1 DEF TransportFails
<1>2. CASE StartHeartbeat BY <1>2 DEF StartHeartbeat
<1>3. CASE ImageStarts BY <1>3 DEF ImageStarts
<1>4. CASE OpenCamera BY <1>4 DEF OpenCamera
<1>5. CASE ReadFails BY <1>5 DEF ReadFails
<1>6. CASE CameraHangs BY <1>6 DEF CameraHangs
<1>7. CASE FrameDone BY <1>7 DEF FrameDone
<1>8. CASE NextFrame BY <1>8 DEF NextFrame
<1>9. CASE Quit BY <1>9 DEF Quit
<1>10. CASE Choose BY <1>10 DEF Choose
<1>11. CASE ChooseAgain BY <1>11 DEF ChooseAgain
<1>12. CASE NotifyFails BY <1>12 DEF NotifyFails
<1> QED
  BY <1>1, <1>2, <1>3, <1>4, <1>5, <1>6, <1>7, <1>8, <1>9, <1>10, <1>11, <1>12

LEMMA StepType == TypeOK /\ [Next]_appVars => TypeOK'
<1> SUFFICES ASSUME TypeOK, [Next]_appVars PROVE TypeOK'
  OBVIOUS
<1> USE AppAssumption DEF AppAssumption, mainVars, hbVars, history
<1>1. CASE Read
  BY <1>1, Zenon DEF Read, TypeOK
<1>2. CASE FaceClosed
  <2>1. /\ recording' \in BOOLEAN
        /\ obs' \in Seq(BOOLEAN) /\ Len(obs') <= OBS_BOUND
    BY <1>2, RecordInRange DEF FaceClosed
  <2>2. counter' \in 0..COUNTER_CAP /\ faces' \in 0..MAX_FACES
    BY <1>2 DEF FaceClosed, TypeOK
  <2>3. level' \in 0..100 /\ main' \in {"notify", "faces"}
    <3>1. LevelOf(counter') \in 0..100
      BY <2>2, LevelInRange
    <3>2. CASE counter' >= CONSEC
      BY <1>2, <3>1, <3>2 DEF FaceClosed
    <3>3. CASE ~(counter' >= CONSEC)
      BY <1>2, <3>3 DEF FaceClosed, TypeOK
    <3> QED
      BY <3>2, <3>3
  <2>4. told' \in BOOLEAN
    BY <1>2, Zenon DEF FaceClosed, TypeOK
  <2>5. since' \in 0..TIME_CAP
    BY <1>2 DEF FaceClosed, TypeOK
  <2> QED
    BY <1>2, <2>1, <2>2, <2>3, <2>4, <2>5 DEF FaceClosed, TypeOK
<1>3. CASE FaceOpen
  <2>1. /\ recording' \in BOOLEAN
        /\ obs' \in Seq(BOOLEAN) /\ Len(obs') <= OBS_BOUND
    BY <1>3, RecordInRange DEF FaceOpen
  <2>2. counter' \in 0..COUNTER_CAP /\ faces' \in 0..MAX_FACES
    BY <1>3, DecayInRange DEF FaceOpen, TypeOK
  <2> QED
    BY <1>3, <2>1, <2>2 DEF FaceOpen, TypeOK
<1>4. CASE Notify \/ SomeipNotify
  <2>1. Notified
    BY <1>4 DEF Notify, SomeipNotify
  <2>2. CASE camera
    BY <2>1, <2>2 DEF Notified, TypeOK
  <2>3. CASE ~camera
    BY <2>1, <2>3 DEF Notified, TypeOK
  <2> QED
    BY <2>2, <2>3
<1>5. CASE Heartbeat
  <2>1. CASE Beat
    BY <2>1 DEF Beat, TypeOK
  <2>2. CASE BeatAgain
    BY <2>2 DEF BeatAgain, TypeOK
  <2> QED
    BY <1>5, <2>1, <2>2 DEF Heartbeat
<1>6. CASE ProcessExits
  BY <1>6 DEF ProcessExits, TypeOK
<1>7. CASE Restart
  <2>1. obs' \in Seq(BOOLEAN) /\ Len(obs') <= OBS_BOUND
    BY <1>7 DEF Restart
  <2>2. /\ main' = "boot" /\ mainWait' = 0 /\ why' = "none"
        /\ camera' \in BOOLEAN /\ counter' = 0 /\ faces' = 0 /\ level' = 0
        /\ hb' = "off" /\ hbWait' = 0 /\ hbCounter' = 0 /\ app' = app
    BY <1>7 DEF Restart
  <2>3. /\ shut' \in BOOLEAN /\ told' \in BOOLEAN /\ recording' \in BOOLEAN
        /\ since' = 0
    BY <1>7 DEF Restart
  <2> QED
    BY <2>1, <2>2, <2>3 DEF TypeOK
<1>8. CASE Tick
  <2>1. mainWait' \in 0..SIM_PERIOD \cup 0..FRAME
    BY <1>8 DEF Tick, TypeOK, Down
  <2>2. hbWait' \in 0..HB_PERIOD /\ since' \in 0..TIME_CAP
    BY <1>8 DEF Tick, TypeOK, Down
  <2> QED
    BY <1>8, <2>1, <2>2 DEF Tick, TypeOK
<1>9. CASE UNCHANGED appVars
  BY <1>9 DEF appVars, TypeOK
<1> QED
  BY <1>1, <1>2, <1>3, <1>4, <1>5, <1>6, <1>7, <1>8, <1>9, QuietType
     DEF Next, Main

\* Every variable of the application keeps its range: a level is a percentage,
\* the heartbeat counter a byte.
THEOREM AppTypeCorrect == Spec => []TypeOK
  BY InitType, StepType, PTL DEF Spec

-----------------------------------------------------------------------------
\* An alarm that is due has been given.  The counter has gone up in every frame
\* since the eyes were seen closed, so it bounds the time that has passed; when
\* it reaches CONSEC, the next step of main() is to send.
Pending ==
  /\ main = "read" =>
       counter < CONSEC /\ since <= FRAME * counter
  /\ main = "faces" =>
       /\ counter < CONSEC
       /\ since <= FRAME * counter
       /\ faces = 0 => since <= FRAME * (counter - 1)
  /\ main = "notify" =>
       since <= FRAME * (CONSEC - 1)
  /\ main = "sleep" =>
       counter < CONSEC /\ since + mainWait <= FRAME * counter

Watching == main \in {"read", "faces", "notify", "sleep"}

\* Only the detection loop sees eyes, and it starts with none seen.
OnlyDetectorSees ==
  /\ main \in {"boot", "open", "choose", "pause"} => ~shut
  /\ main = "notify" /\ ~camera => ~shut
  /\ main \in {"read", "faces", "sleep"} => camera

DetectInv ==
  /\ OnlyDetectorSees
  /\ shut /\ Watching => counter \in Nat \ {0} /\ (told \/ Pending)

\* FRAME times the next number is one FRAME more.
LEMMA NextMultiple ==
  ASSUME NEW n \in Nat
  PROVE  /\ FRAME * (n + 1) = FRAME * n + FRAME
         /\ FRAME * n \in Nat /\ FRAME \in Nat
  BY AppAssumption DEF AppAssumption

LEMMA MultipleMonotone ==
  ASSUME NEW a \in Int, NEW b \in Int, a <= b
  PROVE  FRAME * a <= FRAME * b
<1>1. PICK d \in Nat : b = a + d
  BY b - a \in Nat
<1>2. /\ FRAME * b = FRAME * a + FRAME * d
      /\ FRAME * d \in Nat /\ FRAME * a \in Int
  BY <1>1, AppAssumption DEF AppAssumption
<1> QED
  BY <1>2

\* A tick of sleep: what since gains, mainWait loses.
LEMMA SumKept ==
  ASSUME NEW s \in Int, NEW w \in Int, NEW s1 \in Int, NEW w1 \in Int,
         NEW bound \in Int, s1 <= s + 1, w1 = w - 1, s + w <= bound
  PROVE  s1 + w1 <= bound
  OBVIOUS

LEMMA InvDetects ==
  ASSUME TypeOK, DetectInv
  PROVE  shut /\ since > FRAME * (CONSEC - 1) /\ main \notin {"hung", "over"}
           => told
<1> SUFFICES ASSUME shut, ~told, main \notin {"hung", "over"}
             PROVE  since <= FRAME * (CONSEC - 1)
  BY MultipleMonotone, AppAssumption DEF TypeOK, AppAssumption
<1>1. Watching /\ counter \in Nat \ {0} /\ Pending /\ CONSEC \in Nat \ {0}
  BY AppAssumption
     DEF DetectInv, OnlyDetectorSees, Watching, TypeOK, AppAssumption
<1>2. FRAME * (counter - 1) <= FRAME * counter
  BY <1>1, MultipleMonotone
<1>3. since \in Nat /\ mainWait \in Nat /\ FRAME \in Nat
  BY AppAssumption DEF TypeOK, AppAssumption
<1>4. CASE main = "notify"
  BY <1>1, <1>4 DEF Pending
<1>5. CASE main # "notify"
  <2>1. counter <= CONSEC - 1
    BY <1>1, <1>5 DEF Pending, Watching
  <2>2. FRAME * counter <= FRAME * (CONSEC - 1)
    BY <1>1, <2>1, MultipleMonotone
  <2>3. since <= FRAME * counter
    BY <1>1, <1>2, <1>3, <1>5 DEF Pending, Watching
  <2> QED
    BY <1>1, <1>3, <2>2, <2>3
<1> QED
  BY <1>4, <1>5

LEMMA StepDetectInv ==
  ASSUME TypeOK, TypeOK', DetectInv, [Next]_appVars
  PROVE  DetectInv'
<1>0. /\ counter \in Nat /\ counter' \in Nat /\ since \in Nat /\ faces \in Nat
      /\ mainWait \in Nat /\ FRAME \in Nat /\ CONSEC \in Nat \ {0}
  BY AppAssumption DEF TypeOK, AppAssumption
<1> USE DEF DetectInv, OnlyDetectorSees, Watching
<1>1. CASE Read
  <2>1. /\ main = "read" /\ main' = "faces" /\ camera' = camera
        /\ counter' = counter /\ since' = since /\ told' = told
        /\ shut' => shut /\ faces' # 0
    <3>1. shut' => shut /\ faces' > 0
      BY <1>1, Zenon DEF Read
    <3>2. faces' \in Nat
      BY <1>1, AppAssumption DEF Read, AppAssumption
    <3>3. shut' => faces' # 0
      BY <3>1, <3>2
    <3> QED
      BY <1>1, <3>1, <3>3, Zenon DEF Read
  <2>2. CASE shut /\ shut' /\ ~told
    BY <1>0, <2>1, <2>2 DEF Pending
  <2>3. CASE ~(shut /\ shut' /\ ~told)
    BY <2>1, <2>3
  <2> QED
    BY <2>2, <2>3
<1>2. CASE FaceClosed
  <2>1. /\ main = "faces" /\ counter' = counter + 1 /\ faces > 0
        /\ camera' = camera /\ shut' /\ (told' <=> shut /\ told)
        /\ IF counter' >= CONSEC THEN main' = "notify" ELSE main' = "faces"
        /\ since' = IF shut THEN since ELSE 0
        /\ camera
    BY <1>2 DEF FaceClosed
  <2>2. /\ counter = counter' - 1 /\ FRAME * counter \in Nat
        /\ FRAME * counter <= FRAME * counter'
    BY <1>0, <2>1, NextMultiple
  <2>3. FRAME * (CONSEC - 1) \in Nat
    BY <1>0
  <2>4. CASE shut /\ told
    BY <1>0, <2>1, <2>4
  <2>5. CASE ~(shut /\ told)
    <3>1. since' <= FRAME * counter /\ since' \in Nat
      BY <1>0, <2>1, <2>2, <2>5 DEF Pending
    <3>2. since' <= FRAME * (CONSEC - 1)
      <4>1. CASE shut
        <5>1. counter <= CONSEC - 1
          BY <1>0, <2>1, <2>5, <4>1 DEF Pending
        <5>2. FRAME * counter <= FRAME * (CONSEC - 1)
          BY <1>0, <5>1, MultipleMonotone
        <5> QED
          BY <2>2, <2>3, <3>1, <5>2
      <4>2. CASE ~shut
        BY <2>1, <2>3, <4>2
      <4> QED
        BY <4>1, <4>2
    <3>3. CASE counter' >= CONSEC
      BY <1>0, <2>1, <3>2, <3>3 DEF Pending
    <3>4. CASE ~(counter' >= CONSEC)
      <4>1. main' = "faces" /\ counter' < CONSEC
        BY <1>0, <2>1, <3>4
      <4>2. since' <= FRAME * counter' /\ since' <= FRAME * (counter' - 1)
        <5>1. FRAME * counter = FRAME * (counter' - 1)
          BY <2>2
        <5>2. FRAME * counter' \in Nat
          BY <1>0, NextMultiple
        <5> QED
          BY <2>2, <3>1, <5>1, <5>2
      <4> QED
        BY <1>0, <2>1, <4>1, <4>2 DEF Pending
    <3> QED
      BY <3>3, <3>4
  <2> QED
    BY <2>4, <2>5
<1>3. CASE FaceOpen
  BY <1>3 DEF FaceOpen
<1>4. CASE FrameDone
  <2>1. /\ main = "faces" /\ faces = 0 /\ main' = "sleep" /\ mainWait' = FRAME
        /\ camera' = camera /\ counter' = counter /\ since' = since
        /\ shut' = shut /\ told' = told
    BY <1>4 DEF FrameDone, history
  <2>2. shut /\ ~told => since + FRAME <= FRAME * counter
    <3>1. FRAME * ((counter - 1) + 1) = FRAME * (counter - 1) + FRAME
      BY <1>0
    <3> QED
      BY <1>0, <2>1, <3>1 DEF Pending
  <2>3. shut /\ ~told => counter < CONSEC
    BY <2>1 DEF Pending
  <2>4. shut /\ ~told => Pending'
    BY <1>0, <2>1, <2>2, <2>3 DEF Pending
  <2> QED
    BY <2>1, <2>4
<1>5. CASE NextFrame
  <2>1. /\ main = "sleep" /\ mainWait = 0 /\ main' = "read" /\ camera' = camera
        /\ counter' = counter /\ since' = since /\ shut' = shut /\ told' = told
    BY <1>5 DEF NextFrame, history
  <2> QED
    BY <1>0, <2>1 DEF Pending
<1>6. CASE Notify \/ SomeipNotify
  BY <1>6 DEF Notify, SomeipNotify, Notified
<1>7. CASE Tick
  <2>1. /\ main' = main /\ counter' = counter /\ shut' = shut /\ told' = told
        /\ camera' = camera /\ main \notin {"read", "faces", "notify"}
    BY <1>7 DEF Tick, AllAsleep
  <2>2. CASE main = "sleep"
    <3>1. mainWait > 0 /\ mainWait' = mainWait - 1 /\ since' <= since + 1
      BY <1>0, <1>7, <2>2 DEF Tick, AllAsleep, Down
    <3>2. since' \in Nat /\ mainWait' \in Nat /\ FRAME * counter \in Nat
      BY <1>0, <3>1, AppAssumption DEF TypeOK, AppAssumption
    <3>3. shut /\ ~told => Pending'
      <4>1. shut /\ ~told =>
              counter < CONSEC /\ since + mainWait <= FRAME * counter
        BY <2>2 DEF Pending
      <4>2. ASSUME shut, ~told
            PROVE  since' + mainWait' <= FRAME * counter
        <5>1. since + mainWait <= FRAME * counter
          BY <4>1, <4>2
        <5>2. /\ since \in Int /\ mainWait \in Int /\ since' \in Int
              /\ mainWait' \in Int /\ FRAME * counter \in Int
          BY <1>0, <3>2
        <5> QED
          BY <3>1, <5>1, <5>2, SumKept
      <4> QED
        BY <2>1, <2>2, <4>1, <4>2 DEF Pending
    <3> QED
      BY <2>1, <2>2, <3>3
  <2>3. CASE main # "sleep"
    BY <2>1, <2>3
  <2> QED
    BY <2>2, <2>3
<1>8. CASE Restart
  BY <1>8 DEF Restart
<1>9. CASE TransportFails \/ StartHeartbeat \/ ImageStarts \/ OpenCamera
  BY <1>9 DEF TransportFails, StartHeartbeat, ImageStarts, OpenCamera, history,
              MainEnds
<1>10. CASE ReadFails \/ CameraHangs \/ Quit \/ NotifyFails
  BY <1>10 DEF ReadFails, CameraHangs, Quit, NotifyFails, MainEnds, history
<1>11. CASE Choose \/ ChooseAgain
  BY <1>11 DEF Choose, ChooseAgain, history, Pending
<1>12. CASE Heartbeat \/ ProcessExits \/ UNCHANGED appVars
  BY <1>12 DEF Heartbeat, Beat, BeatAgain, ProcessExits, appVars, mainVars,
               history, Pending
<1> QED
  BY <1>1, <1>2, <1>3, <1>4, <1>5, <1>6, <1>7, <1>8, <1>9, <1>10, <1>11, <1>12
     DEF Next, Main

\* Eyes that stay closed are reported within CONSEC frames, whatever was seen
\* before, however many faces are in a frame (mpu/ai/drowsiness.py, main).
THEOREM AlarmIsInTime == Spec => []DetectsInTime
<1>1. Init => DetectInv
  BY DEF Init, DetectInv, OnlyDetectorSees, Watching
<1>2. TypeOK /\ TypeOK' /\ DetectInv /\ [Next]_appVars => DetectInv'
  BY StepDetectInv
<1>3. TypeOK /\ DetectInv => DetectsInTime
  BY InvDetects DEF DetectsInTime
<1> QED
  BY <1>1, <1>2, <1>3, AppTypeCorrect, PTL DEF Spec

-----------------------------------------------------------------------------
\* The counter, from the faces that led to it.

\* The faces of the sequence s, from the k-th on, that satisfy the flag x.
Seen(s, k, x) == {i \in k..Len(s) : s[i] = x}

\* Closed ones less two for each open one.
Excess(s, k) ==
  Cardinality(Seen(s, k, TRUE)) - 2 * Cardinality(Seen(s, k, FALSE))

LEMMA SeenFinite ==
  ASSUME NEW s \in Seq(BOOLEAN), NEW k \in Nat, NEW x \in BOOLEAN
  PROVE  IsFiniteSet(Seen(s, k, x)) /\ Cardinality(Seen(s, k, x)) \in Nat
<1>1. IsFiniteSet(k..Len(s))
  BY FS_Interval
<1>2. IsFiniteSet(Seen(s, k, x))
  BY <1>1, FS_Subset DEF Seen
<1> QED
  BY <1>2, FS_CardinalityType

\* What one more face changes.
LEMMA SeenAppend ==
  ASSUME NEW s \in Seq(BOOLEAN), NEW x \in BOOLEAN, NEW y \in BOOLEAN,
         NEW k \in 1..(Len(s) + 1)
  PROVE  Cardinality(Seen(Append(s, x), k, y))
           = Cardinality(Seen(s, k, y)) + (IF x = y THEN 1 ELSE 0)
<1> DEFINE t == Append(s, x)
           n == Len(s) + 1
<1>0. k \in Nat
  OBVIOUS
<1>1. /\ Len(s) \in Nat /\ Len(t) = n /\ t[n] = x /\ t \in Seq(BOOLEAN)
      /\ \A i \in 1..Len(s) : t[i] = s[i]
  OBVIOUS
<1>2. k..n = (k..Len(s)) \cup {n} /\ n \notin k..Len(s)
      /\ \A i \in k..Len(s) : i \in 1..Len(s)
  BY <1>1
<1> HIDE DEF t, n
<1>3. CASE x = y
  <2>1. Seen(t, k, y) = Seen(s, k, y) \cup {n}
    BY <1>1, <1>2, <1>3 DEF Seen
  <2>2. n \notin Seen(s, k, y)
    BY <1>2 DEF Seen
  <2>3. IsFiniteSet(Seen(s, k, y))
    BY <1>0, SeenFinite
  <2>4. Cardinality(Seen(t, k, y)) = Cardinality(Seen(s, k, y)) + 1
    BY <2>1, <2>2, <2>3, FS_AddElement
  <2> QED
    BY <1>3, <2>4 DEF t
<1>4. CASE x # y
  <2>1. Seen(t, k, y) = Seen(s, k, y)
    BY <1>1, <1>2, <1>4 DEF Seen
  <2> QED
    BY <1>0, <1>4, <2>1, SeenFinite DEF t
<1> QED
  BY <1>3, <1>4

LEMMA ExcessAppend ==
  ASSUME NEW s \in Seq(BOOLEAN), NEW x \in BOOLEAN, NEW k \in 1..(Len(s) + 1)
  PROVE  /\ Excess(s, k) \in Int
         /\ Excess(Append(s, x), k)
              = IF x THEN Excess(s, k) + 1 ELSE Excess(s, k) - 2
<1>1. /\ Cardinality(Seen(s, k, TRUE)) \in Nat
      /\ Cardinality(Seen(s, k, FALSE)) \in Nat
  <2>1. k \in Nat /\ TRUE \in BOOLEAN /\ FALSE \in BOOLEAN
    OBVIOUS
  <2> QED
    BY <2>1, SeenFinite, Zenon
<1>2. \A y \in BOOLEAN :
        Cardinality(Seen(Append(s, x), k, y))
          = Cardinality(Seen(s, k, y)) + (IF x = y THEN 1 ELSE 0)
  BY SeenAppend, Zenon
<1>3. \A c, d \in Nat : c - 2 * d \in Int
        /\ (c + 1) - 2 * (d + 0) = (c - 2 * d) + 1
        /\ (c + 0) - 2 * (d + 1) = (c - 2 * d) - 2
  OBVIOUS
<1>4. CASE x = TRUE
  <2>1. /\ (IF x = TRUE THEN 1 ELSE 0) = 1
        /\ (IF x = FALSE THEN 1 ELSE 0) = 0
    BY <1>4
  <2>2. /\ Cardinality(Seen(Append(s, x), k, TRUE))
             = Cardinality(Seen(s, k, TRUE)) + 1
        /\ Cardinality(Seen(Append(s, x), k, FALSE))
             = Cardinality(Seen(s, k, FALSE)) + 0
    BY <1>2, <2>1, Zenon
  <2>3. Excess(Append(s, x), k)
          = (Cardinality(Seen(s, k, TRUE)) + 1)
              - 2 * (Cardinality(Seen(s, k, FALSE)) + 0)
    BY <2>2, Zenon DEF Excess
  <2>4. Excess(s, k) \in Int /\ Excess(Append(s, x), k) = Excess(s, k) + 1
    BY <1>1, <1>3, <2>3, Zenon DEF Excess
  <2> QED
    BY <1>4, <2>4
<1>5. CASE x = FALSE
  <2>1. /\ (IF x = TRUE THEN 1 ELSE 0) = 0
        /\ (IF x = FALSE THEN 1 ELSE 0) = 1
    BY <1>5
  <2>2. /\ Cardinality(Seen(Append(s, x), k, TRUE))
             = Cardinality(Seen(s, k, TRUE)) + 0
        /\ Cardinality(Seen(Append(s, x), k, FALSE))
             = Cardinality(Seen(s, k, FALSE)) + 1
    BY <1>2, <2>1, Zenon
  <2>3. Excess(Append(s, x), k)
          = (Cardinality(Seen(s, k, TRUE)) + 0)
              - 2 * (Cardinality(Seen(s, k, FALSE)) + 1)
    BY <2>2, Zenon DEF Excess
  <2>4. Excess(s, k) \in Int /\ Excess(Append(s, x), k) = Excess(s, k) - 2
    BY <1>1, <1>3, <2>3, Zenon DEF Excess
  <2> QED
    BY <1>5, <2>4
<1> QED
  BY <1>4, <1>5

\* No face at all has no excess.
LEMMA ExcessOfNone ==
  ASSUME NEW s \in Seq(BOOLEAN)
  PROVE  Excess(s, Len(s) + 1) = 0
<1>1. Seen(s, Len(s) + 1, TRUE) = {} /\ Seen(s, Len(s) + 1, FALSE) = {}
  BY DEF Seen
<1>2. Cardinality({}) = 0 /\ 0 - 2 * 0 = 0
  BY FS_EmptySet
<1> QED
  BY <1>1, <1>2, Zenon DEF Excess

\* counter is the largest excess: one of them, and no smaller than any other.
LargestExcess ==
  recording =>
    /\ \E k \in 1..(Len(obs) + 1) : Excess(obs, k) = counter
    /\ \A k \in 1..(Len(obs) + 1) : Excess(obs, k) <= counter

ExcessInv == LargestExcess /\ (~recording => obs = <<>>)

LEMMA InitExcess == Init => ExcessInv
<1> SUFFICES ASSUME Init PROVE ExcessInv
  OBVIOUS
<1>1. obs = <<>> /\ counter = 0 /\ recording = TRUE
  BY DEF Init
<1>2. obs \in Seq(BOOLEAN) /\ Len(obs) = 0
  BY <1>1
<1>3. Excess(obs, 1) = 0
  <2>1. Len(obs) + 1 = 1
    BY <1>2
  <2> QED
    BY <1>2, <2>1, ExcessOfNone
<1> QED
  BY <1>1, <1>2, <1>3 DEF ExcessInv, LargestExcess

\* A face that is looked at while the history is kept.
LEMMA FaceExcess ==
  ASSUME TypeOK, ExcessInv, NEW x \in BOOLEAN, Record(x),
         counter' = IF x THEN counter + 1 ELSE Decay(counter)
  PROVE  ExcessInv'
<1>1. CASE ~recording'
  <2>1. obs' = <<>>
    BY <1>1 DEF Record
  <2> QED
    BY <1>1, <2>1 DEF ExcessInv, LargestExcess
<1>2. CASE recording'
  <2>1. recording /\ obs' = Append(obs, x)
    BY <1>2 DEF Record
  <2>2. /\ obs \in Seq(BOOLEAN) /\ obs' \in Seq(BOOLEAN) /\ counter \in Nat
        /\ Len(obs) \in Nat /\ Len(obs') = Len(obs) + 1
    BY <2>1 DEF TypeOK
  <2>3. /\ Excess(obs', Len(obs') + 1) = 0
        /\ \A k \in 1..(Len(obs) + 1) :
             /\ Excess(obs, k) \in Int
             /\ Excess(obs', k)
                  = IF x THEN Excess(obs, k) + 1 ELSE Excess(obs, k) - 2
    BY <2>1, <2>2, ExcessOfNone, ExcessAppend
  <2>4. \A k \in 1..(Len(obs') + 1) :
          k \in 1..(Len(obs) + 1) \/ k = Len(obs') + 1
    BY <2>2
  <2>5. PICK m \in 1..(Len(obs) + 1) : Excess(obs, m) = counter
    BY <2>1 DEF ExcessInv, LargestExcess
  <2>6. \A k \in 1..(Len(obs) + 1) : Excess(obs, k) <= counter
    BY <2>1 DEF ExcessInv, LargestExcess
  <2>7. m \in 1..(Len(obs') + 1) /\ Len(obs') + 1 \in 1..(Len(obs') + 1)
    BY <2>2
  <2>8. CASE x
    <3>1. counter' = counter + 1 /\ counter' \in Nat
      BY <2>2, <2>8
    <3>2. Excess(obs', m) = counter'
      BY <2>3, <2>5, <2>8, <3>1
    <3>3. \A k \in 1..(Len(obs) + 1) : Excess(obs', k) <= counter'
      BY <2>2, <2>3, <2>6, <2>8, <3>1
    <3>4. \A k \in 1..(Len(obs') + 1) : Excess(obs', k) <= counter'
      BY <2>3, <2>4, <3>1, <3>3
    <3> QED
      BY <1>2, <2>7, <3>2, <3>4 DEF ExcessInv, LargestExcess
  <2>9. CASE ~x
    <3>1. counter' = Decay(counter) /\ counter' \in Nat
          /\ counter - 2 <= counter'
      BY <2>2, <2>9 DEF Decay
    <3>2. \A k \in 1..(Len(obs) + 1) : Excess(obs', k) <= counter'
      BY <2>2, <2>3, <2>6, <2>9, <3>1
    <3>3. \A k \in 1..(Len(obs') + 1) : Excess(obs', k) <= counter'
      BY <2>3, <2>4, <3>1, <3>2
    <3>4. CASE counter > 2
      <4>1. Excess(obs', m) = counter'
        BY <2>2, <2>3, <2>5, <2>9, <3>1, <3>4 DEF Decay
      <4> QED
        BY <1>2, <2>7, <3>3, <4>1 DEF ExcessInv, LargestExcess
    <3>5. CASE ~(counter > 2)
      <4>1. counter' = 0
        BY <3>1, <3>5 DEF Decay
      <4> QED
        BY <1>2, <2>3, <2>7, <3>3, <4>1 DEF ExcessInv, LargestExcess
    <3> QED
      BY <3>4, <3>5
  <2> QED
    BY <2>8, <2>9
<1> QED
  BY <1>1, <1>2

LEMMA StepExcess == TypeOK /\ ExcessInv /\ [Next]_appVars => ExcessInv'
<1> SUFFICES ASSUME TypeOK, ExcessInv, [Next]_appVars PROVE ExcessInv'
  OBVIOUS
<1>1. CASE FaceClosed
  BY <1>1, FaceExcess DEF FaceClosed
<1>2. CASE FaceOpen
  BY <1>2, FaceExcess DEF FaceOpen
<1>3. CASE Restart
  <2>1. obs' = <<>> /\ counter' = 0 /\ recording' = TRUE
    BY <1>3 DEF Restart
  <2>2. obs' \in Seq(BOOLEAN) /\ Len(obs') = 0
    BY <2>1
  <2>3. Excess(obs', 1) = 0
    <3>1. Len(obs') + 1 = 1
      BY <2>2
    <3> QED
      BY <2>2, <3>1, ExcessOfNone
  <2> QED
    BY <2>1, <2>2, <2>3 DEF ExcessInv, LargestExcess
<1>4. ASSUME UNCHANGED <<counter, recording, obs>> PROVE ExcessInv'
  BY <1>4 DEF ExcessInv, LargestExcess
<1>5. CASE \/ TransportFails \/ StartHeartbeat \/ ImageStarts \/ OpenCamera
           \/ Read \/ ReadFails \/ CameraHangs \/ FrameDone \/ NextFrame
           \/ Quit \/ Choose \/ ChooseAgain \/ Notify \/ SomeipNotify
           \/ NotifyFails
  BY <1>4, <1>5 DEF TransportFails, StartHeartbeat, ImageStarts, OpenCamera,
     Read, ReadFails, CameraHangs, FrameDone, NextFrame, Quit, Choose,
     ChooseAgain, Notify, SomeipNotify, Notified, NotifyFails, MainEnds,
     history
<1>6. CASE Heartbeat \/ ProcessExits \/ Tick \/ UNCHANGED appVars
  BY <1>4, <1>6 DEF Heartbeat, Beat, BeatAgain, ProcessExits, Tick, appVars,
                    mainVars, history
<1> QED
  BY <1>1, <1>2, <1>3, <1>5, <1>6 DEF Next, Main

\* The maximum that the property names.
LEMMA ExcessIsMax ==
  ASSUME TypeOK, ExcessInv, recording
  PROVE  counter
           = Max({ClosedFrom(k) - 2 * OpenFrom(k) : k \in 1..(Len(obs) + 1)})
<1> DEFINE S == {ClosedFrom(k) - 2 * OpenFrom(k) : k \in 1..(Len(obs) + 1)}
<1>1. obs \in Seq(BOOLEAN) /\ Len(obs) \in Nat /\ counter \in Nat
  BY DEF TypeOK
<1>2. \A k \in 1..(Len(obs) + 1) :
        ClosedFrom(k) - 2 * OpenFrom(k) = Excess(obs, k)
  <2> TAKE k \in 1..(Len(obs) + 1)
  <2>1. \A i \in k..Len(obs) : obs[i] \in BOOLEAN
    BY <1>1
  <2>2. /\ {i \in k..Len(obs) : obs[i]} = Seen(obs, k, TRUE)
        /\ {i \in k..Len(obs) : ~obs[i]} = Seen(obs, k, FALSE)
    BY <2>1, Zenon DEF Seen
  <2> QED
    BY <2>2 DEF ClosedFrom, OpenFrom, Excess
<1>3. counter \in S /\ \A y \in S : y <= counter /\ y \in Int
  <2>1. \A k \in 1..(Len(obs) + 1) : Excess(obs, k) \in Int
    BY <1>1, ExcessAppend
  <2> QED
    BY <1>2, <2>1 DEF ExcessInv, LargestExcess
<1> HIDE DEF S
<1>4. \A y \in S : counter >= y
  BY <1>1, <1>3
<1>5. \A x \in S : (\A y \in S : x >= y) => x = counter
  BY <1>1, <1>3
<1>6. (CHOOSE x \in S : \A y \in S : x >= y) = counter
  BY <1>3, <1>4, <1>5
<1> QED
  BY <1>6 DEF Max, S

\* What the detection loop computes, whatever it sees: the largest excess of
\* closed faces over twice the open ones, of all stretches up to now.
THEOREM CounterIsLargestExcess == Spec => []CounterIsExcess
<1>1. TypeOK /\ ExcessInv => CounterIsExcess
  BY ExcessIsMax DEF CounterIsExcess
<1> QED
  BY <1>1, AppTypeCorrect, InitExcess, StepExcess, PTL DEF Spec

=============================================================================
