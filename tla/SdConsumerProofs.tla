-------------------------- MODULE SdConsumerProofs --------------------------
(***************************************************************************)
(* Proofs about SdConsumer: FindService keeps its period on a clock that   *)
(* wraps although sends may fail, for every period, lag and width of the   *)
(* clock; and what the SD builders of both sides build is taken for what   *)
(* it is, offers of the service and nothing else being answered.           *)
(***************************************************************************)
EXTENDS SdConsumer, SequenceTheorems, TLAPS

\* k_uptime_get_32() - last_find, without the modulus.
Elapsed ==
  IF now >= last_find THEN now - last_find ELSE now + CLOCK_MOD - last_find

Clock ==
  /\ now \in 0..(CLOCK_MOD - 1) /\ last_find \in 0..(CLOCK_MOD - 1)
  /\ lag \in 0..MAX_LAG /\ sinceFind \in 0..SINCE_CAP /\ failed \in 0..FAILURES
  /\ sock \in {"none", "unbound", "bound"}
  /\ pc \in {"init", "check", "stamp", "receive", "kick"}

\* How far the clock can be from last_find at each point of the loop.  Before
\* the wait the period is not over; one recvfrom and two lags come on top.
ElapsedBounded ==
  /\ pc = "init" => Elapsed <= lag
  /\ pc \in {"check", "kick", "stamp"} => Elapsed <= FIND_PERIOD + MAX_LAG + lag
  /\ pc = "receive" => Elapsed <= FIND_PERIOD - 1 + lag

\* The rounds that have failed since a FindService left, at their shortest and
\* at their longest.
Soonest(n) == n * FIND_PERIOD
Latest(n) == n * LATEST

\* With a socket, last_find lags behind the last attempt by no more than the lag
\* between the two, and the attempts that failed took a round each.
StampClose ==
  sock # "none" \/ pc = "init" =>
    IF pc = "stamp"
    THEN Soonest(failed) <= sinceFind /\ sinceFind <= Latest(failed) + lag
    ELSE /\ Soonest(failed) + Elapsed <= sinceFind
         /\ sinceFind <= Latest(failed) + Elapsed + MAX_LAG

\* Until someip_init there is no socket, and nothing has failed.
BeforeInit == pc = "init" => failed = 0 /\ sock = "none"

FindInv == Clock /\ ElapsedBounded /\ StampClose /\ BeforeInit

LEMMA ModSmall ==
  ASSUME NEW x \in Nat, NEW n \in Nat, x < n
  PROVE  x % n = x
  BY SMT

LEMMA ModWrap ==
  ASSUME NEW x \in Nat, NEW n \in Nat, x < n
  PROVE  (x + n) % n = x
  BY SMT

\* The unsigned subtraction of the code measures the time that has passed.
LEMMA DueMeansElapsed ==
  ASSUME Clock
  PROVE  /\ Elapsed \in Nat /\ Elapsed < CLOCK_MOD
         /\ FindIsDue <=> Elapsed >= FIND_PERIOD
<1>1. CLOCK_MOD \in Nat
  BY ConsumerAssumption DEF ConsumerAssumption
<1>2. Elapsed \in Nat /\ Elapsed < CLOCK_MOD
  BY <1>1 DEF Clock, Elapsed
<1>3. \/ now + CLOCK_MOD - last_find = Elapsed + CLOCK_MOD
      \/ now + CLOCK_MOD - last_find = Elapsed
  BY <1>1 DEF Clock, Elapsed
<1>4. (now + CLOCK_MOD - last_find) % CLOCK_MOD = Elapsed
  BY <1>1, <1>2, <1>3, ModSmall, ModWrap
<1> QED
  BY <1>2, <1>4 DEF FindIsDue

LEMMA Rounds ==
  ASSUME NEW n \in Nat
  PROVE  /\ Soonest(n) \in Nat /\ Soonest(n + 1) = Soonest(n) + FIND_PERIOD
         /\ Latest(n) \in Nat /\ Latest(n + 1) = Latest(n) + LATEST
         /\ Soonest(0) = 0 /\ Latest(0) = 0 /\ LATEST \in Nat
<1>1. FIND_PERIOD \in Nat /\ LATEST \in Nat
  BY ConsumerAssumption DEF ConsumerAssumption, LATEST
<1>2. ASSUME NEW k \in Nat
      PROVE  n * k \in Nat /\ (n + 1) * k = n * k + k /\ 0 * k = 0
  OBVIOUS
<1> QED
  BY <1>1, <1>2 DEF Soonest, Latest

\* Rounds that may fail, and one more, end before the history does.
LEMMA RoundsFit ==
  ASSUME NEW n \in 0..FAILURES
  PROVE  Latest(n) + LATEST < SINCE_CAP /\ SINCE_CAP \in Nat
<1>1. FAILURES \in Nat /\ LATEST \in Nat
  BY ConsumerAssumption DEF ConsumerAssumption, LATEST
<1>2. ASSUME NEW f \in Nat, NEW k \in Nat, NEW i \in 0..f
      PROVE  /\ i * k + k < (f + 1) * k + 1
             /\ (f + 1) * k + 1 \in Nat
  <2>1. /\ f - i \in Nat /\ (f - i) * k \in Nat /\ i * k \in Nat
        /\ (f + 1) * k = (f - i) * k + i * k + k
    BY <1>2
  <2> QED
    BY <2>1
<1> QED
  BY <1>1, <1>2 DEF Latest, SINCE_CAP

\* A tick of the clock, also one at which it wraps.
LEMMA LaterElapses ==
  ASSUME Clock, Later, last_find' = last_find, Elapsed + 1 < CLOCK_MOD
  PROVE  now' \in 0..(CLOCK_MOD - 1) /\ Elapsed' = Elapsed + 1
<1>1. CLOCK_MOD \in Nat /\ CLOCK_MOD > 0
  BY ConsumerAssumption DEF ConsumerAssumption
<1>2. CASE now + 1 < CLOCK_MOD
  <2>1. now' = now + 1
    BY <1>1, <1>2, ModSmall DEF Later, Clock
  <2> QED
    BY <1>1, <1>2, <2>1 DEF Later, Clock, Elapsed
<1>3. CASE now + 1 = CLOCK_MOD
  <2>1. (0 + CLOCK_MOD) % CLOCK_MOD = 0
    BY <1>1, ModWrap
  <2>2. now' = 0
    BY <1>1, <1>3, <2>1 DEF Later, Clock
  <2> QED
    BY <1>1, <1>3, <2>2 DEF Later, Clock, Elapsed
<1> QED
  BY <1>1, <1>2, <1>3 DEF Clock

\* The history counts on, unless it has reached its end.
LEMMA LaterCounts ==
  ASSUME Clock, Later
  PROVE  /\ sinceFind' \in 0..SINCE_CAP
         /\ sinceFind < SINCE_CAP => sinceFind' = sinceFind + 1
<1>1. SINCE_CAP \in Nat
  BY RoundsFit DEF Clock
<1> HIDE DEF SINCE_CAP
<1> QED
  BY <1>1 DEF Clock, Later

LEMMA InitFindInv == Init => FindInv
<1> SUFFICES ASSUME Init PROVE FindInv
  OBVIOUS
<1>1. /\ FIND_PERIOD \in Nat /\ MAX_LAG \in Nat /\ FAILURES \in Nat
      /\ CLOCK_MOD \in Nat /\ CLOCK_MOD > 0 /\ SINCE_CAP \in Nat
  BY RoundsFit, ConsumerAssumption DEF ConsumerAssumption
<1>2. /\ now = 0 /\ last_find = 0 /\ lag = 0 /\ sinceFind = 0 /\ failed = 0
      /\ pc = "init" /\ sock = "none" /\ Elapsed = 0
  BY DEF Init, Elapsed
<1>3. Soonest(0) = 0 /\ Latest(0) = 0
  BY Rounds
<1> QED
  BY <1>1, <1>2, <1>3
  DEF FindInv, Clock, ElapsedBounded, StampClose, BeforeInit

LEMMA StepFindInv == FindInv /\ [Next]_consumerVars => FindInv'
<1> SUFFICES ASSUME FindInv, [Next]_consumerVars PROVE FindInv'
  OBVIOUS
<1> USE DEF FindInv, Clock, ElapsedBounded, StampClose, BeforeInit
<1>a. /\ FIND_PERIOD \in Nat /\ CLOCK_MOD \in Nat /\ MAX_LAG \in Nat
      /\ FAILURES \in Nat
      /\ FIND_PERIOD > 0 /\ FIND_PERIOD + 2 * MAX_LAG + 2 < CLOCK_MOD
  BY ConsumerAssumption DEF ConsumerAssumption
<1>b. /\ Elapsed \in Nat /\ Elapsed < CLOCK_MOD
      /\ FindIsDue <=> Elapsed >= FIND_PERIOD
  BY DueMeansElapsed
<1>c. UNCHANGED <<now, last_find>> => Elapsed' = Elapsed
  BY DEF Elapsed
<1>d. /\ Soonest(failed) \in Nat /\ Latest(failed) \in Nat
      /\ Soonest(failed + 1) = Soonest(failed) + FIND_PERIOD
      /\ Latest(failed + 1) = Latest(failed) + LATEST
      /\ Soonest(0) = 0 /\ Latest(0) = 0
      /\ LATEST = FIND_PERIOD + 3 * MAX_LAG
  BY Rounds DEF LATEST
<1>e. Latest(failed) + LATEST < SINCE_CAP /\ SINCE_CAP \in Nat
  BY RoundsFit
<1>f. UNCHANGED failed => UNCHANGED <<Soonest(failed), Latest(failed)>>
  BY DEF Soonest, Latest
<1>1. CASE SomeipInit
  BY <1>1, <1>a, <1>b, <1>c, <1>d, <1>f DEF SomeipInit
<1>2. CASE FindLeaves
  <2>1. /\ pc' = "stamp" /\ pc = "check" /\ sinceFind' = 0 /\ failed' = 0
        /\ UNCHANGED <<now, last_find, lag, sock>>
    BY <1>2 DEF FindLeaves
  <2>2. Soonest(failed') = 0 /\ Latest(failed') = 0
    BY <2>1, <1>d
  <2> QED
    BY <2>1, <2>2, <1>a, <1>b, <1>c, <1>e
<1>3. CASE FindFails
  <2>1. /\ pc' = "stamp" /\ pc = "check" /\ FindIsDue
        /\ UNCHANGED <<now, last_find, lag, sock, sinceFind>>
    BY <1>3 DEF FindFails
  <2>2. CASE sock = "none"
    BY <1>3, <2>1, <2>2, <1>a, <1>b, <1>c DEF FindFails
  <2>3. CASE sock # "none"
    <3>1. failed' = failed + 1 /\ failed < FAILURES
      BY <1>3, <2>3 DEF FindFails
    <3>2. /\ Soonest(failed') = Soonest(failed) + FIND_PERIOD
          /\ Latest(failed') = Latest(failed) + LATEST
      BY <3>1, <1>d
    <3>3. /\ Soonest(failed') <= sinceFind
          /\ sinceFind <= Latest(failed') + lag
      BY <2>1, <2>3, <3>2, <1>a, <1>b, <1>d
    <3> QED
      BY <2>1, <3>1, <3>3, <1>a, <1>b, <1>c
  <2> QED
    BY <2>2, <2>3
<1>4. CASE StampFind
  <2>1. /\ pc = "stamp" /\ pc' = "receive" /\ last_find' = now
        /\ UNCHANGED <<now, lag, sinceFind, failed, sock>>
    BY <1>4 DEF StampFind
  <2>2. Elapsed' = 0
    BY <2>1 DEF Elapsed
  <2> QED
    BY <2>1, <2>2, <1>a, <1>d, <1>f
<1>5. CASE NoFindYet
  BY <1>5, <1>a, <1>b, <1>c, <1>f DEF NoFindYet
<1>6. CASE Receive \/ ReceiveFails
  <2>1. /\ pc = "receive" /\ pc' \in {"check", "kick"} /\ lag' = 0
        /\ UNCHANGED <<now, last_find, sinceFind, failed, sock>>
    BY <1>6 DEF Receive, ReceiveFails, AfterSd
  <2> QED
    BY <2>1, <1>a, <1>b, <1>c, <1>d, <1>f
<1>7. CASE ReceiveTimesOut
  <2>1. /\ pc = "receive" /\ pc' = "check" /\ lag' = 0 /\ Later
        /\ UNCHANGED <<last_find, failed, sock>>
    BY <1>7 DEF ReceiveTimesOut
  <2>2. Elapsed + 1 < CLOCK_MOD
    BY <2>1, <1>a, <1>b
  <2>3. now' \in 0..(CLOCK_MOD - 1) /\ Elapsed' = Elapsed + 1
    BY <2>1, <2>2, LaterElapses
  <2>4. /\ sinceFind' \in 0..SINCE_CAP
        /\ sinceFind < SINCE_CAP => sinceFind' = sinceFind + 1
    BY <2>1, LaterCounts
  <2>5. sock # "none" => sinceFind' = sinceFind + 1
    BY <2>1, <2>4, <1>a, <1>b, <1>d, <1>e
  <2>6. StampClose'
    BY <2>1, <2>3, <2>5, <1>a, <1>b, <1>d, <1>f
  <2> QED
    BY <2>1, <2>3, <2>4, <2>6, <1>a, <1>b
<1>8. CASE Kick
  BY <1>8, <1>a, <1>b, <1>c, <1>d, <1>f DEF Kick
<1>9. CASE Delay
  <2>1. /\ lag < MAX_LAG /\ lag' = lag + 1 /\ Later
        /\ UNCHANGED <<pc, last_find, failed, sock>>
    BY <1>9 DEF Delay
  <2>2. Elapsed + 1 < CLOCK_MOD
    BY <2>1, <1>a, <1>b
  <2>3. now' \in 0..(CLOCK_MOD - 1) /\ Elapsed' = Elapsed + 1
    BY <2>1, <2>2, LaterElapses
  <2>4. /\ sinceFind' \in 0..SINCE_CAP
        /\ sinceFind < SINCE_CAP => sinceFind' = sinceFind + 1
    BY <2>1, LaterCounts
  <2>5. sock # "none" \/ pc = "init" => sinceFind' = sinceFind + 1
    BY <2>1, <2>4, <1>a, <1>b, <1>d, <1>e
  <2>6. StampClose'
    BY <2>1, <2>3, <2>5, <1>a, <1>b, <1>d, <1>f
  <2> QED
    BY <2>1, <2>3, <2>4, <2>6, <1>a, <1>b
<1>10. CASE Arrive
  BY <1>10, <1>a, <1>b, <1>c, <1>d, <1>f DEF Arrive
<1>11. CASE UNCHANGED consumerVars
  BY <1>11, <1>a, <1>b, <1>c, <1>d, <1>f DEF consumerVars
<1> QED
  BY <1>1, <1>2, <1>3, <1>4, <1>5, <1>6, <1>7, <1>8, <1>9, <1>10, <1>11
     DEF Next, Thread

LEMMA FindInvAlways == Spec => []FindInv
  BY InitFindInv, StepFindInv, PTL DEF Spec

\* With a socket, a FindService is on the network every FIND_PERIOD for ever but
\* for those that sendto refused: tried no earlier, and late by three lags at
\* most, whatever arrives and wherever the 32-bit clock wraps.
THEOREM FindIsPeriodic == Spec => FindPeriodic
<1>1. FindInv => FindNeverLate
  <2> SUFFICES ASSUME FindInv, sock # "none"
               PROVE  sinceFind <= (failed + 1) * LATEST
    BY DEF FindNeverLate
  <2>1. /\ MAX_LAG \in Nat /\ FIND_PERIOD \in Nat /\ FAILURES \in Nat
        /\ LATEST = FIND_PERIOD + 3 * MAX_LAG
    BY ConsumerAssumption DEF ConsumerAssumption, LATEST
  <2>2. /\ failed \in Nat /\ lag \in 0..MAX_LAG /\ sinceFind \in Nat
        /\ pc # "init"
    BY <2>1, RoundsFit DEF FindInv, Clock, BeforeInit
  <2>3. Latest(failed) \in Nat /\ Elapsed \in Nat
    BY <2>2, Rounds, DueMeansElapsed DEF FindInv
  <2>4. /\ pc = "stamp" => sinceFind <= Latest(failed) + lag
        /\ pc # "stamp" => sinceFind <= Latest(failed) + Elapsed + MAX_LAG
    BY <2>2 DEF FindInv, StampClose
  <2>5. pc # "stamp" => Elapsed <= FIND_PERIOD + 2 * MAX_LAG
    BY <2>1, <2>2, <2>3 DEF FindInv, Clock, ElapsedBounded
  <2>6. sinceFind <= Latest(failed) + LATEST
    BY <2>1, <2>2, <2>3, <2>4, <2>5
  <2>7. (failed + 1) * LATEST = Latest(failed) + LATEST
    BY <2>2, Rounds DEF Latest
  <2> QED
    BY <2>6, <2>7
<1>2. FindInv /\ [Next]_consumerVars => [FindNeverEarly]_consumerVars
  <2> SUFFICES ASSUME FindInv, Next, sock # "none", pc = "check", pc' = "stamp"
               PROVE  sinceFind >= (failed + 1) * FIND_PERIOD
    BY DEF FindNeverEarly
  <2>1. FindIsDue
    BY DEF Next, Thread, SomeipInit, FindLeaves, FindFails, StampFind,
           NoFindYet, Receive, ReceiveFails, ReceiveTimesOut, Kick, Delay,
           Arrive
  <2>2. Soonest(failed) + FIND_PERIOD <= sinceFind
    BY <2>1, DueMeansElapsed, Rounds, ConsumerAssumption
       DEF ConsumerAssumption, FindInv, Clock, StampClose
  <2>3. (failed + 1) * FIND_PERIOD = Soonest(failed) + FIND_PERIOD
    BY Rounds, ConsumerAssumption
       DEF Soonest, FindInv, Clock, ConsumerAssumption
  <2> QED
    BY <2>2, <2>3
<1> QED
  BY <1>1, <1>2, FindInvAlways, PTL DEF Spec, FindPeriodic

-----------------------------------------------------------------------------

Sessions == 0..(SESSION_MOD - 1)

\* Whatever can be in the socket.
OwnMessages ==
  {FindService(OURS, n) : n \in Sessions}
    \cup {SubscribeEventgroup(OURS, SOMEIP_PORT, n) : n \in Sessions}
Traffic == FromOthers \cup {Datagram("sd", m) : m \in OwnMessages}

SocketInv ==
  /\ sock \in {"none", "unbound", "bound"} /\ joined \in BOOLEAN
  /\ inbox \in Seq(Traffic) /\ Len(inbox) <= INBOX
  /\ find_session \in Sessions /\ sub_session \in Sessions
  /\ pc = "init" => sock = "none"
  /\ inbox # <<>> => sock = "bound"

LEMMA NextSessionInRange ==
  ASSUME NEW n \in Sessions
  PROVE  NextSession(n) \in Sessions
<1>1. SESSION_MOD \in Nat /\ SESSION_MOD > 1
  BY ConsumerAssumption DEF ConsumerAssumption
<1>2. CASE n + 1 < SESSION_MOD
  <2>1. n + 1 \in Nat
    BY DEF Sessions
  <2>2. (n + 1) % SESSION_MOD = n + 1
    BY <1>1, <1>2, <2>1, ModSmall
  <2> QED
    BY <1>1, <1>2, <2>1, <2>2 DEF NextSession, Sessions
<1>3. CASE n + 1 = SESSION_MOD
  <2>1. (0 + SESSION_MOD) % SESSION_MOD = 0
    BY <1>1, ModWrap
  <2> QED
    BY <1>1, <1>3, <2>1 DEF NextSession, Sessions
<1> QED
  BY <1>1, <1>2, <1>3 DEF Sessions

LEMMA InitSocketInv == Init => SocketInv
<1> SUFFICES ASSUME Init PROVE SocketInv
  OBVIOUS
<1>1. joined \in BOOLEAN
  BY Zenon DEF Init
<1>2. /\ sock = "none" /\ inbox = <<>> /\ find_session = 0 /\ sub_session = 0
      /\ pc = "init"
  BY DEF Init
<1>3. INBOX \in Nat /\ SESSION_MOD \in Nat /\ SESSION_MOD > 1
  BY ConsumerAssumption DEF ConsumerAssumption
<1> QED
  BY <1>1, <1>2, <1>3 DEF SocketInv, Sessions

\* A datagram that comes back finds room or is lost.
LEMMA EchoInTraffic ==
  ASSUME SocketInv, NEW m \in OwnMessages, Echo(m)
  PROVE  inbox' \in Seq(Traffic) /\ Len(inbox') <= INBOX
<1>1. Datagram("sd", m) \in Traffic
  BY DEF Traffic
<1>2. CASE inbox' = inbox
  BY <1>2 DEF SocketInv
<1>3. CASE /\ Len(inbox) < INBOX
           /\ inbox' = Append(inbox, Datagram("sd", m))
  <2>1. INBOX \in Nat
    BY ConsumerAssumption DEF ConsumerAssumption
  <2> HIDE DEF Traffic
  <2> QED
    BY <1>1, <1>3, <2>1 DEF SocketInv
<1> QED
  BY <1>2, <1>3 DEF Echo

LEMMA ReceivePreserves ==
  ASSUME SocketInv, Receive
  PROVE  SocketInv'
<1>1. inbox \in Seq(Traffic) /\ inbox # <<>> /\ Len(inbox) <= INBOX
  BY DEF Receive, SocketInv
<1>2. /\ Tail(inbox) \in Seq(Traffic) /\ Len(Tail(inbox)) = Len(inbox) - 1
      /\ Len(inbox) \in Nat
  BY <1>1, HeadTailProperties
<1>3. /\ sub_session' \in {sub_session, NextSession(sub_session)}
      /\ inbox' \in {Tail(inbox),
                     Append(Tail(inbox), Datagram("sd",
                       SubscribeEventgroup(OURS, SOMEIP_PORT, sub_session')))}
  BY DEF Receive
<1>4. sub_session' \in Sessions
  BY <1>3, NextSessionInRange DEF SocketInv
<1>5. Datagram("sd",
               SubscribeEventgroup(OURS, SOMEIP_PORT, sub_session')) \in Traffic
  BY <1>4 DEF Traffic, OwnMessages
<1>6. inbox' \in Seq(Traffic) /\ Len(inbox') <= INBOX
  <2>1. INBOX \in Nat
    BY ConsumerAssumption DEF ConsumerAssumption
  <2> QED
    BY <1>1, <1>2, <1>3, <1>5, <2>1
<1>7. UNCHANGED <<sock, joined, find_session>> /\ pc' # "init"
  BY DEF Receive, AfterSd
<1>8. sock' = "bound"
  BY <1>1, <1>7 DEF SocketInv
<1> QED
  BY <1>4, <1>6, <1>7, <1>8 DEF SocketInv

LEMMA StepSocketInv == SocketInv /\ [Next]_consumerVars => SocketInv'
<1> SUFFICES ASSUME SocketInv, [Next]_consumerVars PROVE SocketInv'
  OBVIOUS
<1>1. CASE SomeipInit
  <2>1. joined' \in BOOLEAN
    BY <1>1 DEF SomeipInit
  <2>2. /\ sock' \in {"none", "unbound", "bound"}
        /\ UNCHANGED <<inbox, find_session, sub_session>>
        /\ pc = "init" /\ pc' = "check"
    BY <1>1 DEF SomeipInit
  <2> QED
    BY <2>1, <2>2 DEF SocketInv
<1>2. CASE FindLeaves \/ FindFails
  <2>1. /\ find_session' = NextSession(find_session)
        /\ UNCHANGED <<sock, joined, sub_session>>
        /\ \/ Echo(FindService(OURS, find_session'))
           \/ inbox' = inbox
        /\ pc' = "stamp"
    BY <1>2 DEF FindLeaves, FindFails
  <2>2. find_session' \in Sessions
    BY <2>1, NextSessionInRange DEF SocketInv
  <2>3. FindService(OURS, find_session') \in OwnMessages
    BY <2>2 DEF OwnMessages
  <2>4. inbox' \in Seq(Traffic) /\ Len(inbox') <= INBOX
    BY <2>1, <2>3, EchoInTraffic DEF SocketInv
  <2>5. inbox' # <<>> => sock' = "bound"
    <3>1. inbox' = inbox \/ sock = "bound"
      BY <2>1 DEF Echo
    <3> QED
      BY <2>1, <3>1 DEF SocketInv
  <2> QED
    BY <2>1, <2>2, <2>4, <2>5 DEF SocketInv
<1>3. CASE Receive
  BY <1>3, ReceivePreserves
<1>4. CASE Arrive
  <2>1. PICK d \in FromOthers : inbox' = Append(inbox, d)
    BY <1>4 DEF Arrive
  <2>2. d \in Traffic
    BY DEF Traffic
  <2>3. /\ Len(inbox) < INBOX /\ sock = "bound"
        /\ UNCHANGED <<pc, sock, joined, find_session, sub_session>>
    BY <1>4 DEF Arrive
  <2>4. INBOX \in Nat
    BY ConsumerAssumption DEF ConsumerAssumption
  <2> QED
    BY <2>1, <2>2, <2>3, <2>4 DEF SocketInv
<1>5. CASE /\ UNCHANGED <<sock, joined, inbox, find_session, sub_session>>
           /\ pc' = pc \/ pc' # "init"
  BY <1>5 DEF SocketInv
<1> QED
  BY <1>1, <1>2, <1>3, <1>4, <1>5
     DEF Next, Thread, StampFind, NoFindYet, ReceiveFails, ReceiveTimesOut,
         Kick, Delay, consumerVars

LEMMA SocketInvAlways == Spec => []SocketInv
  BY InitSocketInv, StepSocketInv, PTL DEF Spec

\* Every variable keeps its range, the session counters their width.
THEOREM ConsumerTypeCorrect == Spec => []TypeOK
<1>1. FindInv /\ SocketInv => TypeOK
  BY DEF FindInv, Clock, SocketInv, Sessions, TypeOK
<1> QED
  BY <1>1, FindInvAlways, SocketInvAlways, PTL

-----------------------------------------------------------------------------
\* What is answered.

LEMMA SessionMoves ==
  ASSUME NEW n \in Sessions
  PROVE  NextSession(n) # n
<1>1. SESSION_MOD \in Nat /\ SESSION_MOD > 1
  BY ConsumerAssumption DEF ConsumerAssumption
<1>2. CASE n + 1 < SESSION_MOD
  <2>1. n + 1 \in Nat
    BY DEF Sessions
  <2>2. (n + 1) % SESSION_MOD = n + 1
    BY <1>1, <1>2, <2>1, ModSmall
  <2> QED
    BY <1>1, <2>2 DEF NextSession, Sessions
<1>3. CASE n + 1 = SESSION_MOD
  <2>1. (0 + SESSION_MOD) % SESSION_MOD = 0
    BY <1>1, ModWrap
  <2> QED
    BY <1>1, <1>3, <2>1 DEF NextSession, Sessions
<1> QED
  BY <1>1, <1>2, <1>3 DEF Sessions

\* 56 bytes, which the buffer holds: one live entry and its endpoint.
LEMMA OurOfferAnswered ==
  ASSUME NEW m, OurOffer(m)
  PROVE  Answers(m)
<1>1. /\ m.entries = <<Entry(OFFER, OURS, TTL_DEFAULT, 0, 1)>>
      /\ \E port : m.options = <<Endpoint(UDP, port)>>
  BY DEF OurOffer, OfferService, Message
<1>2. Len(m.entries) = 1 /\ m.entries[1] = Entry(OFFER, OURS, TTL_DEFAULT, 0, 1)
  BY <1>1
<1>3. Len(m.options) = 1 /\ \E port : m.options[1] = Endpoint(UDP, port)
  BY <1>1
<1>4. LiveOffer(m.entries[1])
  BY <1>2 DEF Entry, LiveOffer, TTL_DEFAULT, TTLS
<1>5. HasEndpoint(m)
  BY <1>3 DEF HasEndpoint, Endpoint
<1>6. Understood(m)
  BY <1>2, <1>3, ConsumerAssumption DEF ConsumerAssumption, Understood, SizeOf
<1> QED
  BY <1>2, <1>4, <1>5, <1>6 DEF Answers

\* FindService and StopOffer carry no endpoint, a Subscribe is no offer, and
\* another service's offer is not ours.
LEMMA OthersNotAnswered ==
  ASSUME NEW m, NoOfferOfOurs(m)
  PROVE  ~Answers(m)
<1> DEFINE service == m.entries[1].service
<1>1. CASE \/ m = FindService(service, m.session)
           \/ m = StopOfferService(service, m.session)
  <2>1. m.options = <<>>
    BY <1>1 DEF FindService, StopOfferService, Message
  <2>2. ~HasEndpoint(m)
    BY <2>1 DEF HasEndpoint
  <2> QED
    BY <2>2 DEF Answers
<1>2. CASE m = SubscribeEventgroup(service, m.options[1].port, m.session)
  <2>1. m.entries = <<Entry(SUBSCRIBE, service, TTL_DEFAULT, 0, 0)>>
    BY <1>2 DEF SubscribeEventgroup, Message
  <2> HIDE DEF service
  <2>2. \A k \in 1..Len(m.entries) :
          m.entries[k] = Entry(SUBSCRIBE, service, TTL_DEFAULT, 0, 0)
    BY <2>1
  <2>3. \A k \in 1..Len(m.entries) : m.entries[k].type # OFFER
    BY <2>2 DEF Entry, SUBSCRIBE, OFFER
  <2> QED
    BY <2>3 DEF Answers, LiveOffer
<1>3. CASE /\ service # OURS
           /\ m = OfferService(service, m.options[1].port, m.session, m.reboot)
  <2>1. Len(m.entries) = 1
    BY DEF NoOfferOfOurs
  <2>2. \A k \in 1..Len(m.entries) : m.entries[k].service # OURS
    BY <1>3, <2>1
  <2> QED
    BY <2>2 DEF Answers, LiveOffer
<1> QED
  BY <1>1, <1>2, <1>3 DEF NoOfferOfOurs

\* Whatever the peers send and however often its own messages come
\* back: someip_sd_handle answers what build_offer_service builds for the
\* service and nothing else that a builder builds, its own Subscribe included,
\* and no SD message reaches safety_kick_watchdog.
THEOREM BuiltMessagesTaken == Spec => SdTakenAsBuilt
<1>1. SocketInv /\ [Next]_consumerVars => [TakenAsBuilt]_consumerVars
  <2> SUFFICES ASSUME SocketInv, Next, pc = "receive", inbox # <<>>,
                      Head(inbox).kind = "sd", pc' # pc
               PROVE  /\ pc' # "kick"
                      /\ OurOffer(Head(inbox).message)
                           => sub_session' # sub_session
                      /\ NoOfferOfOurs(Head(inbox).message)
                           => ~(sub_session' # sub_session)
    BY DEF TakenAsBuilt
  <2>1. Receive
    BY DEF Next, Thread, SomeipInit, FindLeaves, FindFails, StampFind,
           NoFindYet, ReceiveFails, ReceiveTimesOut, Kick, Delay, Arrive,
           SocketInv
  <2>2. sub_session' # sub_session <=> Answers(Head(inbox).message)
    <3>1. NextSession(sub_session) # sub_session
      BY SessionMoves DEF SocketInv
    <3> QED
      BY <2>1, <3>1 DEF Receive
  <2>3. pc' # "kick"
    BY <2>1 DEF Receive, AfterSd
  <2> QED
    BY <2>2, <2>3, OurOfferAnswered, OthersNotAnswered
<1> QED
  BY <1>1, SocketInvAlways, PTL DEF Spec, SdTakenAsBuilt

=============================================================================
