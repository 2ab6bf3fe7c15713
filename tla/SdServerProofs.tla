--------------------------- MODULE SdServerProofs ---------------------------
(***************************************************************************)
(* Proofs about SdServer, for any number of thread identities and of calls *)
(* of the owner: the ranges of its variables, there is one advertiser      *)
(* thread at most, and as long as it is the only one to offer, the reboot  *)
(* flag and the sessions are right.                                        *)
(***************************************************************************)
EXTENDS SdServer, TLAPS

\* pc is a function on the callers, and thread names a thread if it names
\* anything.
Shape ==
  /\ DOMAIN pc = Callers
  /\ thread \in Threads \cup {NoThread}
  /\ owner \in {"idle", "start", "stop"}

\* No thread is alive between the two statements of start, and stop waits for
\* a thread.
InCalls ==
  /\ owner = "start" => \A t \in Threads : ~Alive(t)
  /\ owner = "stop" => thread \in Threads

IInv == Shape /\ InCalls /\ OneAdvertiser

USE DEF Shape, InCalls, OneAdvertiser, IInv, Alive, Callers

\* A step of offer_once or of the loop leaves the owner's state alone, and the
\* only caller it moves was alive.
Moves(c) ==
  /\ pc[c] # "dead"
  /\ \E s : pc' = [pc EXCEPT ![c] = s]
  /\ UNCHANGED <<thread, owner, running>>

LEMMA OfferingMoves ==
  ASSUME NEW c \in Callers, Offering(c) PROVE Moves(c)
BY DEF Offering, Moves, At, Goto, lifecycle, ReadFirst, ClearFirst, Build,
       BuildFails, Load, Store, Wrap, SendOk, SendFails

LEMMA RunningMoves ==
  ASSUME NEW t \in Threads, Running(t) PROVE Moves(t)
<1>1. CASE Loop(t) BY <1>1 DEF Loop, Moves, At, Goto, lifecycle
<1>2. CASE Wait(t) BY <1>2 DEF Wait, Moves, At, Goto, lifecycle
<1>3. CASE Offering(t) BY <1>3, OfferingMoves
<1> QED BY <1>1, <1>2, <1>3 DEF Running

LEMMA MovesPreserves ==
  ASSUME NEW c \in Callers, IInv, Moves(c) PROVE IInv'
<1>1. PICK s : pc' = [pc EXCEPT ![c] = s] BY DEF Moves
<1>2. \A t \in Threads : pc'[t] # "dead" => pc[t] # "dead"
  BY <1>1 DEF Moves
<1> QED BY <1>1, <1>2 DEF Moves

\* Nobody is alive when thread names nobody who is.
LEMMA NoneAlive ==
  ASSUME Shape, OneAdvertiser, thread # NoThread => ~Alive(thread)
  PROVE  \A t \in Threads : ~Alive(t)
BY ServerAssumption DEF ServerAssumption

LEMMA InitIInv == Init => IInv
BY DEF Init

LEMMA StepIInv == IInv /\ [Next]_serverVars => IInv'
<1> SUFFICES ASSUME IInv, [Next]_serverVars PROVE IInv' OBVIOUS
<1>1. CASE StartClear
  <2>1. \A t \in Threads : ~Alive(t) BY <1>1, NoneAlive DEF StartClear
  <2> QED BY <1>1, <2>1 DEF StartClear
<1>2. CASE StartThread
  <2>1. PICK t \in Threads : pc' = [pc EXCEPT ![t] = "loop"] /\ thread' = t
    BY <1>2 DEF StartThread, Goto
  <2>2. \A u \in Threads : ~Alive(u) /\ (u # t => pc'[u] = pc[u])
    BY <1>2, <2>1 DEF StartThread
  <2> QED BY <1>2, <2>1, <2>2 DEF StartThread
<1>3. CASE StopSet BY <1>3 DEF StopSet, OwnerIdle
<1>4. CASE StopJoined
  <2>1. \A t \in Threads : ~Alive(t) BY <1>4, NoneAlive DEF StopJoined
  <2> QED BY <1>4, <2>1 DEF StopJoined
<1>5. CASE OwnerOffers
  <2>1. pc' = [pc EXCEPT ![Owner] = "flags"] BY <1>5 DEF OwnerOffers, Goto
  <2>2. \A t \in Threads : pc'[t] = pc[t]
    BY <2>1, ServerAssumption DEF ServerAssumption
  <2> QED BY <1>5, <2>1, <2>2 DEF OwnerOffers
<1>6. CASE Offering(Owner) BY <1>6, OfferingMoves, MovesPreserves
<1>7. CASE \E t \in Threads : Running(t)
  BY <1>7, RunningMoves, MovesPreserves
<1>8. CASE UNCHANGED serverVars BY <1>8 DEF serverVars, lifecycle
<1> QED BY <1>1, <1>2, <1>3, <1>4, <1>5, <1>6, <1>7, <1>8 DEF Next

\* However the owner repeats start and stop, and however its calls interleave
\* with the advertiser (sd.py, start and stop), the only thread that advertises
\* is the one that _thread names, and none does once stop has returned.
THEOREM SingleAdvertiser == Spec => []OneAdvertiser
<1>1. Init => IInv BY InitIInv
<1>2. IInv /\ [Next]_serverVars => IInv' BY StepIInv
<1>3. IInv => OneAdvertiser OBVIOUS
<1> QED BY <1>1, <1>2, <1>3, PTL DEF Spec

-----------------------------------------------------------------------------
\* While the owner has not called offer_once, the one advertiser has _first and
\* _session to itself.

\* The statements of offer_once after the one that reads _first, after the one
\* that resets it, and those between the packet and the wrap of _session.
Flagged == {"first", "build", "load", "store", "wrap", "send"}
Reset == {"build", "load", "store", "wrap", "send"}
Counting == {"load", "store", "wrap"}

Undisturbed ==
  /\ pc[Owner] = "dead"
  /\ sent.n > 0 => ~first
  /\ sent.n > 1 => ~sent.reboot
  /\ \A t \in Threads :
       /\ pc[t] \in Flagged /\ flag[t] => sent.n = 0
       /\ pc[t] \in Reset => ~first

\* _session is the session of the next packet, but for the three statements
\* that advance it.
InStep ==
  /\ \A t \in Threads :
       /\ pc[t] = "load" => session = built
       /\ pc[t] = "store" => num[t] = built
       /\ pc[t] = "wrap" => session = built + 1
  /\ (\A t \in Threads : pc[t] \notin Counting) => session = Following(built)
  /\ (\E t \in Threads : pc[t] \in Counting) => built # 0

OfferShape ==
  /\ session \in Nat /\ built \in 0..MAX_SESSION
  /\ flag \in [Callers -> BOOLEAN] /\ num \in [Callers -> Nat]
  /\ sent \in [n : 0..2, reboot : BOOLEAN]
  /\ first \in BOOLEAN /\ calls \in Nat

OfferInv == OfferShape /\ (calls = 0 => Undisturbed /\ InStep)

LEMMA FollowingInRange ==
  ASSUME NEW s \in 0..MAX_SESSION
  PROVE  Following(s) \in 1..MAX_SESSION
  BY ServerAssumption DEF ServerAssumption, Following

LEMMA ModSmall ==
  ASSUME NEW x \in Nat, NEW n \in Nat, x < n
  PROVE  x % n = x
  BY SMT

LEMMA InitOfferInv == Init => OfferInv
<1> SUFFICES ASSUME Init PROVE OfferInv
  OBVIOUS
<1>1. Following(0) = 1
  BY ServerAssumption DEF Following, ServerAssumption
<1>2. OfferShape
  BY ServerAssumption DEF Init, OfferShape, ServerAssumption
<1>3. sent.n = 0 /\ \A c \in Callers : pc[c] = "dead"
  BY DEF Init
<1>4. Undisturbed
  BY <1>3 DEF Undisturbed, Flagged, Reset
<1>5. InStep
  BY <1>1, <1>3 DEF Init, InStep, Counting
<1> QED
  BY <1>2, <1>4, <1>5 DEF OfferInv

LEMMA OfferingShape ==
  ASSUME NEW c \in Callers, OfferShape, Offering(c) PROVE OfferShape'
<1> USE ServerAssumption DEF ServerAssumption, OfferShape, attributes,
                             lifecycle, packets, history
<1>1. CASE ReadFirst(c)
  <2>1. flag' \in [Callers -> BOOLEAN]
    BY <1>1 DEF ReadFirst
  <2> QED
    BY <1>1, <2>1 DEF ReadFirst
<1>2. CASE ClearFirst(c) BY <1>2 DEF ClearFirst
<1>3. CASE Build(c)
  <2>1. session % (MAX_SESSION + 1) \in 0..MAX_SESSION
    OBVIOUS
  <2> QED
    BY <1>3, <2>1 DEF Build
<1>4. CASE BuildFails(c) BY <1>4 DEF BuildFails
<1>5. CASE Load(c)
  <2>1. num' \in [Callers -> Nat]
    BY <1>5 DEF Load
  <2> QED
    BY <1>5, <2>1 DEF Load
<1>6. CASE Store(c) BY <1>6 DEF Store
<1>7. CASE Wrap(c) BY <1>7 DEF Wrap
<1>8. CASE SendOk(c)
  <2>1. sent'.n \in 0..2 /\ sent' \in [n : 0..2, reboot : BOOLEAN]
    BY <1>8 DEF SendOk
  <2> QED
    BY <1>8, <2>1 DEF SendOk
<1>9. CASE SendFails(c) BY <1>9 DEF SendFails
<1> QED
  BY <1>1, <1>2, <1>3, <1>4, <1>5, <1>6, <1>7, <1>8, <1>9 DEF Offering

\* A step of the advertiser, when it is the only caller.
LEMMA AdvertiserStep ==
  ASSUME IInv, OfferInv, OfferShape', calls = 0,
         NEW t \in Threads, Running(t)
  PROVE  Undisturbed' /\ InStep'
<1>1. /\ pc[t] # "dead" /\ pc[Owner] = "dead"
      /\ \A u \in Threads \ {t} : pc[u] = "dead"
  BY RunningMoves DEF Moves, OfferInv, Undisturbed
<1>2. PICK s : pc' = [pc EXCEPT ![t] = s]
  BY RunningMoves DEF Moves
<1>3. /\ pc'[t] = s /\ pc'[Owner] = "dead"
      /\ \A u \in Threads \ {t} : pc'[u] = "dead"
  BY <1>1, <1>2, ServerAssumption DEF ServerAssumption
<1>4. /\ session \in Nat /\ built \in 0..MAX_SESSION /\ first \in BOOLEAN
      /\ flag \in [Callers -> BOOLEAN] /\ num \in [Callers -> Nat]
      /\ sent.n \in 0..2 /\ sent.reboot \in BOOLEAN
  BY DEF OfferInv, OfferShape
\* The two invariants, seen from t.
<1>5. /\ sent.n > 0 => ~first
      /\ sent.n > 1 => ~sent.reboot
      /\ pc[t] \in Flagged /\ flag[t] => sent.n = 0
      /\ pc[t] \in Reset => ~first
  BY DEF OfferInv, Undisturbed
<1>6. /\ pc[t] = "load" => session = built
      /\ pc[t] = "store" => num[t] = built
      /\ pc[t] = "wrap" => session = built + 1
      /\ pc[t] \notin Counting => session = Following(built)
      /\ pc[t] \in Counting => built # 0
  BY <1>1 DEF OfferInv, InStep, Counting
<1>7. SUFFICES
        /\ sent'.n > 0 => ~first'
        /\ sent'.n > 1 => ~sent'.reboot
        /\ s \in Flagged /\ flag'[t] => sent'.n = 0
        /\ s \in Reset => ~first'
        /\ s = "load" => session' = built'
        /\ s = "store" => num'[t] = built'
        /\ s = "wrap" => session' = built' + 1
        /\ s \notin Counting => session' = Following(built')
        /\ s \in Counting => built' # 0
  BY <1>3 DEF Undisturbed, InStep, Counting, Flagged, Reset
<1>8. t # Owner /\ \A w : Goto(t, w) => s = w
  BY <1>2, ServerAssumption DEF Goto, ServerAssumption
<1> USE DEF Flagged, Reset, Counting, At, attributes, lifecycle, packets,
            history
<1>9. CASE Loop(t)
  <2>1. s \in {"dead", "flags"}
    BY <1>8, <1>9 DEF Loop
  <2> QED
    BY <1>5, <1>6, <1>9, <2>1 DEF Loop, Following
<1>10. CASE Wait(t)
  BY <1>5, <1>6, <1>8, <1>10 DEF Wait, Following
<1>11. CASE ReadFirst(t)
  <2>1. s = "first" /\ flag'[t] = first
    BY <1>4, <1>8, <1>11 DEF ReadFirst
  <2> QED
    BY <1>4, <1>5, <1>6, <1>11, <2>1 DEF ReadFirst, Following
<1>12. CASE ClearFirst(t)
  BY <1>5, <1>6, <1>8, <1>12 DEF ClearFirst, Following
<1>13. CASE Build(t)
  <2>1. pc[t] = "build" /\ s = "load" /\ session = Following(built)
    BY <1>6, <1>8, <1>13 DEF Build
  <2>2. session \in 1..MAX_SESSION
    BY <1>4, <2>1, FollowingInRange
  <2>3. session % (MAX_SESSION + 1) = session
    BY <2>2, ModSmall, ServerAssumption DEF ServerAssumption
  <2>4. built' = session /\ session' = session /\ built' # 0
    BY <1>13, <2>2, <2>3 DEF Build
  <2> QED
    BY <1>5, <1>13, <2>1, <2>4 DEF Build
<1>14. CASE BuildFails(t)
  <2>1. s = "wait" \/ s = "dead"
    BY <1>8, <1>14 DEF BuildFails, AfterError, AfterOffer
  <2> QED
    BY <1>5, <1>6, <1>14, <2>1 DEF BuildFails, Following
<1>15. CASE Load(t)
  <2>1. s = "store" /\ num'[t] = session
    BY <1>4, <1>8, <1>15 DEF Load
  <2> QED
    BY <1>5, <1>6, <1>15, <2>1 DEF Load
<1>16. CASE Store(t)
  BY <1>4, <1>5, <1>6, <1>8, <1>16 DEF Store
<1>17. CASE Wrap(t)
  <2>1. s = "send" /\ session = built + 1
    BY <1>6, <1>8, <1>17 DEF Wrap
  <2>2. session' = Following(built)
    BY <1>4, <1>17, <2>1, ServerAssumption
       DEF Wrap, Following, ServerAssumption
  <2> QED
    BY <1>5, <1>17, <2>1, <2>2 DEF Wrap, Following
<1>18. CASE SendOk(t)
  <2>1. s = "wait" /\ pc[t] = "send"
    BY <1>8, <1>18 DEF SendOk, AfterOffer
  <2>2. sent'.n \in {1, 2} /\ (sent.n = 0 <=> sent'.n = 1)
    BY <1>4, <1>18 DEF SendOk
  <2>3. sent'.reboot = flag[t]
    BY <1>18 DEF SendOk
  <2>4. sent'.n > 1 => ~sent'.reboot
    BY <1>4, <1>5, <2>1, <2>2, <2>3
  <2>5. ~first' /\ session' = Following(built')
    BY <1>5, <1>6, <1>18, <2>1 DEF SendOk, Following
  <2> QED
    BY <2>1, <2>4, <2>5
<1>19. CASE SendFails(t)
  <2>1. s = "wait" \/ s = "dead"
    BY <1>8, <1>19 DEF SendFails, AfterError, AfterOffer
  <2> QED
    BY <1>5, <1>6, <1>19, <2>1 DEF SendFails, Following
<1> QED
  BY <1>9, <1>10, <1>11, <1>12, <1>13, <1>14, <1>15, <1>16, <1>17, <1>18, <1>19
     DEF Running, Offering

LEMMA StepOfferInv ==
  ASSUME IInv, OfferInv, [Next]_serverVars PROVE OfferInv'
<1> USE DEF attributes, lifecycle, packets, history
<1>1. ASSUME NEW t \in Threads, Running(t) PROVE OfferInv'
  <2>1. OfferShape'
    <3>1. CASE Loop(t)
      BY <3>1 DEF Loop, OfferInv, OfferShape
    <3>2. CASE Wait(t)
      BY <3>2 DEF Wait, OfferInv, OfferShape
    <3>3. CASE Offering(t)
      BY <3>3, OfferingShape DEF OfferInv
    <3> QED
      BY <1>1, <3>1, <3>2, <3>3 DEF Running
  <2>2. calls' = calls
    BY <1>1 DEF Running, Loop, Wait, Offering, ReadFirst, ClearFirst, Build,
                BuildFails, Load, Store, Wrap, SendOk, SendFails
  <2> QED
    BY <1>1, <2>1, <2>2, AdvertiserStep DEF OfferInv
<1>2. CASE Offering(Owner)
  <2>1. OfferShape'
    BY <1>2, OfferingShape DEF OfferInv
  <2>2. calls' = calls /\ pc[Owner] # "dead"
    BY <1>2 DEF Offering, ReadFirst, ClearFirst, Build, BuildFails, Load,
                Store, Wrap, SendOk, SendFails, At
  <2> QED
    BY <2>1, <2>2 DEF OfferInv, Undisturbed
<1>3. CASE OwnerOffers
  BY <1>3 DEF OwnerOffers, OfferInv, OfferShape
<1>4. CASE StartThread
  <2>1. PICK t \in Threads : pc' = [pc EXCEPT ![t] = "loop"] /\ pc[t] = "dead"
    BY <1>4 DEF StartThread, Goto
  <2>2. \A c \in Callers :
          pc'[c] = pc[c] \/ (pc[c] = "dead" /\ pc'[c] = "loop")
    BY <2>1
  <2>3. pc'[Owner] = pc[Owner]
    BY <2>1, ServerAssumption DEF ServerAssumption
  <2>4. UNCHANGED <<first, session, calls, flag, num, built, sent>>
    BY <1>4 DEF StartThread
  <2>5. Undisturbed => Undisturbed'
    BY <2>2, <2>3, <2>4 DEF Undisturbed, Flagged, Reset
  <2>6. InStep => InStep'
    BY <2>2, <2>4 DEF InStep, Counting, Following
  <2> QED
    BY <2>4, <2>5, <2>6 DEF OfferInv, OfferShape
<1>5. CASE StartClear \/ StopSet \/ StopJoined \/ UNCHANGED serverVars
  BY <1>5 DEF StartClear, StopSet, StopJoined, serverVars, OfferInv,
              OfferShape, Undisturbed, InStep, Following
<1> QED
  BY <1>1, <1>2, <1>3, <1>4, <1>5 DEF Next

THEOREM OfferInvariance == Spec => [](IInv /\ OfferInv)
  BY InitIInv, StepIInv, InitOfferInv, StepOfferInv, PTL DEF Spec

\* Until the owner itself calls offer_once (sd.py), only the first offer on the
\* wire carries FLAG_REBOOT, however often the server is stopped and started.
THEOREM RebootSentOnce == Spec => []RebootAtMostOnce
<1>1. OfferInv => RebootAtMostOnce
  BY DEF OfferInv, Undisturbed, RebootAtMostOnce
<1> QED
  BY <1>1, OfferInvariance, PTL

\* And each packet carries the session after the last one built, with the wrap
\* from MAX_SESSION to 1, whatever that is and however many sends fail.
THEOREM SessionsInOrder == Spec => SessionsAdvance
<1>1. IInv /\ OfferInv /\ [Next]_serverVars
        => [\A t \in Threads :
              calls = 0 /\ At(t, "build") /\ pc'[t] = "load"
                => built' = Following(built)]_serverVars
  <2> SUFFICES ASSUME IInv, OfferInv, Next,
                      NEW t \in Threads, calls = 0, At(t, "build"),
                      pc'[t] = "load"
               PROVE  built' = Following(built)
    OBVIOUS
  <2>1. /\ \A u \in Threads \ {t} : pc[u] = "dead"
        /\ pc[Owner] = "dead"
    BY DEF At, OfferInv, Undisturbed
  <2>2. session = Following(built)
    BY <2>1 DEF At, OfferInv, InStep, Counting
  <2>3. session \in 1..MAX_SESSION
    BY <2>2, FollowingInRange DEF OfferInv, OfferShape
  <2>4. session % (MAX_SESSION + 1) = session
    BY <2>3, ModSmall, ServerAssumption DEF ServerAssumption
  <2>5. Running(t)
    <3>1. ~Offering(Owner) /\ \A u \in Threads \ {t} : ~Running(u)
      BY <2>1, OfferingMoves, RunningMoves DEF Moves
    <3>2. pc' # pc
      BY DEF At
    <3>3. ~OwnerOffers /\ ~StartThread
      <4>1. \A c \in Callers : pc' # [pc EXCEPT ![c] = "flags"] \/ c # Owner
        BY ServerAssumption DEF At, ServerAssumption
      <4>2. \A u \in Threads : pc[u] # "dead" \/ pc' # [pc EXCEPT ![u] = "loop"]
        BY DEF At
      <4> QED
        BY <4>1, <4>2 DEF OwnerOffers, StartThread, Goto
    <3> QED
      BY <3>1, <3>2, <3>3 DEF Next, StartClear, StopSet, StopJoined
  <2>6. Build(t)
    BY <2>5 DEF Running, Loop, Wait, Offering, ReadFirst, ClearFirst,
                BuildFails, AfterError, AfterOffer, Load, Store, Wrap, SendOk,
                SendFails, At, Goto
  <2> QED
    BY <2>2, <2>4, <2>6 DEF Build
<1> QED
  BY <1>1, OfferInvariance, PTL DEF Spec, SessionsAdvance

-----------------------------------------------------------------------------
\* How large _session can get.

Statements == {"dead", "loop", "wait", "flags", "first", "build", "load",
               "store", "wrap", "send"}

\* The statements from which a call of the owner has yet to store _session.
BeforeStore == {"flags", "first", "build", "load", "store"}

\* No caller is about to wrap _session.
NoneWraps == \A c \in Callers : pc[c] # "wrap"

\* What a thread may add to _session before the owner's current call does.
Allowance == IF pc[Owner] \in BeforeStore THEN 2 ELSE 0

Top == MAX_SESSION + 2 * calls

\* Each call of the owner can raise _session by two at most: its own += 1 and
\* one of the thread, whose load it may have delayed.
Bounded ==
  /\ pc[Owner] # "dead" => calls > 0
  /\ session \in 1..(Top + 1 - Allowance)
  /\ num \in [Callers -> 0..(Top + 1)]
  /\ NoneWraps => session <= MAX_SESSION
  /\ pc[Owner] = "store" => num[Owner] < Top
  /\ pc[Owner] = "wrap" /\ (\A t \in Threads : pc[t] # "wrap")
       => session <= Top
  /\ \A t \in Threads : pc[t] = "store" => num[t] <= Top - Allowance

Typed ==
  /\ quad \in BOOLEAN /\ stop \in BOOLEAN /\ running \in BOOLEAN
  /\ calls <= OWNER_OFFERS
  /\ pc \in [Callers -> Statements]

TypeInv == Typed /\ Bounded

LEMMA InitTypeInv == Init => TypeInv
<1> SUFFICES ASSUME Init PROVE TypeInv
  OBVIOUS
<1> USE ServerAssumption DEF ServerAssumption
<1>1. Typed
  <2>1. pc \in [Callers -> Statements]
    BY DEF Init, Statements
  <2>2. calls <= OWNER_OFFERS
    BY DEF Init
  <2> QED
    BY <2>1, <2>2 DEF Init, Typed
<1>2. \A c \in Callers : pc[c] = "dead"
  BY DEF Init
<1>3. calls = 0 /\ Top = MAX_SESSION /\ Allowance = 0 /\ session = 1
  BY <1>2 DEF Init, Top, Allowance, BeforeStore
<1>4. num \in [Callers -> 0..(Top + 1)]
  BY <1>3 DEF Init
<1> QED
  BY <1>1, <1>2, <1>3, <1>4 DEF TypeInv, Bounded

\* A statement leads to a statement.
LEMMA OfferingGoes ==
  ASSUME NEW c \in Callers, Offering(c)
  PROVE  \E s \in Statements : pc' = [pc EXCEPT ![c] = s]
BY DEF Offering, Goto, Statements, AfterError, AfterOffer, ReadFirst,
       ClearFirst, Build, BuildFails, Load, Store, Wrap, SendOk, SendFails

LEMMA StepTyped ==
  ASSUME IInv, OfferShape, Typed, [Next]_serverVars PROVE Typed'
<1> USE DEF Typed, lifecycle, attributes
<1>1. ASSUME NEW c \in Callers, Offering(c) PROVE Typed'
  <2>1. pc' \in [Callers -> Statements]
    BY <1>1, OfferingGoes
  <2>2. UNCHANGED <<quad, stop, running, calls>>
    BY <1>1 DEF Offering, ReadFirst, ClearFirst, Build, BuildFails, Load,
                Store, Wrap, SendOk, SendFails
  <2> QED
    BY <2>1, <2>2
<1>2. ASSUME NEW t \in Threads, Loop(t) \/ Wait(t) PROVE Typed'
  BY <1>2 DEF Loop, Wait, Goto, Statements
<1>3. CASE StartThread
  BY <1>3 DEF StartThread, Goto, Statements
<1>4. CASE OwnerOffers
  <2>1. calls' <= OWNER_OFFERS
    BY <1>4, ServerAssumption DEF OwnerOffers, ServerAssumption, OfferShape
  <2>2. pc' \in [Callers -> Statements]
    BY <1>4 DEF OwnerOffers, Goto, Statements
  <2> QED
    BY <1>4, <2>1, <2>2 DEF OwnerOffers
<1>5. CASE StartClear \/ StopSet \/ StopJoined \/ UNCHANGED serverVars
  BY <1>5 DEF StartClear, StopSet, StopJoined, serverVars
<1> QED
  BY <1>1, <1>2, <1>3, <1>4, <1>5 DEF Next, Running

\* A thread's step, when no other thread is alive.
LEMMA ThreadBounded ==
  ASSUME IInv, OfferShape, TypeInv, NEW t \in Threads, Running(t)
  PROVE  Bounded'
<1> USE ServerAssumption
    DEF ServerAssumption, attributes, lifecycle, packets, history
<1>1. PICK s \in Statements : pc' = [pc EXCEPT ![t] = s]
  <2>1. CASE Offering(t) BY <2>1, OfferingGoes
  <2>2. CASE Loop(t) \/ Wait(t)
    BY <2>2 DEF Loop, Wait, Goto, Statements
  <2> QED BY <2>1, <2>2 DEF Running
<1>2. \A u \in Threads \ {t} : pc[u] = "dead" /\ pc'[u] = "dead"
  BY <1>1, RunningMoves DEF Moves
<1>3. /\ pc'[t] = s /\ pc'[Owner] = pc[Owner] /\ t # Owner
      /\ \A w : Goto(t, w) => s = w
  BY <1>1 DEF Goto
<1>4. calls' = calls /\ Top' = Top /\ Allowance' = Allowance
  <2>1. calls' = calls
    BY DEF Running, Loop, Wait, Offering, ReadFirst, ClearFirst, Build,
           BuildFails, Load, Store, Wrap, SendOk, SendFails
  <2> QED
    BY <1>3, <2>1 DEF Top, Allowance
<1>5. /\ session \in Nat /\ calls \in Nat /\ Top \in Nat
      /\ Allowance \in {0, 2}
      /\ (Allowance = 2 => pc[Owner] # "dead" /\ pc[Owner] # "wrap")
      /\ Top = MAX_SESSION + 2 * calls
  BY DEF OfferShape, Top, Allowance, BeforeStore
<1>6. /\ pc[Owner] # "dead" => calls > 0
      /\ 1 <= session /\ session <= Top + 1 - Allowance
      /\ num \in [Callers -> 0..(Top + 1)]
      /\ pc[t] # "wrap" /\ pc[Owner] # "wrap" => session <= MAX_SESSION
      /\ pc[Owner] = "store" => num[Owner] < Top
      /\ pc[Owner] = "wrap" /\ pc[t] # "wrap" => session <= Top
      /\ pc[t] = "store" => num[t] <= Top - Allowance
  BY <1>2, <1>5 DEF TypeInv, Bounded, NoneWraps
<1>7. SUFFICES
        /\ session' \in Nat /\ 1 <= session' /\ session' <= Top + 1 - Allowance
        /\ num' \in [Callers -> 0..(Top + 1)]
        /\ s # "wrap" /\ pc[Owner] # "wrap" => session' <= MAX_SESSION
        /\ num'[Owner] = num[Owner]
        /\ pc[Owner] = "wrap" /\ s # "wrap" => session' <= Top
        /\ s = "store" => num'[t] <= Top - Allowance
  BY <1>2, <1>3, <1>4, <1>5, <1>6 DEF Bounded, NoneWraps
<1>8. CASE Load(t)
  <2>1. s = "store" /\ session' = session /\ num' = [num EXCEPT ![t] = session]
    BY <1>3, <1>8 DEF Load
  <2>2. pc[t] = "load" /\ session <= Top - Allowance
    <3>1. pc[t] = "load"
      BY <1>8 DEF Load, At
    <3>2. CASE pc[Owner] = "wrap" BY <1>5, <1>6, <3>1, <3>2
    <3>3. CASE pc[Owner] # "wrap" BY <1>5, <1>6, <3>1, <3>3
    <3> QED BY <3>1, <3>2, <3>3
  <2>3. num'[t] = session /\ num'[Owner] = num[Owner]
    BY <1>3, <1>6, <2>1
  <2>4. num' \in [Callers -> 0..(Top + 1)]
    BY <1>5, <1>6, <2>1
  <2> QED
    BY <1>5, <1>6, <2>1, <2>2, <2>3, <2>4
<1>9. CASE Store(t)
  <2>1. /\ s = "wrap" /\ session' = num[t] + 1 /\ num' = num
        /\ pc[t] = "store"
    BY <1>3, <1>9 DEF Store, At
  <2> QED
    BY <1>5, <1>6, <2>1
<1>10. CASE Wrap(t)
  <2>1. s = "send" /\ num' = num
    BY <1>3, <1>10 DEF Wrap
  <2>2. session' \in Nat /\ 1 <= session' /\ session' <= MAX_SESSION
    BY <1>5, <1>6, <1>10 DEF Wrap
  <2> QED
    BY <1>5, <1>6, <2>1, <2>2
<1>11. CASE Loop(t) \/ Wait(t) \/ ReadFirst(t) \/ ClearFirst(t) \/ Build(t)
            \/ BuildFails(t) \/ SendOk(t) \/ SendFails(t)
  <2>1. session' = session /\ num' = num
    BY <1>11 DEF Loop, Wait, ReadFirst, ClearFirst, Build, BuildFails, SendOk,
                 SendFails
  <2>2. pc[t] # "wrap" /\ s # "wrap" /\ s # "store"
    BY <1>3, <1>11 DEF At, Loop, Wait, ReadFirst, ClearFirst, Build,
                       BuildFails, SendOk, SendFails, AfterError, AfterOffer
  <2> QED
    BY <1>5, <1>6, <2>1, <2>2
<1> QED
  BY <1>8, <1>9, <1>10, <1>11 DEF Running, Offering

\* A step of the owner's own call.
LEMMA OwnerBounded ==
  ASSUME OfferShape, TypeInv, Offering(Owner) PROVE Bounded'
<1> USE ServerAssumption
    DEF ServerAssumption, attributes, lifecycle, packets, history
<1>1. PICK s \in Statements : pc' = [pc EXCEPT ![Owner] = s]
  BY OfferingGoes
<1>2. /\ pc'[Owner] = s /\ \A w : Goto(Owner, w) => s = w
      /\ \A t \in Threads : pc'[t] = pc[t]
  BY <1>1 DEF Goto, TypeInv, Typed
<1>3. calls' = calls /\ Top' = Top
  <2>1. calls' = calls
    BY DEF Offering, ReadFirst, ClearFirst, Build, BuildFails, Load, Store,
           Wrap, SendOk, SendFails
  <2> QED
    BY <2>1 DEF Top
<1>4. /\ session \in Nat /\ calls \in Nat /\ Top \in Nat
      /\ Top = MAX_SESSION + 2 * calls
  BY DEF OfferShape, Top
<1>5. calls > 0
  <2>1. pc[Owner] # "dead"
    BY DEF Offering, ReadFirst, ClearFirst, Build, BuildFails, Load, Store,
           Wrap, SendOk, SendFails, At
  <2> QED
    BY <2>1 DEF TypeInv, Bounded
<1> DEFINE Quiet == \A t \in Threads : pc[t] # "wrap"
<1>6. /\ 1 <= session /\ session <= Top + 1 - Allowance
      /\ num \in [Callers -> 0..(Top + 1)]
      /\ Quiet /\ pc[Owner] # "wrap" => session <= MAX_SESSION
      /\ pc[Owner] = "store" => num[Owner] < Top
      /\ pc[Owner] = "wrap" /\ Quiet => session <= Top
      /\ \A t \in Threads : pc[t] = "store" => num[t] <= Top - Allowance
  BY <1>4 DEF TypeInv, Bounded, NoneWraps
<1>7. /\ Allowance = IF pc[Owner] \in BeforeStore THEN 2 ELSE 0
      /\ Allowance' = IF s \in BeforeStore THEN 2 ELSE 0
  BY <1>2 DEF Allowance
<1>8. SUFFICES
        /\ session' \in Nat /\ 1 <= session' /\ session' <= Top + 1 - Allowance'
        /\ num' \in [Callers -> 0..(Top + 1)]
        /\ Quiet /\ s # "wrap" => session' <= MAX_SESSION
        /\ s = "store" => num'[Owner] < Top
        /\ s = "wrap" /\ Quiet => session' <= Top
        /\ \A t \in Threads : pc[t] = "store" => num'[t] <= Top - Allowance'
  BY <1>2, <1>3, <1>4, <1>5, <1>7 DEF Bounded, NoneWraps
<1> HIDE DEF Quiet
<1>9. CASE Load(Owner)
  <2>1. /\ s = "store" /\ session' = session /\ pc[Owner] = "load"
        /\ num' = [num EXCEPT ![Owner] = session]
    BY <1>2, <1>9 DEF Load, At
  <2>2. Allowance = 2 /\ Allowance' = 2
    BY <1>7, <2>1 DEF BeforeStore
  <2>3. num'[Owner] = session /\ \A t \in Threads : num'[t] = num[t]
    BY <1>6, <2>1
  <2>4. num' \in [Callers -> 0..(Top + 1)]
    BY <1>4, <1>6, <2>1, <2>2
  <2> QED
    BY <1>4, <1>5, <1>6, <2>1, <2>2, <2>3, <2>4
<1>10. CASE Store(Owner)
  <2>1. /\ s = "wrap" /\ session' = num[Owner] + 1 /\ num' = num
        /\ pc[Owner] = "store"
    BY <1>2, <1>10 DEF Store, At
  <2>2. Allowance = 2 /\ Allowance' = 0
    BY <1>7, <2>1 DEF BeforeStore
  <2>3. \A t \in Threads : num[t] \in Nat
    BY DEF OfferShape
  <2> QED
    BY <1>4, <1>5, <1>6, <2>1, <2>2, <2>3
<1>11. CASE Wrap(Owner)
  <2>1. s = "send" /\ num' = num /\ pc[Owner] = "wrap"
    BY <1>2, <1>11 DEF Wrap, At
  <2>2. Allowance = 0 /\ Allowance' = 0
    BY <1>7, <2>1 DEF BeforeStore
  <2>3. session' \in Nat /\ 1 <= session' /\ session' <= MAX_SESSION
    BY <1>4, <1>6, <1>11 DEF Wrap
  <2> QED
    BY <1>4, <1>5, <1>6, <2>1, <2>2, <2>3
<1>12. CASE ReadFirst(Owner) \/ ClearFirst(Owner) \/ Build(Owner)
            \/ BuildFails(Owner) \/ SendOk(Owner) \/ SendFails(Owner)
  <2>1. session' = session /\ num' = num
    BY <1>12 DEF ReadFirst, ClearFirst, Build, BuildFails, SendOk, SendFails
  <2>2. pc[Owner] # "wrap" /\ s # "wrap" /\ s # "store"
    BY <1>2, <1>12 DEF At, ReadFirst, ClearFirst, Build, BuildFails, SendOk,
                       SendFails, AfterError, AfterOffer
  <2>3. s \in BeforeStore => pc[Owner] \in BeforeStore
    BY <1>2, <1>12 DEF At, ReadFirst, ClearFirst, Build, BuildFails, SendOk,
                       SendFails, AfterError, AfterOffer, BeforeStore
  <2>4. Allowance' \in {0, 2} /\ Allowance \in {0, 2}
        /\ Allowance' <= Allowance
    BY <1>7, <2>3
  <2>5. \A t \in Threads : num[t] \in Nat
    BY DEF OfferShape
  <2>6. \A t \in Threads : pc[t] = "store" => num'[t] <= Top - Allowance'
    BY <1>4, <1>6, <2>1, <2>4, <2>5
  <2>7. session' <= Top + 1 - Allowance'
    <3>1. session <= Top + 1 - Allowance
      BY <1>6
    <3>2. \A n, x \in Nat : \A a, b \in {0, 2} :
            x <= n + 1 - a /\ b <= a => x <= n + 1 - b
      OBVIOUS
    <3> QED
      BY <1>4, <2>1, <2>4, <3>1, <3>2
  <2> QED
    BY <1>4, <1>6, <2>1, <2>2, <2>6, <2>7
<1> QED
  BY <1>9, <1>10, <1>11, <1>12 DEF Offering

LEMMA StepBounded ==
  ASSUME IInv, OfferShape, TypeInv, [Next]_serverVars PROVE Bounded'
<1> USE ServerAssumption
    DEF ServerAssumption, attributes, lifecycle, packets, history
<1>1. CASE \E t \in Threads : Running(t)
  BY <1>1, ThreadBounded
<1>2. CASE Offering(Owner)
  BY <1>2, OwnerBounded
<1>3. CASE OwnerOffers
  <2>1. /\ pc[Owner] = "dead" /\ pc'[Owner] = "flags"
        /\ \A t \in Threads : pc'[t] = pc[t]
        /\ calls' = calls + 1 /\ session' = session /\ num' = num
    BY <1>3 DEF OwnerOffers, OwnerIdle, Goto
  <2>2. /\ Allowance = 0 /\ Allowance' = 2 /\ Top' = Top + 2
        /\ Top \in Nat /\ calls \in Nat
    BY <2>1 DEF Allowance, BeforeStore, Top, OfferShape
  <2>3. NoneWraps' => NoneWraps
    BY <2>1 DEF NoneWraps
  <2>4. num' \in [Callers -> 0..(Top' + 1)]
    BY <2>1, <2>2 DEF TypeInv, Bounded
  <2>5. \A t \in Threads :
          pc'[t] = "store" => num'[t] <= Top' - Allowance'
    BY <2>1, <2>2 DEF TypeInv, Bounded
  <2>6. session' \in 1..(Top' + 1 - Allowance')
    BY <2>1, <2>2 DEF TypeInv, Bounded
  <2> QED
    BY <2>1, <2>2, <2>3, <2>4, <2>5, <2>6 DEF TypeInv, Bounded
<1>4. CASE StartThread
  <2>1. PICK t \in Threads : pc' = [pc EXCEPT ![t] = "loop"] /\ pc[t] = "dead"
    BY <1>4 DEF StartThread, Goto
  <2>2. /\ pc'[Owner] = pc[Owner]
        /\ \A c \in Callers :
             \/ pc'[c] = pc[c]
             \/ pc[c] = "dead" /\ pc'[c] = "loop"
    BY <2>1
  <2>3. UNCHANGED <<session, calls, num>>
    BY <1>4 DEF StartThread
  <2>4. Top' = Top /\ Allowance' = Allowance
    BY <2>2, <2>3 DEF Top, Allowance
  <2>5. \A c \in Callers : /\ pc'[c] = "wrap" <=> pc[c] = "wrap"
                           /\ pc'[c] = "store" => pc[c] = "store"
    BY <2>2
  <2> QED
    BY <2>2, <2>3, <2>4, <2>5 DEF TypeInv, Bounded, NoneWraps
<1>5. CASE StartClear \/ StopSet \/ StopJoined \/ UNCHANGED serverVars
  <2>1. UNCHANGED <<session, calls, num, pc>>
    BY <1>5 DEF StartClear, StopSet, StopJoined, serverVars
  <2> QED
    BY <2>1 DEF TypeInv, Bounded, NoneWraps, Top, Allowance
<1> QED
  BY <1>1, <1>2, <1>3, <1>4, <1>5 DEF Next

\* The types of the server's state (sd.py, SdServer.__init__): whatever the
\* interleaving of offer_once with itself, _session is at least 1 and exceeds
\* 0xFFFF by no more than one and two for every call of the owner, and the
\* session of a packet fits its field.
THEOREM TypeCorrect == Spec => []TypeOK
<1>1. IInv /\ OfferInv /\ TypeInv /\ [Next]_serverVars => TypeInv'
  BY StepTyped, StepBounded DEF OfferInv, TypeInv
<1>2. IInv /\ OfferInv /\ TypeInv => TypeOK
  <2> SUFFICES ASSUME IInv, OfferInv, TypeInv PROVE TypeOK
    OBVIOUS
  <2>1. session \in 1..(MAX_SESSION + 1 + 2 * calls)
    BY ServerAssumption
       DEF TypeInv, Bounded, Allowance, Top, OfferInv, OfferShape,
           ServerAssumption
  <2>2. num \in [Callers -> 0..(MAX_SESSION + 1 + 2 * calls)]
    <3>1. Top + 1 = MAX_SESSION + 1 + 2 * calls
      BY ServerAssumption DEF Top, OfferInv, OfferShape, ServerAssumption
    <3> QED
      BY <3>1 DEF TypeInv, Bounded
  <2>3. calls \in 0..OWNER_OFFERS
    BY ServerAssumption
       DEF TypeInv, Typed, OfferInv, OfferShape, ServerAssumption
  <2> QED
    BY <2>1, <2>2, <2>3 DEF TypeOK, TypeInv, Typed, OfferInv, OfferShape,
                            Statements
<1> QED
  BY <1>1, <1>2, InitTypeInv, OfferInvariance, PTL DEF Spec

=============================================================================
