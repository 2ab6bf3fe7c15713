------------------------------ MODULE SdServer ------------------------------
(***************************************************************************)
(* SdServer of mpu/someip/sd.py: the life cycle of the advertiser thread   *)
(* (start, stop, the stop event) and offer_once, whose statements share    *)
(* _first and _session without a lock.                                     *)
(*                                                                         *)
(* One thread of the program, the owner, calls start and stop; it may also *)
(* call offer_once itself (OWNER_OFFERS times).  Every run of offer_once   *)
(* belongs to one of Callers.  Threads are the identities of advertiser    *)
(* threads; a dead one stands for a thread object not created yet.         *)
(***************************************************************************)
EXTENDS Naturals

CONSTANTS
  Threads,       \* identities of advertiser threads
  Owner,         \* the thread that owns the server
  NoThread,      \* _thread is None
  MAX_SESSION,   \* 0xFFFF
  OWNER_OFFERS   \* bound: how often the owner calls offer_once itself

Callers == Threads \cup {Owner}

ASSUME ServerAssumption ==
  /\ Owner \notin Threads /\ NoThread \notin Callers
  /\ MAX_SESSION \in Nat /\ MAX_SESSION > 1
  /\ OWNER_OFFERS \in Nat

VARIABLES
  first, session,  \* _first and _session
  quad,            \* ip is a dotted quad (inet_aton accepts it)
  stop, thread,    \* the Event and the current thread object
  owner,           \* where the owner is: "idle", or inside "start" or "stop"
  calls,           \* bound: offer_once calls of the owner so far
  running,         \* history: start has returned, and no stop since
  pc,              \* statement that each caller is about to run
  flag,            \* per caller: its packet carries FLAG_REBOOT
  num,             \* per caller: _session as last read (packet, then += 1)
  built,           \* history: session of the last packet built, 0 if none
  sent             \* history: the last offer sent; n counts 0, 1, many (2)

attributes == <<first, session, quad>>
lifecycle == <<stop, thread, owner, running, calls>>
packets == <<flag, num>>
history == <<built, sent>>
serverVars == <<attributes, lifecycle, pc, packets, history>>

Alive(t) == pc[t] # "dead"
At(c, statement) == pc[c] = statement
Goto(c, statement) == pc' = [pc EXCEPT ![c] = statement]

Init ==
  /\ first = TRUE /\ session = 1 /\ quad \in BOOLEAN
  /\ stop = FALSE /\ thread = NoThread /\ owner = "idle" /\ running = FALSE
  /\ calls = 0
  /\ pc = [c \in Callers |-> "dead"]
  /\ flag = [c \in Callers |-> FALSE] /\ num = [c \in Callers |-> 0]
  /\ built = 0 /\ sent = [n |-> 0, reboot |-> FALSE]

\* The owner is in none of the server's methods.
OwnerIdle == owner = "idle" /\ ~Alive(Owner)

-----------------------------------------------------------------------------
\* The owner's calls.

\* start(): nothing if the thread is alive; otherwise the event is cleared ...
StartClear ==
  /\ OwnerIdle
  /\ thread # NoThread => ~Alive(thread)
  /\ stop' = FALSE /\ owner' = "start"
  /\ UNCHANGED <<thread, running, calls, attributes, pc, packets, history>>

\* ... and a new thread is started.
StartThread ==
  /\ owner = "start"
  /\ \E t \in Threads :
       ~Alive(t) /\ Goto(t, "loop") /\ thread' = t
  /\ owner' = "idle" /\ running' = TRUE
  /\ UNCHANGED <<stop, calls, attributes, packets, history>>

\* A fault: stop does not wait for the thread.
StopWithoutJoin ==
  /\ OwnerIdle /\ thread # NoThread
  /\ stop' = TRUE /\ thread' = NoThread /\ running' = FALSE
  /\ UNCHANGED <<owner, calls, attributes, pc, packets, history>>

\* stop(): nothing without a thread; otherwise the event is set ...
StopSet ==
  /\ OwnerIdle /\ thread # NoThread
  /\ stop' = TRUE /\ owner' = "stop"
  /\ UNCHANGED <<thread, running, calls, attributes, pc, packets, history>>

\* ... and stop returns once the thread has ended.
StopJoined ==
  /\ owner = "stop" /\ ~Alive(thread)
  /\ thread' = NoThread /\ owner' = "idle" /\ running' = FALSE
  /\ UNCHANGED <<stop, calls, attributes, pc, packets, history>>

\* The owner calls offer_once.
OwnerOffers ==
  /\ OwnerIdle /\ calls < OWNER_OFFERS
  /\ Goto(Owner, "flags")
  /\ calls' = calls + 1
  /\ UNCHANGED <<attributes, stop, thread, owner, running, packets, history>>

-----------------------------------------------------------------------------
\* The loop of the advertiser thread.

\* A fault: the loop never looks at the event.
LoopForever(t) ==
  /\ At(t, "loop") /\ Goto(t, "flags")
  /\ UNCHANGED <<attributes, lifecycle, packets, history>>

\* while not self._stop.is_set()
Loop(t) ==
  /\ At(t, "loop") /\ Goto(t, IF stop THEN "dead" ELSE "flags")
  /\ UNCHANGED <<attributes, lifecycle, packets, history>>

\* self._stop.wait(period): the period passes, or the event ends it early.
Wait(t) ==
  /\ At(t, "wait") /\ Goto(t, "loop")
  /\ UNCHANGED <<attributes, lifecycle, packets, history>>

\* Where a caller goes when offer_once returns.
AfterOffer(c) == IF c = Owner THEN "dead" ELSE "wait"

\* A fault: the loop does not catch OSError.
DieAfterError(c) == "dead"

\* Where it goes when offer_once raises OSError: the loop swallows it and the
\* owner is free to call again.
AfterError(c) == AfterOffer(c)

-----------------------------------------------------------------------------
\* offer_once, statement by statement.

\* flags depend on _first ...
ReadFirst(c) ==
  /\ At(c, "flags") /\ Goto(c, "first")
  /\ flag' = [flag EXCEPT ![c] = first]
  /\ UNCHANGED <<attributes, lifecycle, num, history>>

\* A fault: _first is never reset.
KeepFirst(c) ==
  /\ At(c, "first") /\ Goto(c, "build")
  /\ UNCHANGED <<attributes, lifecycle, packets, history>>

\* ... and _first is reset before anything has been sent.
ClearFirst(c) ==
  /\ At(c, "first") /\ Goto(c, "build")
  /\ first' = FALSE
  /\ UNCHANGED <<session, quad, lifecycle, packets, history>>

\* The packet carries _session & 0xFFFF ...
Build(c) ==
  /\ At(c, "build") /\ quad /\ Goto(c, "load")
  /\ built' = session % (MAX_SESSION + 1)
  /\ UNCHANGED <<attributes, lifecycle, packets, sent>>

\* ... unless inet_aton refuses the address: OSError, before the += 1.
BuildFails(c) ==
  /\ At(c, "build") /\ ~quad /\ Goto(c, AfterError(c))
  /\ UNCHANGED <<attributes, lifecycle, packets, history>>

\* self._session += 1 is a load ...
Load(c) ==
  /\ At(c, "load") /\ Goto(c, "store")
  /\ num' = [num EXCEPT ![c] = session]
  /\ UNCHANGED <<attributes, lifecycle, flag, history>>

\* ... and a store.
Store(c) ==
  /\ At(c, "store") /\ Goto(c, "wrap")
  /\ session' = num[c] + 1
  /\ UNCHANGED <<first, quad, lifecycle, packets, history>>

\* A fault: _session is never reset.
NoWrap(c) ==
  /\ At(c, "wrap") /\ Goto(c, "send")
  /\ UNCHANGED <<attributes, lifecycle, packets, history>>

\* if self._session > 0xFFFF: self._session = 1
Wrap(c) ==
  /\ At(c, "wrap") /\ Goto(c, "send")
  /\ session' = IF session > MAX_SESSION THEN 1 ELSE session
  /\ UNCHANGED <<first, quad, lifecycle, packets, history>>

\* The socket takes the packet ...
SendOk(c) ==
  /\ At(c, "send") /\ Goto(c, AfterOffer(c))
  /\ sent' = [n |-> IF sent.n = 0 THEN 1 ELSE 2, reboot |-> flag[c]]
  /\ UNCHANGED <<attributes, lifecycle, packets, built>>

\* ... or the network is not there: OSError.
SendFails(c) ==
  /\ At(c, "send") /\ Goto(c, AfterError(c))
  /\ UNCHANGED <<attributes, lifecycle, packets, history>>

-----------------------------------------------------------------------------

Offering(c) ==
  \/ ReadFirst(c) \/ ClearFirst(c) \/ Build(c) \/ BuildFails(c)
  \/ Load(c) \/ Store(c) \/ Wrap(c) \/ SendOk(c) \/ SendFails(c)

Running(t) == Loop(t) \/ Wait(t) \/ Offering(t)

Next ==
  \/ StartClear \/ StartThread \/ StopSet \/ StopJoined \/ OwnerOffers
  \/ Offering(Owner)
  \/ \E t \in Threads : Running(t)

Spec == Init /\ [][Next]_serverVars

\* The interpreter schedules every started thread, and a method the owner has
\* entered runs on; nothing says that the owner ever calls one.
Fairness ==
  /\ \A t \in Threads : WF_serverVars(Running(t))
  /\ WF_serverVars(StartThread) /\ WF_serverVars(StopJoined)
  /\ WF_serverVars(Offering(Owner))

FairSpec == Spec /\ Fairness

-----------------------------------------------------------------------------
\* Properties.

\* The values the variables take.  Between its += 1 and its wrap an offer_once
\* may leave _session one too large; each call of the owner that overlaps with
\* one of the thread may push it two further.
TypeOK ==
  /\ first \in BOOLEAN /\ quad \in BOOLEAN /\ stop \in BOOLEAN
  /\ session \in 1..(MAX_SESSION + 1 + 2 * calls)
  /\ thread \in Threads \cup {NoThread}
  /\ owner \in {"idle", "start", "stop"} /\ running \in BOOLEAN
  /\ calls \in 0..OWNER_OFFERS
  /\ pc \in [Callers -> {"dead", "loop", "wait", "flags", "first", "build",
                         "load", "store", "wrap", "send"}]
  /\ flag \in [Callers -> BOOLEAN]
  /\ num \in [Callers -> 0..(MAX_SESSION + 1 + 2 * calls)]
  /\ built \in 0..MAX_SESSION
  /\ sent \in [n : 0..2, reboot : BOOLEAN]

\* However start and stop are repeated, the only thread that advertises is the
\* one the server knows, and none advertises once stop has returned: stop joins
\* the thread before it forgets it.
OneAdvertiser == \A t \in Threads : Alive(t) => running /\ thread = t

\* FLAG_REBOOT is set in the first offer at most: "0xC0, then 0x40", as long as
\* the owner does not call offer_once into the gap between the flag and _first.
RebootAtMostOnce == calls = 0 /\ sent.n > 1 => ~sent.reboot

\* The session a receiver expects after s.
Following(s) == IF s = MAX_SESSION THEN 1 ELSE s + 1

\* Every packet carries the session that follows the one before it, from 1 on
\* and never 0: the sessions of sd.py run through 1..0xFFFF.  A call of the
\* owner breaks it: two callers can build with the same _session.
SessionsAdvance ==
  [][\A t \in Threads :
       calls = 0 /\ At(t, "build") /\ pc'[t] = "load"
         => built' = Following(built)]_serverVars

\* While the server is not stopped it tries to send again and again, although
\* single sends fail: an OSError must not end the loop.
KeepsOffering ==
  quad /\ <>[]running => []<>(\E t \in Threads : At(t, "send"))

\* stop() returns: the thread sees the event, however its sends end.
StopReturns == (owner = "stop") ~> (owner = "idle")

=============================================================================
