------------------------------ MODULE SdNetwork ------------------------------
(***************************************************************************)
(* SdClient.discover next to a running SdServer (both of mpu/someip/sd.py) *)
(* on one multicast group.  The server has no socket that receives: it     *)
(* never sees the FindService of discover, so a service is found only      *)
(* because an offer of its own accord falls into the search.               *)
(*                                                                         *)
(* The server is module SdServer, statement by statement; here the wait    *)
(* between two offers takes time, and its thread may be late.              *)
(***************************************************************************)
EXTENDS SdClient

CONSTANTS
  Advertiser,   \* the thread that _run runs in
  Owner,        \* the thread that calls start and stop
  NoThread,     \* _thread is None
  MAX_SESSION,  \* 0xFFFF
  SERVICE,      \* what the server offers ...
  PORT,         \* ... and where
  PERIOD,       \* period_ms, in ticks
  JITTER        \* ticks by which the advertiser thread can be late per round

ASSUME NetworkAssumption ==
  /\ SERVICE \in Wanted
  /\ \E m \in Multicast :  \* the server's offers are multicast
       m = OfferService(SERVICE, PORT, m.session, m.reboot)
  /\ Advertiser # Owner /\ NoThread \notin {Advertiser, Owner}
  /\ MAX_SESSION \in Nat \ {0}
  /\ PERIOD \in Nat /\ JITTER \in Nat

VARIABLES
  first, session, quad, stop, thread, owner, calls, running,
  serverPc, flag, num, built, sent,  \* the variables of SdServer
  sleep,    \* ticks left of the wait for the stop event
  late,     \* ticks by which this round of the advertiser is late
  failed,   \* history: sends that failed in a search that is not excused
  excused   \* history: no offer need have been received; see Excuse

Server == INSTANCE SdServer
  WITH pc <- serverPc, Threads <- {Advertiser}, OWNER_OFFERS <- 0

serverState ==
  <<first, session, quad, stop, thread, owner, calls, running, serverPc,
    flag, num, built, sent>>
timing == <<sleep, late>>
netHistory == <<failed, excused>>
netVars == <<clientVars, serverState, timing, netHistory>>

Searching == pc \in {"loop", "receive"}

NetInit ==
  /\ Init /\ Server!Init
  /\ quad
  /\ sleep = 0 /\ late = 0 /\ failed = 0 /\ excused = FALSE

-----------------------------------------------------------------------------
\* The server.

\* Its steps that neither send nor wait.
ServerComputes ==
  /\ \/ Server!StartClear \/ Server!StartThread
     \/ Server!StopSet \/ Server!StopJoined
     \/ Server!Loop(Advertiser)
     \/ Server!ReadFirst(Advertiser) \/ Server!ClearFirst(Advertiser)
     \/ Server!Build(Advertiser) \/ Server!Load(Advertiser)
     \/ Server!Store(Advertiser) \/ Server!Wrap(Advertiser)
  /\ late' = IF serverPc'[Advertiser] = "dead" THEN 0 ELSE late
  /\ excused' = (excused \/ (Searching /\ stop'))
  /\ UNCHANGED <<clientVars, sleep, failed>>

RoundEnds == sleep' = PERIOD /\ late' = 0

\* An offer reaches the socket of the search, if there is one with room.
OfferSent ==
  /\ Server!SendOk(Advertiser) /\ RoundEnds
  /\ inbox' = IF Searching /\ Len(inbox) < INBOX
              THEN Append(inbox,
                     [kind |-> "sd",
                      message |-> OfferService(SERVICE, PORT, built,
                                               flag[Advertiser])])
              ELSE inbox
  /\ excused' = (excused \/ (Searching /\ inbox' = inbox))
  /\ UNCHANGED <<pc, left, wait, results, heard, failed>>

\* The send fails, and so does the round.
OfferFails ==
  /\ Server!SendFails(Advertiser) /\ RoundEnds
  /\ failed' = IF Searching /\ ~excused THEN failed + 1 ELSE failed
  /\ UNCHANGED <<clientVars, excused>>

\* The wait is over: the period has passed, or stop was called.
WaitEnds ==
  /\ sleep = 0 \/ stop
  /\ Server!Wait(Advertiser)
  /\ UNCHANGED <<clientVars, timing, netHistory>>

AdvertiserSteps ==
  \/ ServerComputes /\ UNCHANGED owner /\ serverPc' # serverPc
  \/ OfferSent \/ OfferFails \/ WaitEnds

-----------------------------------------------------------------------------
\* Time.

\* The advertiser thread could run.
Ready ==
  /\ Server!Alive(Advertiser)
  /\ Server!At(Advertiser, "wait") => sleep = 0 \/ stop

\* The search is behind with its datagrams, or the server is not running.
Excuse == inbox # <<>> \/ ~running \/ stop

NetTick ==
  /\ Ready => late < JITTER
  /\ late' = IF Ready THEN late + 1 ELSE late
  /\ sleep' = Down(sleep)
  /\ \/ Tick /\ excused' = (excused \/ Excuse)
     \/ pc = "open" /\ UNCHANGED <<clientVars, excused>>
  /\ UNCHANGED <<serverState, failed>>

NetNext ==
  \/ (Discover \/ Arrive) /\ UNCHANGED <<serverState, timing, netHistory>>
  \/ ServerComputes \/ OfferSent \/ OfferFails \/ WaitEnds
  \/ NetTick

\* As in SdClient and SdServer: threads that can run do, and time passes.
NetSpec ==
  /\ NetInit /\ [][NetNext]_netVars
  /\ WF_netVars(Discover /\ UNCHANGED <<serverState, timing, netHistory>>)
  /\ WF_netVars(AdvertiserSteps) /\ WF_netVars(NetTick)

-----------------------------------------------------------------------------

\* The search is longer than a period and the lateness of the thread for each
\* send that failed in it, and one more.  The defaults timeout_s = 2.0 and
\* period_ms = 2000 are not: TIMEOUT > PERIOD + JITTER is false of them, even if
\* no send fails.
LongEnough == TIMEOUT > (failed + 1) * (PERIOD + JITTER)

\* A server that runs all the time is missed only by a search that is not
\* LongEnough, although it never answers: the advertiser thread must survive
\* failing sends and keep its period, and discover must not stop early.
RunningServerFound ==
  pc = "returned" /\ ~excused /\ LongEnough => results[SERVICE] # NoEndpoint

=============================================================================
