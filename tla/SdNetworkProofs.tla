--------------------------- MODULE SdNetworkProofs ---------------------------
(***************************************************************************)
(* Proofs about SdClient alone and about SdNetwork, for every timeout,     *)
(* period, lateness and number of failing sends, and whatever is multicast *)
(* besides: the server of SdNetwork behaves as SdServer says, discover     *)
(* reports what it receives and lasts until its deadline, its endpoints    *)
(* come with an offer of their service, and a server that runs all the     *)
(* time is missed only by a search that is too short.                      *)
(***************************************************************************)
EXTENDS SdNetwork, WellFoundedInduction, TLAPS

-----------------------------------------------------------------------------
\* Sequences and numbers.

\* A set of naturals has a least element.
LEMMA LeastExists ==
  ASSUME NEW S, S \subseteq Nat, S # {}
  PROVE  \E k \in S : \A j \in S : k <= j
<1> DEFINE R == OpToRel(<, Nat)
<1>1. IsWellFoundedOn(R, Nat) BY NatLessThanWellFounded
<1>2. \E k \in S : \A j \in S : ~(<<j, k>> \in R)
  <2> HIDE DEF R
  <2> QED BY <1>1, WFMin
<1>3. \A j, k \in Nat : j < k => <<j, k>> \in R BY DEF OpToRel
<1> HIDE DEF R
<1>4. PICK k \in S : \A j \in S : ~(<<j, k>> \in R) BY <1>2
<1>5. \A j \in S : ~(j < k) BY <1>3, <1>4
<1>6. \A i, j \in Nat : ~(j < i) => i <= j OBVIOUS
<1> QED BY <1>5, <1>6

\* q is a sequence, of whatever.
Sequence(q) == q \in Seq({q[k] : k \in 1..Len(q)})

LEMMA SequenceOf ==
  ASSUME NEW T, NEW q \in Seq(T) PROVE Sequence(q)
BY DEF Sequence

LEMMA ElementOf ==
  ASSUME NEW T, NEW q \in Seq(T), NEW k \in 1..Len(q) PROVE q[k] \in T
OBVIOUS

LEMMA LenOf ==
  ASSUME NEW q, Sequence(q)
  PROVE  Len(q) \in Nat /\ (q = <<>> <=> Len(q) = 0)
BY DEF Sequence

LEMMA EmptySequence == Sequence(<<>>) /\ Len(<<>>) = 0
<1>1. <<>> \in Seq({}) OBVIOUS
<1> QED BY <1>1, SequenceOf

LEMMA TailOf ==
  ASSUME NEW q, Sequence(q), q # <<>>
  PROVE  /\ Sequence(Tail(q)) /\ Head(q) = q[1]
         /\ Len(q) \in Nat \ {0} /\ Len(Tail(q)) = Len(q) - 1
         /\ \A k \in 1..Len(Tail(q)) : Tail(q)[k] = q[k + 1]
<1> DEFINE T == {q[k] : k \in 1..Len(q)}
<1>1. q \in Seq(T) BY DEF Sequence
<1> HIDE DEF T
<1>2. /\ Tail(q) \in Seq(T) /\ Head(q) = q[1]
      /\ Len(q) \in Nat \ {0} /\ Len(Tail(q)) = Len(q) - 1
      /\ \A k \in 1..Len(Tail(q)) : Tail(q)[k] = q[k + 1]
  BY <1>1
<1> QED BY <1>2, SequenceOf

LEMMA AppendTo ==
  ASSUME NEW q, NEW d, Sequence(q)
  PROVE  /\ Sequence(Append(q, d))
         /\ Len(Append(q, d)) = Len(q) + 1
         /\ Append(q, d)[Len(q) + 1] = d
         /\ \A k \in 1..Len(q) : Append(q, d)[k] = q[k]
<1> DEFINE T == {q[k] : k \in 1..Len(q)} \cup {d}
<1>1. q \in Seq(T)
  <2>1. \A S : q \in Seq(S) => q \in Seq(S \cup {d}) OBVIOUS
  <2> QED BY <2>1 DEF Sequence
<1>2. d \in T OBVIOUS
<1> HIDE DEF T
<1>3. /\ Append(q, d) \in Seq(T)
      /\ Len(Append(q, d)) = Len(q) + 1
      /\ Append(q, d)[Len(q) + 1] = d
      /\ \A k \in 1..Len(q) : Append(q, d)[k] = q[k]
  BY <1>1, <1>2
<1> QED BY <1>3, SequenceOf

-----------------------------------------------------------------------------
\* What discover makes of one message.

\* m carries the entries and options of a message of the group; its session
\* and its flag do not matter to discover.
Carries(m) ==
  \E n \in Multicast : m.entries = n.entries /\ m.options = n.options

LEMMA LayoutOf ==
  ASSUME NEW m, Carries(m)
  PROVE  /\ Len(m.options) \in Nat
         /\ \A k \in 1..Len(m.entries) : m.entries[k].service \in Services
<1>1. PICK n \in Multicast : m.entries = n.entries /\ m.options = n.options
  BY DEF Carries
<1>2. Len(m.options) \in Nat
  BY <1>1, MulticastAssumption DEF MulticastAssumption, WellFormed
<1>3. \A k \in 1..Len(n.entries) : n.entries[k].service \in Services
  BY DEF Services
<1> QED BY <1>1, <1>2, <1>3

LEMMA FirstIsEndpoint ==
  ASSUME NEW m, Carries(m), Endpoints(m) # {}
  PROVE  /\ FirstEndpoint(m) \in 1..Len(m.options)
         /\ m.options[FirstEndpoint(m)].type = IP4_ENDPOINT
<1>1. Endpoints(m) \subseteq Nat BY LayoutOf DEF Endpoints
<1>2. \E k \in Endpoints(m) : \A j \in Endpoints(m) : k <= j
  BY <1>1, LeastExists
<1>3. FirstEndpoint(m) \in Endpoints(m) BY <1>2 DEF FirstEndpoint
<1> QED BY <1>3 DEF Endpoints

\* A service is found once an entry offers it next to some endpoint.
Found(m, s) ==
  /\ Endpoints(m) # {}
  /\ \E k \in 1..Len(m.entries) :
       Match(m.entries[k]) /\ m.entries[k].service = s

LEMMA CollectOf ==
  ASSUME NEW m, Carries(m), NEW s \in Services
  PROVE  /\ Found(m, s) => /\ Collect(m)[s] = m.options[FirstEndpoint(m)]
                           /\ Collect(m)[s] # NoEndpoint
         /\ ~Found(m, s) => Collect(m)[s] = results[s]
<1>1. CASE Found(m, s)
  <2>1. Collect(m)[s] = m.options[FirstEndpoint(m)]
    BY <1>1 DEF Collect, Found
  <2>2. m.options[FirstEndpoint(m)].type = IP4_ENDPOINT
    BY <1>1, FirstIsEndpoint DEF Found
  <2>3. m.options[FirstEndpoint(m)] # NoEndpoint
    BY <2>2 DEF IP4_ENDPOINT, NoEndpoint
  <2> QED BY <1>1, <2>1, <2>3
<1>2. CASE ~Found(m, s) BY <1>2 DEF Collect, Found
<1> QED BY <1>1, <1>2

\* What is offered at an endpoint of its own is found.
LEMMA OffersFound ==
  ASSUME NEW m, Carries(m), NEW s \in Offers(m)
  PROVE  s \in Services /\ Found(m, s)
<1>1. PICK k \in 1..Len(m.entries) :
        /\ Match(m.entries[k]) /\ m.entries[k].service = s
        /\ \E o \in OwnOptions(m, m.entries[k]) : o.type = IP4_ENDPOINT
  BY DEF Offers
<1>2. Endpoints(m) # {} BY <1>1 DEF OwnOptions, Endpoints
<1> QED BY <1>1, <1>2, LayoutOf DEF Found

-----------------------------------------------------------------------------
\* discover, whatever is received.

InboxInv ==
  /\ Sequence(inbox)
  /\ \A k \in 1..Len(inbox) :
       inbox[k].kind = "sd" => Carries(inbox[k].message)

\* recvfrom is given what is left of the timeout.
DeadlineInv ==
  /\ left \in Nat /\ wait \in Nat /\ wait <= left /\ left <= TIMEOUT
  /\ pc = "open" => left = TIMEOUT /\ inbox = <<>>
  /\ pc = "receive" => wait = left
  /\ pc = "returned" => left = 0

HeardInv == heard \subseteq Services /\ \A s \in heard : results[s] # NoEndpoint

ClientInv == InboxInv /\ DeadlineInv /\ HeardInv

LEMMA InitClient == Init => ClientInv /\ EndpointIsOffered
<1> SUFFICES ASSUME Init PROVE ClientInv /\ EndpointIsOffered OBVIOUS
<1>1. InboxInv BY EmptySequence DEF Init, InboxInv
<1>2. DeadlineInv
  BY ClientAssumption DEF ClientAssumption, Init, DeadlineInv
<1>3. HeardInv /\ EndpointIsOffered BY DEF Init, HeardInv, EndpointIsOffered
<1> QED BY <1>1, <1>2, <1>3 DEF ClientInv

\* The datagram that recvfrom returns is taken from the inbox.
LEMMA Received ==
  ASSUME InboxInv, inbox # <<>>, inbox' = Tail(inbox)
  PROVE  /\ InboxInv'
         /\ Head(inbox).kind = "sd" => Carries(Head(inbox).message)
<1>1. /\ Sequence(Tail(inbox)) /\ Head(inbox) = inbox[1]
      /\ Len(inbox) \in Nat \ {0} /\ Len(Tail(inbox)) = Len(inbox) - 1
      /\ \A k \in 1..Len(Tail(inbox)) : Tail(inbox)[k] = inbox[k + 1]
  BY TailOf DEF InboxInv
<1>2. \A k \in 1..Len(Tail(inbox)) :
        k + 1 \in 1..Len(inbox) /\ Tail(inbox)[k] = inbox[k + 1]
  BY <1>1
<1>3. 1 \in 1..Len(inbox) BY <1>1
<1> QED BY <1>1, <1>2, <1>3 DEF InboxInv

LEMMA Delivered ==
  ASSUME InboxInv, NEW d, inbox' = Append(inbox, d),
         d.kind = "sd" => Carries(d.message)
  PROVE  InboxInv'
<1>1. /\ Sequence(inbox') /\ Len(inbox') = Len(inbox) + 1
      /\ inbox'[Len(inbox) + 1] = d
      /\ \A k \in 1..Len(inbox) : inbox'[k] = inbox[k]
      /\ Len(inbox) \in Nat
  BY AppendTo, LenOf DEF InboxInv
<1>2. \A k \in 1..Len(inbox') : k \in 1..Len(inbox) \/ k = Len(inbox) + 1
  BY <1>1
<1> QED BY <1>1, <1>2 DEF InboxInv

\* An endpoint that was found is replaced by an endpoint, if at all.
LEMMA ReceiveSdKeeps ==
  ASSUME InboxInv, ReceiveSd, NEW s \in Services, results[s] # NoEndpoint
  PROVE  results'[s] # NoEndpoint
<1>1. Carries(Head(inbox).message) BY Received DEF ReceiveSd
<1> QED BY <1>1, CollectOf DEF ReceiveSd

LEMMA DiscoverClient == ClientInv /\ Discover => ClientInv'
<1> SUFFICES ASSUME ClientInv, Discover PROVE ClientInv' OBVIOUS
<1> USE DEF ClientInv
<1>1. CASE Open
  BY <1>1 DEF Open, InboxInv, DeadlineInv, HeardInv
<1>2. CASE Loop
  <2>1. InboxInv' /\ HeardInv' BY <1>2 DEF Loop, InboxInv, HeardInv
  <2>2. DeadlineInv'
    <3>1. CASE left = 0 BY <1>2, <3>1 DEF Loop, DeadlineInv
    <3>2. CASE left # 0 BY <1>2, <3>2 DEF Loop, DeadlineInv
    <3> QED BY <3>1, <3>2
  <2> QED BY <2>1, <2>2
<1>3. CASE ReceiveSd
  <2>1. InboxInv' /\ Carries(Head(inbox).message)
    BY <1>3, Received DEF ReceiveSd
  <2>2. DeadlineInv' BY <1>3 DEF ReceiveSd, DeadlineInv
  <2>3. HeardInv'
    <3>1. heard' = heard \cup Offers(Head(inbox).message) BY <1>3 DEF ReceiveSd
    <3>2. \A s \in heard : s \in Services /\ results'[s] # NoEndpoint
      BY <1>3, ReceiveSdKeeps DEF HeardInv
    <3>3. \A s \in Offers(Head(inbox).message) :
            s \in Services /\ results'[s] # NoEndpoint
      BY <1>3, <2>1, OffersFound, CollectOf DEF ReceiveSd
    <3> QED BY <3>1, <3>2, <3>3 DEF HeardInv
  <2> QED BY <2>1, <2>2, <2>3
<1>4. CASE ReceiveInvalid
  <2>1. InboxInv' BY <1>4, Received DEF ReceiveInvalid
  <2> QED BY <1>4, <2>1 DEF ReceiveInvalid, AfterInvalid, DeadlineInv, HeardInv
<1>5. CASE ReceiveHeader
  <2>1. InboxInv' BY <1>5, Received DEF ReceiveHeader
  <2> QED BY <1>5, <2>1 DEF ReceiveHeader, DeadlineInv, HeardInv
<1>6. CASE TimesOut
  BY <1>6 DEF TimesOut, InboxInv, DeadlineInv, HeardInv
<1> QED BY <1>1, <1>2, <1>3, <1>4, <1>5, <1>6 DEF Discover

LEMMA ArriveClient == ClientInv /\ Arrive => ClientInv'
<1> SUFFICES ASSUME ClientInv, Arrive PROVE ClientInv' OBVIOUS
<1> USE DEF ClientInv
<1>1. PICK d \in {[kind |-> "sd", message |-> m] : m \in Multicast}
                   \cup {[kind |-> "invalid"], [kind |-> "header"]} :
        inbox' = Append(inbox, d)
  BY DEF Arrive
<1>2. d.kind = "sd" => Carries(d.message) BY DEF Carries
<1>3. InboxInv' BY <1>1, <1>2, Delivered
<1> QED BY <1>3 DEF Arrive, DeadlineInv, HeardInv

LEMMA TickClient == ClientInv /\ Tick => ClientInv'
<1> SUFFICES ASSUME ClientInv, Tick PROVE ClientInv' OBVIOUS
<1> USE DEF ClientInv
<1>1. InboxInv' /\ HeardInv' BY DEF Tick, InboxInv, HeardInv
<1>2. \A n \in Nat : Down(n) \in Nat /\ Down(n) <= n BY DEF Down
<1>3. \A m, n \in Nat : m <= n => Down(m) <= Down(n) BY DEF Down
<1>4. DeadlineInv'
  <2>1. left' = Down(left) /\ wait' = Down(wait) /\ pc' = pc
        /\ pc \in {"loop", "receive"}
    BY DEF Tick
  <2>2. left \in Nat /\ wait \in Nat /\ wait <= left /\ left <= TIMEOUT
        /\ TIMEOUT \in Nat
    BY ClientAssumption DEF ClientAssumption, DeadlineInv
  <2>3. left' \in Nat /\ wait' \in Nat /\ wait' <= left' /\ left' <= TIMEOUT
    <3>1. Down(left) <= left BY <2>2, <1>2
    <3> QED BY <1>2, <1>3, <2>1, <2>2, <3>1
  <2> QED BY <2>1, <2>3 DEF DeadlineInv
<1> QED BY <1>1, <1>4

LEMMA IdleClient == ClientInv /\ UNCHANGED clientVars => ClientInv'
BY DEF ClientInv, InboxInv, DeadlineInv, HeardInv, clientVars

LEMMA ClientReports == ClientInv => NothingMissed
BY DEF ClientInv, DeadlineInv, HeardInv, NothingMissed

\* Whatever arrives on the group, and however time passes, discover (sd.py)
\* lasts until its deadline unless it raises, and reports an endpoint for every
\* service that was offered to it at an endpoint.
THEOREM DiscoverMissesNothing == Spec => []NothingMissed
<1>1. Init => ClientInv BY InitClient
<1>2. ClientInv /\ [Next]_clientVars => ClientInv'
  BY DiscoverClient, ArriveClient, TickClient, IdleClient DEF Next
<1>3. ClientInv => NothingMissed BY ClientReports
<1> QED BY <1>1, <1>2, <1>3, PTL DEF Spec

-----------------------------------------------------------------------------
\* The endpoint that is reported.

\* What discover takes for a service came with an offer of it.
LEMMA FirstIsOffered ==
  ASSUME NEW m, Carries(m), NEW s \in Services, Found(m, s)
  PROVE  \E n \in Multicast :
           /\ \E k \in 1..Len(n.entries) :
                n.entries[k].type = OFFER /\ n.entries[k].service = s
           /\ \E k \in 1..Len(n.options) :
                /\ n.options[k].type = IP4_ENDPOINT
                /\ n.options[k] = m.options[FirstEndpoint(m)]
<1>1. PICK n \in Multicast : m.entries = n.entries /\ m.options = n.options
  BY DEF Carries
<1>2. PICK k \in 1..Len(n.entries) :
        n.entries[k].type = OFFER /\ n.entries[k].service = s
  BY <1>1 DEF Found, Match
<1>3. /\ FirstEndpoint(m) \in 1..Len(n.options)
      /\ n.options[FirstEndpoint(m)].type = IP4_ENDPOINT
  BY <1>1, FirstIsEndpoint DEF Found
<1> QED BY <1>1, <1>2, <1>3

LEMMA DiscoverOffered ==
  ClientInv /\ EndpointIsOffered /\ Discover => EndpointIsOffered'
<1> SUFFICES ASSUME ClientInv, EndpointIsOffered, Discover
             PROVE  EndpointIsOffered'
  OBVIOUS
<1>1. CASE ReceiveSd
  <2> DEFINE m == Head(inbox).message
  <2>1. Carries(m) BY <1>1, Received DEF ReceiveSd, ClientInv
  <2>2. results' = Collect(m) BY <1>1 DEF ReceiveSd
  <2> HIDE DEF m
  <2> SUFFICES ASSUME NEW s \in Services, results'[s] # NoEndpoint
               PROVE  \E n \in Multicast :
                        /\ \E k \in 1..Len(n.entries) :
                             /\ n.entries[k].type = OFFER
                             /\ n.entries[k].service = s
                        /\ \E k \in 1..Len(n.options) :
                             /\ n.options[k].type = IP4_ENDPOINT
                             /\ n.options[k] = results'[s]
    BY DEF EndpointIsOffered
  <2>3. CASE Found(m, s)
    <3>1. results'[s] = m.options[FirstEndpoint(m)]
      BY <2>1, <2>2, <2>3, CollectOf
    <3> QED BY <2>1, <2>3, <3>1, FirstIsOffered
  <2>4. CASE ~Found(m, s)
    <3>1. results'[s] = results[s] BY <2>1, <2>2, <2>4, CollectOf
    <3> QED BY <3>1 DEF EndpointIsOffered
  <2> QED BY <2>3, <2>4
<1>2. CASE ~ReceiveSd
  <2>1. UNCHANGED results
    BY <1>2 DEF Discover, Open, Loop, ReceiveInvalid, ReceiveHeader, TimesOut
  <2> QED BY <2>1 DEF EndpointIsOffered
<1> QED BY <1>1, <1>2

\* discover (sd.py) takes the first endpoint of a message for every offer in
\* it, so an endpoint that it reports came with an offer of the service, in a
\* message of any number of entries and options, and never with a Subscribe.
THEOREM EndpointsAreOffered == Spec => []EndpointIsOffered
<1>1. Init => ClientInv /\ EndpointIsOffered BY InitClient
<1>2. ClientInv /\ EndpointIsOffered /\ [Next]_clientVars
        => ClientInv' /\ EndpointIsOffered'
  <2> SUFFICES ASSUME ClientInv, EndpointIsOffered, [Next]_clientVars
               PROVE  ClientInv' /\ EndpointIsOffered'
    OBVIOUS
  <2>1. ClientInv'
    BY DiscoverClient, ArriveClient, TickClient, IdleClient DEF Next
  <2>2. EndpointIsOffered'
    <3>1. CASE Discover BY <3>1, DiscoverOffered
    <3>2. CASE Arrive \/ Tick \/ UNCHANGED clientVars
      BY <3>2 DEF Arrive, Tick, clientVars, EndpointIsOffered
    <3> QED BY <3>1, <3>2 DEF Next
  <2> QED BY <2>1, <2>2
<1> QED BY <1>1, <1>2, PTL DEF Spec

-----------------------------------------------------------------------------
\* The server.

USE DEF Server!Alive, Server!At, Server!Goto

\* Every step of the network is a step of SdServer or leaves it alone.
LEMMA ServerStep == [NetNext]_netVars => [Server!Next]_(Server!serverVars)
<1> SUFFICES ASSUME [NetNext]_netVars
             PROVE  [Server!Next]_(Server!serverVars)
  OBVIOUS
<1>1. CASE ServerComputes
  BY <1>1 DEF ServerComputes, Server!Next, Server!Running, Server!Offering
<1>2. CASE OfferSent
  BY <1>2 DEF OfferSent, Server!Next, Server!Running, Server!Offering
<1>3. CASE OfferFails
  BY <1>3 DEF OfferFails, Server!Next, Server!Running, Server!Offering
<1>4. CASE WaitEnds
  BY <1>4 DEF WaitEnds, Server!Next, Server!Running
<1>5. CASE UNCHANGED serverState
  BY <1>5 DEF serverState, Server!serverVars, Server!attributes,
              Server!lifecycle, Server!packets, Server!history
<1> QED BY <1>1, <1>2, <1>3, <1>4, <1>5 DEF NetNext, NetTick, netVars

\* The server of the network is the one of SdServer: its steps are those of
\* start, stop, _run and offer_once (sd.py), whatever discover and time do.
THEOREM NetworkImplementsServer == NetSpec => Server!Spec
<1>1. NetInit => Server!Init BY DEF NetInit
<1>2. [NetNext]_netVars => [Server!Next]_(Server!serverVars) BY ServerStep
<1> QED BY <1>1, <1>2, PTL DEF NetSpec, Server!Spec

\* A server that runs has a live thread until stop is called.
ServerInv ==
  /\ DOMAIN serverPc = {Advertiser, Owner}
  /\ owner = "start" => ~stop
  /\ running => /\ thread = Advertiser
                /\ \/ owner = "idle" /\ ~stop /\ Server!Alive(Advertiser)
                   \/ owner = "stop" /\ stop

\* The statements that the advertiser thread runs.
AdvertiserMoves ==
  \/ Server!Loop(Advertiser) \/ Server!Wait(Advertiser)
  \/ Server!ReadFirst(Advertiser) \/ Server!ClearFirst(Advertiser)
  \/ Server!Build(Advertiser) \/ Server!Load(Advertiser)
  \/ Server!Store(Advertiser) \/ Server!Wrap(Advertiser)
  \/ Server!SendOk(Advertiser) \/ Server!SendFails(Advertiser)

\* They leave the owner's state alone, and end the thread only after stop.
LEMMA AdvertiserMovesKeep ==
  ASSUME ServerInv, AdvertiserMoves
  PROVE  /\ UNCHANGED <<stop, thread, owner, running>>
         /\ DOMAIN serverPc' = {Advertiser, Owner}
         /\ serverPc'[Advertiser] = "dead" => stop
<1> USE DEF ServerInv, Server!lifecycle
<1>1. CASE Server!Loop(Advertiser) BY <1>1 DEF Server!Loop
<1>2. CASE Server!Wait(Advertiser) BY <1>2 DEF Server!Wait
<1>3. CASE Server!ReadFirst(Advertiser) BY <1>3 DEF Server!ReadFirst
<1>4. CASE Server!ClearFirst(Advertiser) BY <1>4 DEF Server!ClearFirst
<1>5. CASE Server!Build(Advertiser) BY <1>5 DEF Server!Build
<1>6. CASE Server!Load(Advertiser) BY <1>6 DEF Server!Load
<1>7. CASE Server!Store(Advertiser) BY <1>7 DEF Server!Store
<1>8. CASE Server!Wrap(Advertiser) BY <1>8 DEF Server!Wrap
<1>9. CASE Server!SendOk(Advertiser)
  BY <1>9, NetworkAssumption
     DEF NetworkAssumption, Server!SendOk, Server!AfterOffer
<1>10. CASE Server!SendFails(Advertiser)
  BY <1>10, NetworkAssumption
     DEF NetworkAssumption, Server!SendFails, Server!AfterError,
         Server!AfterOffer
<1> QED BY <1>1, <1>2, <1>3, <1>4, <1>5, <1>6, <1>7, <1>8, <1>9, <1>10
        DEF AdvertiserMoves

LEMMA AdvertiserMovesServer ==
  ASSUME ServerInv, AdvertiserMoves PROVE ServerInv'
BY AdvertiserMovesKeep DEF ServerInv

LEMMA OwnerMovesServer ==
  ASSUME ServerInv,
         \/ Server!StartClear \/ Server!StartThread
         \/ Server!StopSet \/ Server!StopJoined
  PROVE  ServerInv' /\ (serverPc'[Advertiser] = "dead" => ~Server!Alive(Advertiser))
<1> USE DEF ServerInv
<1>1. CASE Server!StartClear
  BY <1>1, NetworkAssumption
     DEF NetworkAssumption, Server!StartClear, Server!OwnerIdle
<1>2. CASE Server!StartThread
  BY <1>2, NetworkAssumption DEF NetworkAssumption, Server!StartThread
<1>3. CASE Server!StopSet BY <1>3 DEF Server!StopSet, Server!OwnerIdle
<1>4. CASE Server!StopJoined BY <1>4 DEF Server!StopJoined
<1> QED BY <1>1, <1>2, <1>3, <1>4

LEMMA ComputesServer ==
  ASSUME ServerInv, ServerComputes
  PROVE  /\ ServerInv'
         /\ serverPc'[Advertiser] = "dead" =>
              stop' \/ ~Server!Alive(Advertiser)
<1>1. CASE AdvertiserMoves
  BY <1>1, AdvertiserMovesKeep, AdvertiserMovesServer
<1>2. CASE \/ Server!StartClear \/ Server!StartThread
           \/ Server!StopSet \/ Server!StopJoined
  BY <1>2, OwnerMovesServer
<1> QED BY <1>1, <1>2 DEF ServerComputes, AdvertiserMoves

LEMMA IdleServer == ServerInv /\ UNCHANGED serverState => ServerInv'
BY DEF ServerInv, serverState

LEMMA InitServer == NetInit => ServerInv
BY DEF NetInit, Server!Init, Server!Callers, ServerInv

-----------------------------------------------------------------------------
\* discover next to the server.

\* d is one of the server's own offers.
IsOwn(d) ==
  /\ d.kind = "sd"
  /\ d.message.entries = <<Entry(OFFER, SERVICE, TTL_DEFAULT, 0, 1)>>
  /\ d.message.options = <<Endpoint(UDP, PORT)>>

OwnOffer ==
  [kind |-> "sd",
   message |-> OfferService(SERVICE, PORT, built, flag[Advertiser])]

LEMMA OwnOfferIsOwn == IsOwn(OwnOffer)
BY DEF IsOwn, OwnOffer, OfferService, Message

LEMMA OwnIsCarried ==
  ASSUME NEW d, IsOwn(d)
  PROVE  Carries(d.message) /\ SERVICE \in Services /\ Found(d.message, SERVICE)
<1> DEFINE e == Entry(OFFER, SERVICE, TTL_DEFAULT, 0, 1)
<1>1. PICK m \in Multicast :
        m.entries = <<e>> /\ m.options = <<Endpoint(UDP, PORT)>>
  BY NetworkAssumption DEF NetworkAssumption, OfferService, Message
<1>2. Carries(d.message) BY <1>1 DEF IsOwn, Carries
<1>3. /\ e.type = OFFER /\ e.service = SERVICE
      /\ Endpoint(UDP, PORT).type = IP4_ENDPOINT
  BY DEF Entry, Endpoint
<1>4. /\ 1 \in 1..Len(d.message.entries) /\ d.message.entries[1] = e
      /\ 1 \in 1..Len(d.message.options)
      /\ d.message.options[1] = Endpoint(UDP, PORT)
  BY DEF IsOwn
<1> HIDE DEF e
<1>5. SERVICE \in Services BY <1>2, <1>3, <1>4, LayoutOf
<1>6. Match(e) BY <1>3, NetworkAssumption DEF NetworkAssumption, Match
<1>7. Endpoints(d.message) # {} BY <1>3, <1>4 DEF Endpoints
<1>8. Found(d.message, SERVICE) BY <1>3, <1>4, <1>6, <1>7 DEF Found
<1> QED BY <1>2, <1>5, <1>8

LEMMA ServiceOffered == SERVICE \in Services
BY OwnOfferIsOwn, OwnIsCarried

\* Sending leaves discover alone but for its inbox.
LEMMA OfferSentClient ==
  ASSUME ClientInv, OfferSent PROVE ClientInv'
<1>1. /\ UNCHANGED <<pc, left, wait, results, heard>>
      /\ \/ inbox' = inbox
         \/ Searching /\ inbox' = Append(inbox, OwnOffer)
  BY DEF OfferSent, OwnOffer
<1>2. InboxInv'
  <2>1. CASE inbox' = inbox BY <2>1 DEF ClientInv, InboxInv
  <2>2. CASE inbox' = Append(inbox, OwnOffer)
    BY <2>2, OwnOfferIsOwn, OwnIsCarried, Delivered DEF ClientInv
  <2> QED BY <1>1, <2>1, <2>2
<1>3. DeadlineInv'
  BY <1>1 DEF ClientInv, DeadlineInv, Searching
<1>4. HeardInv' BY <1>1 DEF ClientInv, HeardInv
<1> QED BY <1>2, <1>3, <1>4 DEF ClientInv

LEMMA NetClient == ClientInv /\ [NetNext]_netVars => ClientInv'
<1> SUFFICES ASSUME ClientInv, [NetNext]_netVars PROVE ClientInv' OBVIOUS
<1>1. CASE Discover BY <1>1, DiscoverClient
<1>2. CASE Arrive BY <1>2, ArriveClient
<1>3. CASE Tick BY <1>3, TickClient
<1>4. CASE OfferSent BY <1>4, OfferSentClient
<1>5. CASE UNCHANGED clientVars BY <1>5, IdleClient
<1> QED BY <1>1, <1>2, <1>3, <1>4, <1>5
        DEF NetNext, ServerComputes, OfferFails, WaitEnds, NetTick, netVars

\* Next to the server, discover still reports whatever it receives and lasts
\* until its deadline (sd.py): the offers that the server sends are received
\* like any other message of the group.
THEOREM NothingMissedOnNetwork == NetSpec => []NothingMissed
<1>1. NetInit => ClientInv BY InitClient DEF NetInit
<1>2. ClientInv /\ [NetNext]_netVars => ClientInv' BY NetClient
<1>3. ClientInv => NothingMissed BY ClientReports
<1> QED BY <1>1, <1>2, <1>3, PTL DEF NetSpec

LEMMA NetOffered ==
  ClientInv /\ EndpointIsOffered /\ [NetNext]_netVars => EndpointIsOffered'
<1> SUFFICES ASSUME ClientInv, EndpointIsOffered, [NetNext]_netVars
             PROVE  EndpointIsOffered'
  OBVIOUS
<1>1. CASE Discover BY <1>1, DiscoverOffered
<1>2. CASE UNCHANGED results BY <1>2 DEF EndpointIsOffered
<1> QED BY <1>1, <1>2
        DEF NetNext, Arrive, ServerComputes, OfferSent, OfferFails, WaitEnds,
            NetTick, Tick, netVars, clientVars

\* The same of the endpoints that discover reports (sd.py) when the server is
\* one of those that offer.
THEOREM EndpointsAreOfferedOnNetwork == NetSpec => []EndpointIsOffered
<1>1. NetInit => ClientInv /\ EndpointIsOffered BY InitClient DEF NetInit
<1>2. ClientInv /\ EndpointIsOffered /\ [NetNext]_netVars
        => (ClientInv /\ EndpointIsOffered)'
  BY NetClient, NetOffered
<1> QED BY <1>1, <1>2, PTL DEF NetSpec

-----------------------------------------------------------------------------
\* Time and failures.

USE DEF Searching

TimingInv ==
  /\ sleep \in 0..PERIOD /\ late \in 0..JITTER /\ failed \in Nat
  /\ ~Server!Alive(Advertiser) => late = 0
  /\ pc = "open" => failed = 0

\* An own offer waits to be received.
OfferWaits == \E k \in 1..Len(inbox) : IsOwn(inbox[k])

\* The time the search has taken, and the time until the server sends.
Elapsed == TIMEOUT - left
Slack == sleep + JITTER - late

\* By when an offer has been sent although that many sends have failed.
Due(n) == (n + 1) * (PERIOD + JITTER)

\* A search that nothing excuses and that has found nothing has not yet lasted
\* as long as the server may take.
OnTime ==
  Searching /\ ~excused /\ results[SERVICE] = NoEndpoint =>
    /\ Elapsed <= Due(failed)
    /\ ~OfferWaits => Elapsed + Slack <= Due(failed)

NetInv ==
  ClientInv /\ ServerInv /\ TimingInv /\ OnTime /\ RunningServerFound

LEMMA DueBounds ==
  /\ PERIOD \in Nat /\ JITTER \in Nat /\ TIMEOUT \in Nat
  /\ Due(0) = PERIOD + JITTER
  /\ \A n \in Nat :
       /\ Due(n) \in Nat /\ Due(n + 1) = Due(n) + PERIOD + JITTER
       /\ PERIOD + JITTER <= Due(n)
<1>1. PERIOD \in Nat /\ JITTER \in Nat /\ TIMEOUT \in Nat
  BY NetworkAssumption, ClientAssumption
     DEF NetworkAssumption, ClientAssumption
<1> DEFINE d == PERIOD + JITTER
<1>2. d \in Nat BY <1>1
<1>3. \A n \in Nat : Due(n) = (n + 1) * d BY DEF Due
<1>4. 0 + 1 = 1 /\ 1 * d = d BY <1>2
<1> HIDE DEF d
<1>5. \A n, m \in Nat : n * m \in Nat /\ (n + 1) * m = n * m + m OBVIOUS
<1>6. \A n \in Nat : /\ Due(n) \in Nat /\ Due(n + 1) = Due(n) + d
                     /\ Due(n) = n * d + d /\ n * d \in Nat
  BY <1>2, <1>3, <1>5
<1>7. \A n \in Nat : d <= Due(n) BY <1>2, <1>6
<1>8. Due(0) = d BY <1>3, <1>4
<1>9. d = PERIOD + JITTER BY DEF d
<1>10. \A n \in Nat : Due(n + 1) = Due(n) + PERIOD + JITTER
  <2> SUFFICES ASSUME NEW n \in Nat
               PROVE  Due(n + 1) = Due(n) + PERIOD + JITTER
    OBVIOUS
  <2>1. Due(n) \in Nat /\ Due(n + 1) = Due(n) + d BY <1>6
  <2> QED BY <1>1, <1>9, <2>1
<1> QED BY <1>1, <1>6, <1>7, <1>8, <1>9, <1>10

\* At the deadline the search would have lasted too long.
LEMMA NotAtDeadline ==
  ASSUME ClientInv, TimingInv, OnTime, Searching, left = 0, ~excused,
         LongEnough
  PROVE  results[SERVICE] # NoEndpoint
<1> SUFFICES ASSUME results[SERVICE] = NoEndpoint PROVE FALSE OBVIOUS
<1>1. Elapsed <= Due(failed) BY DEF OnTime
<1>2. Due(failed) \in Nat /\ Due(failed) < TIMEOUT /\ TIMEOUT \in Nat
  BY DueBounds DEF TimingInv, LongEnough, Due
<1>3. Elapsed = TIMEOUT BY <1>2 DEF Elapsed
<1> QED BY <1>1, <1>2, <1>3

\* Receiving what is not an own offer leaves the own offers waiting, and an own
\* offer is found.
LEMMA ReceivedOwn ==
  ASSUME InboxInv, inbox # <<>>, inbox' = Tail(inbox), OfferWaits
  PROVE  IsOwn(Head(inbox)) \/ OfferWaits'
<1>1. /\ Head(inbox) = inbox[1]
      /\ Len(inbox) \in Nat \ {0} /\ Len(inbox') = Len(inbox) - 1
      /\ \A k \in 1..Len(inbox') : inbox'[k] = inbox[k + 1]
  BY TailOf DEF InboxInv
<1>2. PICK k \in 1..Len(inbox) : IsOwn(inbox[k]) BY DEF OfferWaits
<1>3. CASE k = 1 BY <1>1, <1>2, <1>3
<1>4. CASE k # 1
  <2>1. k - 1 \in 1..Len(inbox') /\ (k - 1) + 1 = k BY <1>1, <1>4
  <2>2. inbox'[k - 1] = inbox[k] BY <1>1, <2>1
  <2> QED BY <1>2, <2>1, <2>2 DEF OfferWaits, IsOwn
<1> QED BY <1>3, <1>4

LEMMA DeliveredOwn ==
  ASSUME InboxInv, NEW d, inbox' = Append(inbox, d)
  PROVE  (OfferWaits \/ IsOwn(d)) => OfferWaits'
<1>1. /\ Len(inbox') = Len(inbox) + 1 /\ Len(inbox) \in Nat
      /\ inbox'[Len(inbox) + 1] = d
      /\ \A k \in 1..Len(inbox) : inbox'[k] = inbox[k]
  BY AppendTo, LenOf DEF InboxInv
<1>2. /\ Len(inbox) + 1 \in 1..Len(inbox')
      /\ \A k \in 1..Len(inbox) : k \in 1..Len(inbox')
  BY <1>1
<1> QED BY <1>1, <1>2 DEF OfferWaits, IsOwn

\* The bound holds on while neither time nor the count of failures moves, the
\* slack does not grow and no waiting offer is lost.
LEMMA OnTimeKept ==
  ASSUME ClientInv, TimingInv, TimingInv', OnTime,
         UNCHANGED <<left, failed>>, Searching' => Searching,
         excused => excused',
         results'[SERVICE] = NoEndpoint => results[SERVICE] = NoEndpoint,
         results'[SERVICE] = NoEndpoint /\ OfferWaits => OfferWaits',
         Searching' /\ ~excused' => Slack' <= Slack
  PROVE  OnTime'
<1> SUFFICES ASSUME Searching', ~excused', results'[SERVICE] = NoEndpoint
             PROVE  /\ Elapsed' <= Due(failed')
                    /\ ~OfferWaits' => Elapsed' + Slack' <= Due(failed')
  BY DEF OnTime
<1>1. /\ Elapsed <= Due(failed)
      /\ ~OfferWaits' => Elapsed + Slack <= Due(failed)
  BY DEF OnTime
<1>2. Elapsed' = Elapsed /\ failed' = failed BY DEF Elapsed
<1>3. Slack' <= Slack OBVIOUS
<1>4. /\ TIMEOUT \in Nat /\ PERIOD \in Nat /\ JITTER \in Nat /\ left \in Nat
      /\ failed \in Nat /\ Due(failed) \in Nat
  BY DueBounds DEF TimingInv, ClientInv, DeadlineInv
<1>5. Elapsed \in Int BY <1>4 DEF Elapsed
<1>6. Slack \in Int BY <1>4 DEF Slack, TimingInv
<1>7. Slack' \in Int BY <1>4 DEF Slack, TimingInv
<1>8. \A e, s, t, n \in Int : s <= t /\ e + t <= n => e + s <= n OBVIOUS
<1>9. Elapsed' + Slack' = Elapsed + Slack' BY <1>2
<1>10. Elapsed + Slack <= Due(failed) => Elapsed + Slack' <= Due(failed)
  BY <1>3, <1>4, <1>5, <1>6, <1>7, <1>8
<1> QED BY <1>1, <1>2, <1>9, <1>10

LEMMA FoundStays ==
  ASSUME InboxInv, ReceiveSd
  PROVE  /\ results'[SERVICE] = NoEndpoint => results[SERVICE] = NoEndpoint
         /\ IsOwn(Head(inbox)) => results'[SERVICE] # NoEndpoint
<1>1. results'[SERVICE] = NoEndpoint => results[SERVICE] = NoEndpoint
  BY ReceiveSdKeeps, ServiceOffered
<1>2. ASSUME IsOwn(Head(inbox)) PROVE results'[SERVICE] # NoEndpoint
  BY <1>2, OwnIsCarried, CollectOf DEF ReceiveSd
<1> QED BY <1>1, <1>2

\* What a step of the network must establish.
NetStep == TimingInv' /\ OnTime' /\ RunningServerFound'

LEMMA DiscoverNet ==
  ASSUME NetInv, ClientInv', Discover,
         UNCHANGED <<serverState, timing, netHistory>>
  PROVE  NetStep
<1> USE DEF NetInv
<1>1. UNCHANGED <<serverPc, sleep, late, failed, excused>>
  BY DEF serverState, timing, netHistory
<1>2. pc' # "open"
  BY DEF Discover, Open, Loop, ReceiveSd, ReceiveInvalid, AfterInvalid,
         ReceiveHeader, TimesOut
<1>3. TimingInv' BY <1>1, <1>2 DEF TimingInv
<1>4. Slack' = Slack BY <1>1 DEF Slack
<1>5. Slack' <= Slack
  <2>1. sleep \in Int /\ JITTER \in Int /\ late \in Int
    BY DueBounds DEF TimingInv
  <2> QED BY <1>4, <2>1 DEF Slack
<1>6. CASE Open
  <2>1. CASE pc' = "raised" BY <1>3, <2>1 DEF OnTime, RunningServerFound, NetStep
  <2>2. CASE pc' = "loop"
    <3>1. left = TIMEOUT /\ failed = 0 /\ UNCHANGED <<left, failed, sleep, late>>
      BY <1>1, <1>6 DEF Open, ClientInv, DeadlineInv, TimingInv
    <3>2. /\ TIMEOUT \in Nat /\ PERIOD \in Nat /\ JITTER \in Nat
          /\ Due(0) = PERIOD + JITTER
      BY DueBounds
    <3>3. sleep \in 0..PERIOD /\ late \in 0..JITTER BY DEF TimingInv
    <3>4. Elapsed' = 0 /\ Elapsed' <= Due(0) BY <3>1, <3>2 DEF Elapsed
    <3>5. Elapsed' + Slack' <= Due(0)
      BY <1>4, <3>2, <3>3, <3>4 DEF Slack
    <3>6. OnTime' BY <3>1, <3>4, <3>5 DEF OnTime
    <3> QED BY <1>3, <2>2, <3>6 DEF RunningServerFound, NetStep
  <2> QED BY <1>6, <2>1, <2>2 DEF Open
<1>7. CASE Loop
  <2>1. UNCHANGED <<inbox, left, results>> /\ Searching BY <1>7 DEF Loop
  <2>2. OfferWaits' = OfferWaits BY <2>1 DEF OfferWaits, IsOwn
  <2>3. OnTime' BY <1>1, <1>3, <1>5, <2>1, <2>2, OnTimeKept
  <2>4. RunningServerFound'
    <3>1. CASE left = 0
      BY <1>1, <2>1, <3>1, NotAtDeadline DEF RunningServerFound, LongEnough
    <3>2. CASE left # 0 BY <1>7, <3>2 DEF Loop, RunningServerFound
    <3> QED BY <3>1, <3>2
  <2> QED BY <1>3, <2>3, <2>4 DEF NetStep
<1>8. CASE ReceiveSd
  <2>1. /\ UNCHANGED left /\ Searching /\ pc' = "loop"
        /\ inbox # <<>> /\ inbox' = Tail(inbox)
    BY <1>8 DEF ReceiveSd
  <2>2. results'[SERVICE] = NoEndpoint => results[SERVICE] = NoEndpoint
    BY <1>8, FoundStays DEF ClientInv
  <2>3. results'[SERVICE] = NoEndpoint /\ OfferWaits => OfferWaits'
    BY <1>8, <2>1, FoundStays, ReceivedOwn DEF ClientInv
  <2>4. OnTime' BY <1>1, <1>3, <1>5, <2>1, <2>2, <2>3, OnTimeKept
  <2> QED BY <1>3, <2>1, <2>4 DEF RunningServerFound, NetStep
<1>9. CASE ReceiveInvalid
  <2>1. /\ UNCHANGED <<left, results>> /\ Searching /\ pc' = "loop"
        /\ inbox # <<>> /\ inbox' = Tail(inbox)
        /\ Head(inbox).kind = "invalid"
    BY <1>9 DEF ReceiveInvalid, AfterInvalid
  <2>2. OfferWaits => OfferWaits'
    BY <2>1, ReceivedOwn DEF ClientInv, IsOwn
  <2>3. OnTime' BY <1>1, <1>3, <1>5, <2>1, <2>2, OnTimeKept
  <2> QED BY <1>3, <2>1, <2>3 DEF RunningServerFound, NetStep
<1>10. CASE ReceiveHeader
  BY <1>3, <1>10 DEF ReceiveHeader, OnTime, RunningServerFound, NetStep
<1>11. CASE TimesOut
  <2>1. /\ Searching /\ UNCHANGED results /\ pc' = "returned" /\ left = 0
    BY <1>11 DEF TimesOut, ClientInv, DeadlineInv
  <2>2. RunningServerFound'
    BY <1>1, <2>1, NotAtDeadline DEF RunningServerFound, LongEnough
  <2> QED BY <1>3, <2>1, <2>2 DEF OnTime, NetStep
<1> QED BY <1>6, <1>7, <1>8, <1>9, <1>10, <1>11 DEF Discover

LEMMA SlackInt ==
  ASSUME TimingInv
  PROVE  Slack \in Int /\ Slack <= Slack /\ 0 <= Slack
BY DueBounds DEF TimingInv, Slack

LEMMA ArriveNet ==
  ASSUME NetInv, Arrive, UNCHANGED <<serverState, timing, netHistory>>
  PROVE  NetStep
<1> USE DEF NetInv
<1>1. UNCHANGED <<pc, left, results, serverPc, sleep, late, failed, excused>>
  BY DEF Arrive, serverState, timing, netHistory
<1>2. TimingInv' BY <1>1 DEF TimingInv
<1>3. Slack' <= Slack BY <1>1, SlackInt DEF Slack
<1>4. OfferWaits => OfferWaits' BY DeliveredOwn DEF Arrive, ClientInv
<1>5. OnTime' BY <1>1, <1>2, <1>3, <1>4, OnTimeKept
<1> QED BY <1>1, <1>2, <1>5 DEF RunningServerFound, LongEnough, NetStep

\* A thread that ends without stop during the search had ended before.
LEMMA ServerComputesNet ==
  ASSUME NetInv, ServerComputes PROVE NetStep
<1> USE DEF NetInv
<1>1. /\ UNCHANGED <<pc, inbox, left, results, sleep, failed>>
      /\ late' = IF serverPc'[Advertiser] = "dead" THEN 0 ELSE late
      /\ excused' = (excused \/ (Searching /\ stop'))
  BY DEF ServerComputes, clientVars
<1>2. serverPc'[Advertiser] = "dead" => stop' \/ late = 0
  BY ComputesServer DEF TimingInv
<1>3. late' = late \/ (late' = 0 /\ stop')
  BY <1>1, <1>2
<1>4. TimingInv'
  <2>1. late' \in 0..JITTER BY <1>1, DueBounds DEF TimingInv
  <2>2. serverPc'[Advertiser] = "dead" => late' = 0 BY <1>1
  <2> QED BY <1>1, <2>1, <2>2 DEF TimingInv
<1>5. Searching' /\ ~excused' => late' = late BY <1>1, <1>3
<1>6. Searching' /\ ~excused' => Slack' <= Slack
  BY <1>1, <1>5, SlackInt DEF Slack
<1>7. OfferWaits' = OfferWaits BY <1>1 DEF OfferWaits, IsOwn
<1>8. OnTime' BY <1>1, <1>4, <1>6, <1>7, OnTimeKept
<1> QED BY <1>1, <1>4, <1>8 DEF RunningServerFound, LongEnough, NetStep

\* The offer is in the inbox, or the search is excused.
LEMMA OfferSentNet ==
  ASSUME NetInv, OfferSent PROVE NetStep
<1> USE DEF NetInv
<1>1. /\ UNCHANGED <<pc, left, results, failed>>
      /\ sleep' = PERIOD /\ late' = 0
      /\ excused => excused'
  BY DEF OfferSent, RoundEnds
<1>2. TimingInv' BY <1>1, DueBounds DEF TimingInv
<1>3. ASSUME Searching, ~excused' PROVE OfferWaits'
  <2>1. inbox' = Append(inbox, OwnOffer)
    BY <1>3 DEF OfferSent, OwnOffer
  <2> QED BY <2>1, DeliveredOwn, OwnOfferIsOwn DEF ClientInv
<1>4. Elapsed' = Elapsed BY <1>1 DEF Elapsed
<1>5. OnTime' BY <1>1, <1>3, <1>4 DEF OnTime
<1> QED BY <1>1, <1>2, <1>5 DEF RunningServerFound, LongEnough, NetStep

\* A failed send costs a round, which Due allows for.
LEMMA OfferFailsNet ==
  ASSUME NetInv, OfferFails PROVE NetStep
<1> USE DEF NetInv
<1>1. /\ UNCHANGED <<pc, inbox, left, results>>
      /\ sleep' = PERIOD /\ late' = 0
  BY DEF OfferFails, RoundEnds, clientVars
<1>2. OfferWaits' = OfferWaits BY <1>1 DEF OfferWaits, IsOwn
<1>3. /\ failed' = IF Searching /\ ~excused THEN failed + 1 ELSE failed
      /\ excused' = excused
  BY DEF OfferFails
<1>4. excused => excused' BY <1>3
<1>5. /\ PERIOD \in Nat /\ JITTER \in Nat /\ TIMEOUT \in Nat
      /\ failed \in Nat /\ left \in Nat
      /\ Due(failed) \in Nat
      /\ Due(failed + 1) = Due(failed) + PERIOD + JITTER
  BY DueBounds DEF TimingInv, ClientInv, DeadlineInv
<1>6. TimingInv'
  <2>1. failed' \in Nat BY <1>3, <1>5
  <2>2. pc' = "open" => failed' = 0 BY <1>1, <1>3 DEF TimingInv
  <2> QED BY <1>1, <1>5, <2>1, <2>2 DEF TimingInv
<1>7. OnTime'
  <2> SUFFICES ASSUME Searching, ~excused', results[SERVICE] = NoEndpoint
               PROVE  /\ Elapsed' <= Due(failed')
                      /\ Elapsed' + Slack' <= Due(failed')
    BY <1>1 DEF OnTime
  <2>1. failed' = failed + 1 /\ ~excused BY <1>3
  <2>2. Elapsed <= Due(failed) BY <2>1 DEF OnTime
  <2>3. /\ Elapsed' = Elapsed /\ Elapsed \in Int
        /\ Slack' = PERIOD + JITTER
    BY <1>1, <1>5 DEF Elapsed, Slack
  <2>4. Due(failed') = Due(failed) + PERIOD + JITTER BY <1>5, <2>1
  <2> QED BY <1>5, <2>2, <2>3, <2>4
<1>8. RunningServerFound'
  <2>1. CASE pc = "returned"
    <3>1. failed' = failed BY <1>3, <2>1
    <3> QED BY <1>1, <1>4, <3>1 DEF RunningServerFound, LongEnough
  <2>2. CASE pc # "returned" BY <1>1, <2>2 DEF RunningServerFound
  <2> QED BY <2>1, <2>2
<1> QED BY <1>6, <1>7, <1>8 DEF NetStep

LEMMA WaitEndsNet ==
  ASSUME NetInv, WaitEnds PROVE NetStep
<1> USE DEF NetInv
<1>1. /\ UNCHANGED <<pc, inbox, left, results, sleep, late, failed, excused>>
  BY DEF WaitEnds, clientVars, timing, netHistory
<1>2. serverPc[Advertiser] # "dead"
  BY DEF WaitEnds, Server!Wait
<1>3. serverPc'[Advertiser] = "loop"
  BY DEF WaitEnds, Server!Wait, ServerInv
<1>4. TimingInv' BY <1>1, <1>3 DEF TimingInv
<1>5. Slack' <= Slack BY <1>1, SlackInt DEF Slack
<1>6. OfferWaits' = OfferWaits BY <1>1 DEF OfferWaits, IsOwn
<1>7. OnTime' BY <1>1, <1>4, <1>5, <1>6, OnTimeKept
<1> QED BY <1>1, <1>4, <1>7 DEF RunningServerFound, LongEnough, NetStep

\* A tick brings a running server nearer to its next offer: either its wait
\* goes on, or its thread is late by one more.
LEMMA NetTickNet ==
  ASSUME NetInv, NetTick PROVE NetStep
<1> USE DEF NetInv
<1>1. /\ Ready => late < JITTER
      /\ late' = IF Ready THEN late + 1 ELSE late
      /\ sleep' = Down(sleep)
      /\ UNCHANGED <<serverPc, failed, pc, inbox, results>>
      /\ excused => excused'
  <2>1. /\ Ready => late < JITTER
        /\ late' = IF Ready THEN late + 1 ELSE late
        /\ sleep' = Down(sleep)
    BY DEF NetTick
  <2>2. UNCHANGED <<serverPc, failed>> BY DEF NetTick, serverState
  <2>3. UNCHANGED <<pc, inbox, results>> BY DEF NetTick, Tick, clientVars
  <2>4. excused => excused' BY DEF NetTick
  <2> QED BY <2>1, <2>2, <2>3, <2>4
<1>2. /\ PERIOD \in Nat /\ JITTER \in Nat /\ TIMEOUT \in Nat
      /\ sleep \in 0..PERIOD /\ late \in 0..JITTER /\ left \in Nat
      /\ failed \in Nat /\ Due(failed) \in Nat
  BY DueBounds DEF TimingInv, ClientInv, DeadlineInv
<1>3. sleep' \in 0..PERIOD /\ (IF sleep = 0 THEN sleep' = 0 ELSE sleep' = sleep - 1)
  BY <1>1, <1>2 DEF Down
<1>4. late' \in 0..JITTER
  <2>1. CASE Ready BY <1>1, <1>2, <2>1
  <2>2. CASE ~Ready BY <1>1, <1>2, <2>2
  <2> QED BY <2>1, <2>2
<1>5. TimingInv'
  <2>1. ~Server!Alive(Advertiser) => late' = 0
    BY <1>1 DEF Ready, TimingInv
  <2> QED BY <1>1, <1>3, <1>4, <2>1 DEF TimingInv
<1>6. OnTime'
  <2> SUFFICES ASSUME Searching, ~excused', results[SERVICE] = NoEndpoint
               PROVE  Elapsed' <= Due(failed) /\ Elapsed' + Slack' <= Due(failed)
    BY <1>1 DEF OnTime
  <2>1. Tick /\ ~excused /\ ~Excuse BY DEF NetTick
  <2>2. inbox = <<>> /\ running /\ ~stop BY <2>1 DEF Excuse
  <2>3. Server!Alive(Advertiser) BY <2>2 DEF ServerInv
  <2>4. ~OfferWaits BY <2>2, EmptySequence DEF OfferWaits
  <2>5. Elapsed + Slack <= Due(failed) BY <2>1, <2>4 DEF OnTime
  <2>6. \/ late' = late + 1
        \/ late' = late /\ sleep' = sleep - 1
    <3>1. CASE Ready BY <1>1, <3>1
    <3>2. CASE ~Ready
      <4>1. sleep # 0 BY <2>3, <3>2 DEF Ready
      <4> QED BY <1>1, <1>3, <3>2, <4>1
    <3> QED BY <3>1, <3>2
  <2>7. sleep' <= sleep /\ sleep' \in Int /\ sleep \in Int BY <1>2, <1>3
  <2>8. sleep' - late' <= sleep - late - 1
    <3>1. late \in Int /\ late' \in Int BY <1>2, <1>4
    <3>2. \A s, t, l \in Int : s <= t => s - (l + 1) <= t - l - 1 OBVIOUS
    <3>3. \A t, l \in Int : (t - 1) - l <= t - l - 1 OBVIOUS
    <3>4. CASE late' = late + 1 BY <2>7, <3>1, <3>2, <3>4
    <3>5. CASE late' = late /\ sleep' = sleep - 1 BY <2>7, <3>1, <3>3, <3>5
    <3> QED BY <2>6, <3>4, <3>5
  <2>9. left' \in Nat /\ left - 1 <= left' BY <1>2, <2>1 DEF Tick, Down
  <2>10. TIMEOUT - left' + (sleep' + JITTER - late') <= Due(failed)
    <3>1. TIMEOUT - left + (sleep + JITTER - late) <= Due(failed)
      BY <2>5 DEF Elapsed, Slack
    <3>2. late \in Int /\ late' \in Int BY <1>2, <1>4
    <3>3. /\ left \in Int /\ left' \in Int /\ TIMEOUT \in Int
          /\ JITTER \in Int /\ Due(failed) \in Int
      BY <1>2, <2>9
    <3>4. \A t, l, m \in Int : l - 1 <= m => t - m <= t - l + 1 OBVIOUS
    <3>5. TIMEOUT - left' <= TIMEOUT - left + 1 BY <2>9, <3>3, <3>4
    <3>6. sleep' + JITTER - late' <= (sleep + JITTER - late) - 1
      <4>1. \A r, b, s, a, j \in Int :
              r - b <= s - a - 1 => r + j - b <= (s + j - a) - 1
        OBVIOUS
      <4> QED BY <2>7, <2>8, <3>2, <3>3, <4>1
    <3>7. \A e, f, x, y, d \in Int :
            e <= f + 1 /\ x <= y - 1 /\ f + y <= d => e + x <= d
      OBVIOUS
    <3>8. /\ TIMEOUT - left' \in Int /\ TIMEOUT - left \in Int
          /\ sleep' + JITTER - late' \in Int /\ sleep + JITTER - late \in Int
      BY <2>7, <3>2, <3>3
    <3> QED BY <3>1, <3>3, <3>5, <3>6, <3>7, <3>8, Zenon
  <2>11. 0 <= sleep' + JITTER - late'
    <3>1. sleep' \in Nat /\ late' \in 0..JITTER BY <1>2, <1>3, <1>4
    <3>2. \A j \in Nat : \A r \in Nat, b \in 0..j : 0 <= r + j - b OBVIOUS
    <3> QED BY <1>2, <3>1, <3>2, Zenon
  <2>12. TIMEOUT - left' <= Due(failed)
    BY <1>2, <1>3, <1>4, <2>9, <2>10, <2>11
  <2> QED BY <2>10, <2>12 DEF Elapsed, Slack
<1>7. RunningServerFound' BY <1>1 DEF RunningServerFound, LongEnough
<1> QED BY <1>5, <1>6, <1>7 DEF NetStep

LEMMA InitNet == NetInit => NetInv
<1> SUFFICES ASSUME NetInit PROVE NetInv OBVIOUS
<1>1. ClientInv BY InitClient DEF NetInit
<1>2. ServerInv BY InitServer
<1>3. TimingInv BY DueBounds DEF NetInit, TimingInv
<1>4. OnTime /\ RunningServerFound
  BY DEF NetInit, Init, OnTime, RunningServerFound
<1> QED BY <1>1, <1>2, <1>3, <1>4 DEF NetInv

LEMMA NetServer == ServerInv /\ [NetNext]_netVars => ServerInv'
<1> SUFFICES ASSUME ServerInv, [NetNext]_netVars PROVE ServerInv' OBVIOUS
<1>1. CASE ServerComputes BY <1>1, ComputesServer
<1>2. CASE OfferSent \/ OfferFails \/ WaitEnds
  BY <1>2, AdvertiserMovesServer
     DEF OfferSent, OfferFails, WaitEnds, AdvertiserMoves
<1>3. CASE UNCHANGED serverState BY <1>3, IdleServer
<1> QED BY <1>1, <1>2, <1>3 DEF NetNext, NetTick, netVars

LEMMA StepNet == NetInv /\ [NetNext]_netVars => NetInv'
<1> SUFFICES ASSUME NetInv, [NetNext]_netVars PROVE NetInv' OBVIOUS
<1>1. ClientInv' /\ ServerInv' BY NetClient, NetServer DEF NetInv
<1>2. NetStep
  <2>1. CASE Discover /\ UNCHANGED <<serverState, timing, netHistory>>
    BY <1>1, <2>1, DiscoverNet
  <2>2. CASE Arrive /\ UNCHANGED <<serverState, timing, netHistory>>
    BY <2>2, ArriveNet
  <2>3. CASE ServerComputes BY <2>3, ServerComputesNet
  <2>4. CASE OfferSent BY <2>4, OfferSentNet
  <2>5. CASE OfferFails BY <2>5, OfferFailsNet
  <2>6. CASE WaitEnds BY <2>6, WaitEndsNet
  <2>7. CASE NetTick BY <2>7, NetTickNet
  <2>8. CASE UNCHANGED netVars
    BY <2>8 DEF netVars, clientVars, serverState, timing, netHistory, NetInv,
                TimingInv, OnTime, OfferWaits, IsOwn, Elapsed, Slack,
                RunningServerFound, LongEnough, NetStep
  <2> QED BY <2>1, <2>2, <2>3, <2>4, <2>5, <2>6, <2>7, <2>8 DEF NetNext
<1> QED BY <1>1, <1>2 DEF NetInv, NetStep

\* The server never answers a FindService (sd.py has no receiving server), yet
\* whatever the timeout, the period and the lateness of the advertiser thread:
\* a search that outlasts a round of the server for each send that has failed in
\* it and one more finds a server that runs all the time.  Nothing is said of a
\* shorter one, such as discover's default of one period.
THEOREM RunningServersAreFound == NetSpec => []RunningServerFound
<1>1. NetInit => NetInv BY InitNet
<1>2. NetInv /\ [NetNext]_netVars => NetInv' BY StepNet
<1>3. NetInv => RunningServerFound BY DEF NetInv
<1> QED BY <1>1, <1>2, <1>3, PTL DEF NetSpec

=============================================================================
