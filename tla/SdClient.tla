------------------------------ MODULE SdClient ------------------------------
(***************************************************************************)
(* SdClient.discover of mpu/someip/sd.py: one FindService, then every SD   *)
(* message that arrives before the deadline is searched for offers.        *)
(***************************************************************************)
EXTENDS SdMessages

CONSTANTS
  Multicast,  \* SD messages on the multicast group
  Wanted,     \* the services searched for (all of them without arguments)
  TIMEOUT,    \* timeout_s, in ticks
  INBOX       \* bound on the datagrams that wait in the socket

ASSUME ClientAssumption == TIMEOUT \in Nat \ {0} /\ INBOX \in Nat \ {0}

\* What is multicast is laid out like the messages of SdMessages.
ASSUME MulticastAssumption == \A m \in Multicast : WellFormed(m)

VARIABLES
  pc,       \* "open", "loop", "receive", "returned" or "raised"
  inbox,    \* datagrams that wait: SD messages, "invalid" or "header"
  left,     \* ticks before the deadline
  wait,     \* ticks before recvfrom times out
  results,  \* the endpoint found per service
  heard     \* history: services an own endpoint was offered for

clientVars == <<pc, inbox, left, wait, results, heard>>

NoEndpoint == [type |-> 0, l4 |-> 0, port |-> 0]

Services ==
  UNION {{m.entries[k].service : k \in 1..Len(m.entries)} : m \in Multicast}

Init ==
  /\ pc = "open" /\ inbox = <<>>
  /\ left = TIMEOUT /\ wait = 0
  /\ results = [s \in Services |-> NoEndpoint]
  /\ heard = {}

\* bind, the join of the group and sendto of the FindService; each may raise
\* OSError, and the socket is closed.
Open ==
  /\ pc = "open" /\ pc' \in {"loop", "raised"}
  /\ UNCHANGED <<inbox, left, wait, results, heard>>

\* The socket receives what is multicast, a datagram parse_sd refuses with
\* ValueError, or the bare SD header on which it raises IndexError.
Arrive ==
  /\ pc \in {"loop", "receive"} /\ Len(inbox) < INBOX
  /\ \E d \in {[kind |-> "sd", message |-> m] : m \in Multicast}
              \cup {[kind |-> "invalid"], [kind |-> "header"]} :
       inbox' = Append(inbox, d)
  /\ UNCHANGED <<pc, left, wait, results, heard>>

\* A fault: each recvfrom is given the whole timeout.
WholeTimeout ==
  /\ pc = "loop" /\ pc' = "receive" /\ wait' = TIMEOUT
  /\ UNCHANGED <<inbox, left, results, heard>>

\* remaining <= 0 ends the loop; otherwise recvfrom waits that long.
Loop ==
  /\ pc = "loop"
  /\ IF left = 0
     THEN pc' = "returned" /\ UNCHANGED wait
     ELSE pc' = "receive" /\ wait' = left
  /\ UNCHANGED <<inbox, left, results, heard>>

\* Positions of the options of m that are IPv4 endpoints.
Endpoints(m) ==
  {k \in 1..Len(m.options) : m.options[k].type = IP4_ENDPOINT}

\* A fault: the first option is taken, whatever it is.
FirstOption(m) == 1

\* The first endpoint of the packet, whosever it is.
FirstEndpoint(m) ==
  CHOOSE k \in Endpoints(m) : \A j \in Endpoints(m) : k <= j

\* A fault: the entry's type is not looked at.
AnyType(e) == e.service \in Wanted

\* The entry is an offer of a service searched for; its TTL does not matter.
Match(e) == e.type = OFFER /\ e.service \in Wanted

\* The results after the entries of m, in order: the last one of a service
\* replaces those before it.
Collect(m) ==
  [s \in Services |->
     IF Endpoints(m) # {} /\ \E k \in 1..Len(m.entries) :
          Match(m.entries[k]) /\ m.entries[k].service = s
     THEN m.options[FirstEndpoint(m)] ELSE results[s]]

\* The options of the entry, by its option run.
OwnOptions(m, e) ==
  {m.options[k] : k \in {j \in 1..Len(m.options) :
                           e.index1 < j /\ j <= e.index1 + e.opts}}

\* The services that m offers at an endpoint of their own.
Offers(m) ==
  {m.entries[k].service : k \in {j \in 1..Len(m.entries) :
     /\ Match(m.entries[j])
     /\ \E o \in OwnOptions(m, m.entries[j]) : o.type = IP4_ENDPOINT}}

\* recvfrom returns an SD message ...
ReceiveSd ==
  /\ pc = "receive" /\ inbox # <<>> /\ Head(inbox).kind = "sd"
  /\ inbox' = Tail(inbox) /\ pc' = "loop"
  /\ results' = Collect(Head(inbox).message)
  /\ heard' = heard \cup Offers(Head(inbox).message)
  /\ UNCHANGED <<left, wait>>

\* A fault: an invalid packet ends the search.
InvalidEndsSearch == "returned"

\* Where a ValueError leads: continue.
AfterInvalid == "loop"

\* ... a packet that is skipped ...
ReceiveInvalid ==
  /\ pc = "receive" /\ inbox # <<>> /\ Head(inbox).kind = "invalid"
  /\ inbox' = Tail(inbox) /\ pc' = AfterInvalid
  /\ UNCHANGED <<left, wait, results, heard>>

\* ... a 16-byte header, on which discover raises and loses its results ...
ReceiveHeader ==
  /\ pc = "receive" /\ inbox # <<>> /\ Head(inbox).kind = "header"
  /\ inbox' = Tail(inbox) /\ pc' = "raised"
  /\ UNCHANGED <<left, wait, results, heard>>

\* ... or times out.
TimesOut ==
  /\ pc = "receive" /\ inbox = <<>> /\ wait = 0
  /\ pc' = "returned"
  /\ UNCHANGED <<inbox, left, wait, results, heard>>

Down(n) == IF n = 0 THEN 0 ELSE n - 1

Tick ==
  /\ pc \in {"loop", "receive"}
  /\ left' = Down(left) /\ wait' = Down(wait)
  /\ left + wait > 0
  /\ UNCHANGED <<pc, inbox, results, heard>>

Discover ==
  \/ Open \/ Loop \/ ReceiveSd \/ ReceiveInvalid \/ ReceiveHeader \/ TimesOut

Next == Discover \/ Arrive \/ Tick

\* The thread that called discover runs, and time passes; nothing is assumed
\* of the network.
Spec ==
  /\ Init /\ [][Next]_clientVars
  /\ WF_clientVars(Discover) /\ WF_clientVars(Tick)

-----------------------------------------------------------------------------
\* Properties.

\* discover returns (or raises), however many datagrams keep arriving: the
\* deadline is the one of the call, not of each recvfrom.
DiscoverReturns == <>(pc \in {"returned", "raised"})

\* Every offer that was received is reported, and a search that is not
\* interrupted lasts until the deadline, whatever else was received.
NothingMissed ==
  pc = "returned" => left = 0 /\ \A s \in heard : results[s] # NoEndpoint

\* No service is reported that nobody offered, and no endpoint that did not
\* come with an offer of the service: a Subscribe, which has an endpoint too, a
\* multicast option or another packet never supplies one.  The endpoint of a
\* packet with one offer is that offer's own; with several entries it may be
\* another one's, as the option runs are not looked at.
EndpointIsOffered ==
  \A s \in Services : results[s] # NoEndpoint =>
    \E m \in Multicast :
      /\ \E k \in 1..Len(m.entries) :
           m.entries[k].type = OFFER /\ m.entries[k].service = s
      /\ \E k \in 1..Len(m.options) :
           m.options[k].type = IP4_ENDPOINT /\ m.options[k] = results[s]

=============================================================================
