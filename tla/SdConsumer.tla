----------------------------- MODULE SdConsumer -----------------------------
(***************************************************************************)
(* someip_thread of MCU/src/main.cpp over the UDP transport: someip_init,  *)
(* the periodic FindService with its 32-bit clock, someip_udp_receive and  *)
(* someip_sd_handle (MCU/src/someip_service.cpp).                          *)
(*                                                                         *)
(* The socket is bound to port 30490 of every address, so what the thread  *)
(* sends to the multicast group and to 127.0.0.1:30490 can come back to    *)
(* it.  The network loses, duplicates and reorders datagrams: whatever     *)
(* was ever sent may arrive at any time, or never.  Nobody looks at the    *)
(* address a datagram comes from.                                          *)
(***************************************************************************)
EXTENDS SdMessages

CONSTANTS
  Offered,      \* SD messages the peers send
  FIND_PERIOD,  \* 2000 ms, in ticks of SO_RCVTIMEO (50 ms)
  CLOCK_MOD,    \* k_uptime_get_32 counts modulo 2^32
  MAX_LAG,      \* ticks an iteration can be delayed by other threads
  RX_BUF,       \* sizeof(buf) in someip_udp_receive
  SESSION_MOD,  \* session_id is a uint16_t
  FAILURES,     \* bound on the sendto calls in a row that a socket refuses
  INBOX         \* bound on the datagrams that wait in the socket

ASSUME ConsumerAssumption ==
  /\ FIND_PERIOD \in Nat /\ CLOCK_MOD \in Nat /\ MAX_LAG \in Nat
  /\ RX_BUF \in Nat /\ SESSION_MOD \in Nat /\ INBOX \in Nat
  /\ FAILURES \in Nat
  /\ FIND_PERIOD > 0 /\ SESSION_MOD > 1
  /\ FIND_PERIOD + 2 * MAX_LAG + 2 < CLOCK_MOD
  /\ 28 + 16 + 12 <= RX_BUF     \* an entry and an option fit,
  /\ RX_BUF < 28 + 2 * 16 + 12  \* two entries and an option do not

OURS == "DriverMonitoringService"
SOMEIP_PORT == 30490

VARIABLES
  pc,           \* "init", "check", "stamp", "receive" or "kick"
  sock,         \* "none", "unbound" or "bound"
  joined,       \* the multicast group was joined
  inbox,        \* datagrams that wait in the socket
  now,          \* k_uptime_get_32()
  last_find,    \* when a FindService was last tried
  find_session, sub_session, \* the static session counters
  lag,          \* ticks spent in this iteration outside recvfrom
  sinceFind,    \* history: ticks since a FindService last left, or boot
  failed        \* history: FindServices since then that a socket refused

consumerVars == <<pc, sock, joined, inbox, now, last_find, find_session,
                  sub_session, lag, sinceFind, failed>>

Datagram(kind, message) == [kind |-> kind, message |-> message]

NoMessage == Message(<<>>, <<>>, 0, FALSE)

\* What others send, from any address: events of the service, SD messages, and
\* datagrams that someip_udp_receive refuses (short, other service, type or
\* length).
FromOthers ==
  {Datagram("event", NoMessage), Datagram("junk", NoMessage)}
    \cup {Datagram("sd", m) : m \in Offered}

\* A FindService is tried at most this late: the delays between a send and its
\* stamp, and of the two iterations around the end of the period, come on top.
LATEST == FIND_PERIOD + 3 * MAX_LAG

\* sinceFind stops counting here, past everything FindPeriodic speaks about.
SINCE_CAP == (FAILURES + 1) * LATEST + 1

Init ==
  /\ pc = "init" /\ sock = "none" /\ joined = FALSE /\ inbox = <<>>
  /\ now = 0 /\ last_find = 0
  /\ find_session = 0 /\ sub_session = 0
  /\ lag = 0 /\ sinceFind = 0 /\ failed = 0

-----------------------------------------------------------------------------

\* someip_init: socket and bind may fail, and so may the join; main ignores
\* the result and enters the loop whatever it is.
SomeipInit ==
  /\ pc = "init" /\ pc' = "check"
  /\ sock' \in {"none", "unbound", "bound"}
  /\ joined' \in IF sock' = "bound" THEN BOOLEAN ELSE {FALSE}
  /\ UNCHANGED <<inbox, now, last_find, find_session, sub_session, lag,
                 sinceFind, failed>>

\* A datagram reaches the socket if there is room: multicast if the group was
\* joined, and unicast in any case.
Arrive ==
  /\ sock = "bound" /\ Len(inbox) < INBOX
  /\ \E d \in FromOthers : inbox' = Append(inbox, d)
  /\ UNCHANGED <<pc, sock, joined, now, last_find, find_session, sub_session,
                 lag, sinceFind, failed>>

\* What the thread itself sends may come back: its FindService through the
\* group it has joined, its Subscribe because it goes to its own port.
Echo(message) ==
  inbox' \in {inbox} \cup
    (IF sock = "bound" /\ Len(inbox) < INBOX
     THEN {Append(inbox, Datagram("sd", message))} ELSE {})

\* A fault: the deadline is compared, not the time that has passed.
DeadlinePassed == now >= (last_find + FIND_PERIOD) % CLOCK_MOD

\* k_uptime_get_32() - last_find >= 2000, in 32 bits.
FindIsDue == (now + CLOCK_MOD - last_find) % CLOCK_MOD >= FIND_PERIOD

\* ++session_id, sent or not.
NextSession(session) == (session + 1) % SESSION_MOD

\* someip_sd_send_find, and sendto puts the FindService on the network.
FindLeaves ==
  /\ pc = "check" /\ FindIsDue /\ sock # "none"
  /\ pc' = "stamp"
  /\ find_session' = NextSession(find_session)
  /\ IF joined THEN Echo(FindService(OURS, find_session')) ELSE UNCHANGED inbox
  /\ sinceFind' = 0 /\ failed' = 0
  /\ UNCHANGED <<sock, joined, now, last_find, sub_session, lag>>

\* sendto fails: always without a socket, and now and then with one (no route
\* to the group, no buffer).  main ignores the result.
FindFails ==
  /\ pc = "check" /\ FindIsDue
  /\ sock = "none" \/ failed < FAILURES
  /\ pc' = "stamp"
  /\ find_session' = NextSession(find_session)
  /\ failed' = IF sock = "none" THEN failed ELSE failed + 1
  /\ UNCHANGED <<sock, joined, inbox, now, last_find, sub_session, lag,
                 sinceFind>>

\* last_find is a second reading of the clock, after the send or its failure.
StampFind ==
  /\ pc = "stamp" /\ pc' = "receive"
  /\ last_find' = now
  /\ UNCHANGED <<sock, joined, inbox, now, find_session, sub_session, lag,
                 sinceFind, failed>>

NoFindYet ==
  /\ pc = "check" /\ ~FindIsDue /\ pc' = "receive"
  /\ UNCHANGED <<sock, joined, inbox, now, last_find, find_session,
                 sub_session, lag, sinceFind, failed>>

-----------------------------------------------------------------------------

\* sd_parse of what fits in the buffer: a longer message is cut off, and then
\* its entries or options end outside it.
Understood(m) == SizeOf(m) <= RX_BUF /\ Len(m.entries) <= 4

\* A fault: offers of other services are taken for ours.
AnyLiveOffer(e) == e.type = OFFER /\ e.ttl # 0

\* A fault: any entry of our service is taken for an offer.
AnyLiveEntry(e) == e.ttl # 0 /\ e.service = OURS

\* The entry is an offer of our service that is not a StopOffer.
LiveOffer(e) == e.type = OFFER /\ e.ttl # 0 /\ e.service = OURS

\* Any of the first four options is a UDP endpoint; the entry's option run is
\* not looked at.
HasEndpoint(m) ==
  \E k \in 1..Len(m.options) :
    k <= 4 /\ m.options[k].type = IP4_ENDPOINT /\ m.options[k].l4 = UDP

\* someip_sd_handle answers a live offer with a Subscribe.  (One at most: two
\* offers and an endpoint do not fit in 64 bytes.)
Answers(m) ==
  /\ Understood(m) /\ HasEndpoint(m)
  /\ \E k \in 1..Len(m.entries) : LiveOffer(m.entries[k])

\* A fault: someip_sd_handle returns 0, like the other handlers.
SdIsAnEvent == "kick"

\* An SD message is no event: someip_receive returns -1.
AfterSd == "check"

\* recvfrom returns a datagram.
Receive ==
  /\ pc = "receive" /\ inbox # <<>>
  /\ LET d == Head(inbox)
         subscribes == d.kind = "sd" /\ Answers(d.message)
     IN /\ pc' = IF d.kind = "event" THEN "kick"
                 ELSE IF d.kind = "sd" THEN AfterSd ELSE "check"
        /\ sub_session' = IF subscribes THEN NextSession(sub_session)
                          ELSE sub_session
        /\ inbox' \in
             {Tail(inbox)} \cup
             IF subscribes
             THEN {Append(Tail(inbox),
                     Datagram("sd",
                       SubscribeEventgroup(OURS, SOMEIP_PORT, sub_session')))}
             ELSE {}
  /\ lag' = 0
  /\ UNCHANGED <<sock, joined, now, last_find, find_session, sinceFind,
                 failed>>

\* recvfrom fails: at once without a socket, after 50 ms with one.
ReceiveFails ==
  /\ pc = "receive" /\ sock = "none"
  /\ pc' = "check" /\ lag' = 0
  /\ UNCHANGED <<sock, joined, inbox, now, last_find, find_session,
                 sub_session, sinceFind, failed>>

\* The clock, and with it the time since a FindService left.
Later ==
  /\ now' = (now + 1) % CLOCK_MOD
  /\ sinceFind' = IF sinceFind < SINCE_CAP THEN sinceFind + 1 ELSE SINCE_CAP

ReceiveTimesOut ==
  /\ pc = "receive" /\ sock # "none" /\ inbox = <<>>
  /\ pc' = "check" /\ lag' = 0
  /\ Later
  /\ UNCHANGED <<sock, joined, inbox, last_find, find_session, sub_session,
                 failed>>

\* safety_kick_watchdog (see SafetyMonitor).
Kick ==
  /\ pc = "kick" /\ pc' = "check"
  /\ UNCHANGED <<sock, joined, inbox, now, last_find, find_session,
                 sub_session, lag, sinceFind, failed>>

\* Other threads have the processor: someip_thread has the lowest priority.
Delay ==
  /\ lag < MAX_LAG /\ lag' = lag + 1
  /\ Later
  /\ UNCHANGED <<pc, sock, joined, inbox, last_find, find_session,
                 sub_session, failed>>

Thread ==
  \/ SomeipInit \/ FindLeaves \/ FindFails \/ StampFind \/ NoFindYet
  \/ Receive \/ ReceiveFails \/ ReceiveTimesOut \/ Kick

Next == Thread \/ Arrive \/ Delay

Spec == Init /\ [][Next]_consumerVars

-----------------------------------------------------------------------------
\* Properties.

\* The values the variables take.
TypeOK ==
  /\ pc \in {"init", "check", "stamp", "receive", "kick"}
  /\ sock \in {"none", "unbound", "bound"} /\ joined \in BOOLEAN
  /\ Len(inbox) <= INBOX
  /\ now \in 0..(CLOCK_MOD - 1) /\ last_find \in 0..(CLOCK_MOD - 1)
  /\ find_session \in 0..(SESSION_MOD - 1)
  /\ sub_session \in 0..(SESSION_MOD - 1)
  /\ lag \in 0..MAX_LAG /\ sinceFind \in 0..SINCE_CAP
  /\ failed \in 0..FAILURES

\* As long as there is a socket, a FindService is on the network every 2 s for
\* ever but for those that the socket refused, whatever arrives meanwhile and
\* across every wrap of the 32-bit clock (49.7 days); and it is tried no more
\* often, however fast the loop turns and whatever has failed.  Without a socket
\* nothing is ever sent: someip_init is not tried again.
FindNeverLate == sock # "none" => sinceFind <= (failed + 1) * LATEST
FindNeverEarly ==
  sock # "none" /\ pc = "check" /\ pc' = "stamp"
    => sinceFind >= (failed + 1) * FIND_PERIOD
FindPeriodic == []FindNeverLate /\ [][FindNeverEarly]_consumerVars

\* What build_offer_service builds for our service, at any port.
OurOffer(m) ==
  /\ Len(m.options) = 1
  /\ m = OfferService(OURS, m.options[1].port, m.session, m.reboot)

\* What the other builders build, and build_offer_service for another service.
NoOfferOfOurs(m) ==
  /\ Len(m.entries) = 1
  /\ LET service == m.entries[1].service
     IN \/ m = FindService(service, m.session)
        \/ m = StopOfferService(service, m.session)
        \/ /\ Len(m.options) = 1
           /\ \/ m = SubscribeEventgroup(service, m.options[1].port, m.session)
              \/ /\ service # OURS
                 /\ m = OfferService(service, m.options[1].port, m.session,
                                     m.reboot)

\* The receiver of the MCU takes the messages of the builders for what they
\* are, those that come back to it from its own socket among them: an offer of
\* the service fits the buffer and is answered, nothing else is (its Subscribe,
\* which it sends to its own port, would start a storm), and none of them
\* reaches the watchdog, so the MCU never keeps itself in NORMAL.
TakenAsBuilt ==
  pc = "receive" /\ inbox # <<>> /\ Head(inbox).kind = "sd" /\ pc' # pc
    => LET m == Head(inbox).message
           answered == sub_session' # sub_session
       IN /\ pc' # "kick"
          /\ OurOffer(m) => answered
          /\ NoOfferOfOurs(m) => ~answered
SdTakenAsBuilt == [][TakenAsBuilt]_consumerVars

=============================================================================
