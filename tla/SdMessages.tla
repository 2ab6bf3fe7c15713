----------------------------- MODULE SdMessages -----------------------------
(***************************************************************************)
(* SOME/IP-SD messages as their builders lay them out: the builders of     *)
(* mpu/someip/sd.py and of MCU/src/someip_sd.cpp, which write the same     *)
(* fields for the same arguments.  A message is the record of the fields   *)
(* that some receiver of the repository looks at.                          *)
(***************************************************************************)
EXTENDS Naturals, Sequences

\* Entry types, TTLs, option types and layer 4 protocols.
FIND == 0
OFFER == 1
SUBSCRIBE == 6
TTL_DEFAULT == 16777215
TTL_STOP == 0
IP4_ENDPOINT == 4
UDP == 17
TCP == 6

\* session_id & 0xFFFF; the TTL is packed into three bytes.
SESSIONS == 65536
TTLS == 16777216

\* 16 bytes; the entry's options are the opts ones from index1 on (run 1).
Entry(type, service, ttl, index1, opts) ==
  [type |-> type, service |-> service, ttl |-> ttl % TTLS,
   index1 |-> index1, opts |-> opts]

\* 12 bytes, of which two are the l4 protocol and two the port.
Endpoint(l4, port) == [type |-> IP4_ENDPOINT, l4 |-> l4, port |-> port]

Message(entries, options, session, reboot) ==
  [entries |-> entries, options |-> options,
   session |-> session % SESSIONS, reboot |-> reboot]

\* The fields have the types that the builders pack.
WellFormed(m) ==
  /\ m.entries \in Seq([type : Nat, service : STRING, ttl : Nat,
                        index1 : Nat, opts : Nat])
  /\ m.options \in Seq([type : Nat, l4 : Nat, port : Nat])

\* 16 + 8 + entries + 4 + options, in bytes.
SizeOf(m) == 28 + 16 * Len(m.entries) + 12 * Len(m.options)

FindService(service, session) ==
  Message(<<Entry(FIND, service, TTL_DEFAULT, 0, 0)>>, <<>>, session, FALSE)

OfferService(service, port, session, reboot) ==
  Message(<<Entry(OFFER, service, TTL_DEFAULT, 0, 1)>>, <<Endpoint(UDP, port)>>,
          session, reboot)

StopOfferService(service, session) ==
  Message(<<Entry(OFFER, service, TTL_STOP, 0, 0)>>, <<>>, session, FALSE)

\* Its entry has an option but, unlike OfferService, no option run.
SubscribeEventgroup(service, port, session) ==
  Message(<<Entry(SUBSCRIBE, service, TTL_DEFAULT, 0, 0)>>,
          <<Endpoint(UDP, port)>>, session, FALSE)

=============================================================================
