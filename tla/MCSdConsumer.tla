---------------------------- MODULE MCSdConsumer ----------------------------
(***************************************************************************)
(* Model values for SdConsumer: what its peers send.                       *)
(***************************************************************************)
EXTENDS SdConsumer

\* SdServer of the MPU, its StopOffer, a client's FindService, and a server
\* of another service.
FromRepository ==
  {OfferService(OURS, SOMEIP_PORT, 1, TRUE), StopOfferService(OURS, 1),
   FindService("any", 1), OfferService("another", SOMEIP_PORT, 1, TRUE)}

\* vsomeip with config/vsomeip.json: the service is offered at 30490 (UDP) and
\* 30491 (TCP), so its entry has two endpoint options: 68 bytes, four more than
\* the receive buffer holds.
FromVsomeip ==
  {Message(<<Entry(OFFER, OURS, TTL_DEFAULT, 0, 2)>>,
           <<Endpoint(UDP, SOMEIP_PORT), Endpoint(TCP, 30491)>>, 1, TRUE)}

FromPeers == FromRepository \cup FromVsomeip

=============================================================================
