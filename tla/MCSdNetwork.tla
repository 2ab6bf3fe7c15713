----------------------------- MODULE MCSdNetwork -----------------------------
(***************************************************************************)
(* Model values for SdNetwork: what else is multicast during the search.   *)
(***************************************************************************)
EXTENDS SdNetwork

\* SdServer's own offers, and a Subscribe.
OneEntry == {OfferService("a", 1, 1, TRUE), SubscribeEventgroup("b", 9, 1)}

\* Two offers with an endpoint each, after a multicast address, and a StopOffer
\* before an offer: discover gives both services of a message the same endpoint.
SeveralEntries ==
  {Message(<<Entry(OFFER, "b", TTL_DEFAULT, 1, 1),
             Entry(OFFER, "c", TTL_DEFAULT, 2, 1)>>,
           <<[type |-> 20, l4 |-> UDP, port |-> 5], Endpoint(UDP, 7),
             Endpoint(UDP, 8)>>, 1, TRUE),
   Message(<<Entry(OFFER, "b", TTL_STOP, 0, 0),
             Entry(OFFER, "a", TTL_DEFAULT, 0, 1)>>,
           <<Endpoint(UDP, 2)>>, 1, TRUE)}

OnTheGroup == OneEntry \cup SeveralEntries

=============================================================================
