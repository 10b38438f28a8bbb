----------------------------- MODULE CustomerPages ----------------------------
(***************************************************************************)
(* The customer's pages on the web (Web...) and on the phone (Phone...):   *)
(* what each fetches, and which buttons it shows for what it fetched.      *)
(***************************************************************************)
EXTENDS Pages

OpenBids(v) == {b \in BidsIn(v, {"Pending"}) : v.bids[b].load \in LoadsIn(v, {"Active"})}
Acceptances(v) == {Button("AcceptBid", b, v.bids[b].amount) : b \in OpenBids(v)}

\* A load can be withdrawn while the page sees it on the market without an
\* accepted bid.
Withdrawable(v) == {l \in LoadsIn(v, {"Active"}) :
                       \A b \in BidsIn(v, {"Accepted"}) : v.bids[b].load # l}
HasDriver(v) == {l \in DOMAIN v.loads : v.loads[l].driver # None}
UnderWay(v) == LoadsIn(v, {"Assigned", "OnWay"})

-------------------------------------------------------------------------------
(* One load: pages/customer/LoadDetail.tsx and (customer)/load-detail.tsx. *)

WebLoadLooks(u, l) == Sees({l} \cap LoadsOf(u), BidsFor({l} \cap LoadsOf(u)), {}, {}, {})
WebLoadButtons(v) ==
    Acceptances(v) \cup Buttons("CancelLoad", Withdrawable(v))
    \cup Buttons("ShowQr", UnderWay(v)) \cup Buttons("Locate", UnderWay(v))
    \cup Buttons("Chat", HasDriver(v)) \cup Buttons("Rate", LoadsIn(v, {"Delivered"}))
WebLoadAfter == [AcceptBid |-> Reload, CancelLoad |-> Reload]

PhoneLoadLooks(u, l) == Sees({l} \cap LoadsOf(u), BidsFor({l} \cap LoadsOf(u)), {}, {}, {})
PhoneBidCard(v) == Acceptances(v)
PhoneLoadButtons(v) ==
    PhoneBidCard(v)
    \cup Buttons("CancelLoad", Withdrawable(v)) \cup Buttons("Edit", Withdrawable(v))
    \cup Buttons("ShowQr", UnderWay(v)) \cup Buttons("Locate", UnderWay(v))
    \cup Buttons("Chat", HasDriver(v))
    \cup Buttons("Rate", LoadsIn(v, {"Delivered"}) \cap HasDriver(v))
PhoneLoadAfter == [AcceptBid |-> ReloadOrBlank, CancelLoad |-> ReloadOrBlank]

-------------------------------------------------------------------------------
(* The bids on all of the customer's loads: Bids.tsx and bids.tsx. *)

WebBidsLooks(u) == LET market == WithStatus(LoadsOf(u), {"Active"})
                   IN  Sees(market, BidsFor(market), {}, {}, {})
WebBidsButtons(v) ==
    Acceptances(v) \cup {Button("Link", v.bids[b].load, None) : b \in DOMAIN v.bids}
WebBidsAfter == [AcceptBid |-> Leave]

PhoneBidsLooks(u) == WebBidsLooks(u)
PhoneBidsButtons(v) == Acceptances(v)
PhoneBidsAfter == [AcceptBid |-> Leave]

-------------------------------------------------------------------------------
(* The lists that lead to a load.  Only the web asks for the whole list; the   *)
(* phone asks page by page.                                                    *)

Linked(v) == Buttons("Link", DOMAIN v.loads)

WebLoadsLooks(u) == Sees(LoadsOf(u), {}, {}, {}, {})
WebLoadsButtons(v) == Linked(v)
PhoneLoadsLooks(u) == Sees(LoadsOf(u), {}, {}, {}, {})
PhoneLoadsButtons(v) == Linked(v)

WebHomeLooks(u) == Sees(LoadsOf(u), {}, {}, {}, {})
WebHomeButtons(v) == Linked(v)
PhoneHomeLooks(u) == Sees(LoadsOf(u), {}, {}, {}, {})
PhoneHomeButtons(v) == Linked(v)

WebHistoryLooks(u) == Sees(WithStatus(LoadsOf(u), {"Delivered"}), {}, {}, {}, {})
WebHistoryButtons(v) == Linked(v)
PhoneHistoryLooks(u) == Sees(WithStatus(LoadsOf(u), {"Delivered"}), {}, {}, {}, {})
PhoneHistoryButtons(v) == Linked(v)

\* The tracking page follows one load: on its way before arrived before assigned.
WebTrackLooks(u) == Sees(LoadsOf(u), {}, {}, {}, {})
Tracked(v) ==
    LET with(status) == LoadsIn(v, {status}) \cap HasDriver(v)
    IN  IF with("OnWay") # {} THEN with("OnWay")
        ELSE IF with("Arrived") # {} THEN with("Arrived") ELSE with("Assigned")
WebTrackButtons(v) == Buttons("Locate", Tracked(v))

-------------------------------------------------------------------------------
(* Empty vehicles, on the web only: DriverListings.tsx, ListingOffers.tsx. *)

\* The vehicles on offer, and the customer's loads the offer form asks for when
\* it opens.
WebVehiclesLooks(u) ==
    Sees(WithStatus(LoadsOf(u), {"Active"}), {}, {i \in Listings : listings[i] = "Active"}, {}, {})
WebVehiclesButtons(v) ==
    {Button("CreateOffer", <<i, l>>, amount) :
        i \in DOMAIN v.listings, l \in DOMAIN v.loads, amount \in Amounts \cup {None}}
WebVehiclesAfter == [CreateOffer |-> Stay]

WebOffersLooks(u) == Sees({}, {}, {}, OffersAbout(LoadsOf(u)), {})
WebOffersButtons(v) == Buttons("WithdrawOffer", OffersIn(v, {"Pending"}))
WebOffersAfter == [WithdrawOffer |-> Patch]
Withdrawn(v, o) == OffersShown(v, [p \in {o} |-> "Withdrawn"])
===============================================================================
