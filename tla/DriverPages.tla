------------------------------ MODULE DriverPages -----------------------------
(***************************************************************************)
(* The driver's pages on the web and on the phone.                         *)
(***************************************************************************)
EXTENDS Pages

BidForms(v) == {Button("SubmitBid", l, amount) : l \in DOMAIN v.loads, amount \in Amounts \ {0}}

-------------------------------------------------------------------------------
(* One load: pages/driver/LoadDetail.tsx and (driver)/load-detail.tsx. *)

\* The web form is there whatever the load's status and the driver's bids.
WebTenderLooks(d, l) == Sees({l} \cap MayView(d), {}, {}, {}, {})
WebTenderButtons(v) ==
    BidForms(v) \cup Buttons("Chat", LoadsIn(v, {"Assigned", "OnWay", "Delivered"}))
WebTenderAfter == [SubmitBid |-> Stay]

\* The phone takes the form away while it knows of a pending bid of the driver's.
PhoneTenderLooks(d, l) == Sees({l} \cap MayView(d), BidsBy(d), {}, {}, {})
OwnPending(v) == {b \in BidsIn(v, {"Pending"}) : v.bids[b].load \in DOMAIN v.loads}
PhoneTenderButtons(v) ==
    (IF OwnPending(v) = {} THEN BidForms(v) ELSE Buttons("CancelBid", OwnPending(v)))
    \cup Buttons("Chat", LoadsIn(v, {"Assigned", "OnWay", "Delivered"}))
PhoneTenderAfter == [SubmitBid |-> Patch, CancelBid |-> Patch]

\* After a bid is cancelled the form is back; the page now knows of no bid.
BidCancelled(v, b) == [v EXCEPT !.bids = Restrict(@, DOMAIN @ \ {b})]
BidSent(v, b, row) == [v EXCEPT !.bids = [c \in {b} \cup DOMAIN @ |-> IF c = b THEN row ELSE @[c]]]

-------------------------------------------------------------------------------
(* The board, the driver's bids, the home pages: they lead to a load. *)

WebBoardLooks(d, l) == Sees(Board(d, l), {}, {}, {}, {})
WebBoardButtons(v) == Buttons("Link", DOMAIN v.loads)
PhoneBoardLooks(d, l) == Sees(Board(d, l), {}, {}, {}, {})
PhoneBoardButtons(v) == Buttons("Link", DOMAIN v.loads)
WebDriverHomeLooks(d, l) == Sees(WithStatus(Stored, {"Active"}), {}, {}, {}, {})
WebDriverHomeButtons(v) == Buttons("Link", DOMAIN v.loads)
PhoneDriverHomeLooks(d, l) == Sees(Board(d, l), {}, {}, {}, {})
PhoneDriverHomeButtons(v) == Buttons("Link", DOMAIN v.loads)

\* Every bid leads to its load, also where the load has gone to somebody else.
WebOwnBidsLooks(d) == Sees({}, BidsBy(d), {}, {}, {})
WebOwnBidsButtons(v) == {Button("Link", v.bids[b].load, None) : b \in DOMAIN v.bids}
PhoneOwnBidsLooks(d) == Sees({}, BidsBy(d), {}, {}, {})
PhoneOwnBidsButtons(v) == {Button("Link", v.bids[b].load, None) : b \in DOMAIN v.bids}

-------------------------------------------------------------------------------
(* The trip: ActiveLoad.tsx and active-load.tsx. *)

\* Mutant: an arrived load can no longer be delivered.
OnWayOnly(v) == Buttons("Deliver", LoadsIn(v, {"OnWay"}))

CanDeliver(v) == Buttons("Deliver", LoadsIn(v, {"OnWay", "Arrived"}))

\* The web reads the whole board.  The phone reads its first page, where the trip
\* is missing once enough newer loads have been published (crowded).
WebTripLooks(d, l) == Sees({l} \cap Trips(d), {}, {}, {}, {})
WebTripButtons(v) == Buttons("Pickup", LoadsIn(v, {"Assigned"})) \cup CanDeliver(v)
\* The position the page can share; the web's switch is there as long as the trip is.
WebTripShares(v) == LoadsIn(v, EscrowStates)
WebTripAfter == [Pickup |-> Reload, Deliver |-> Reload]

PhoneTripLooks(d, l, crowded) == Sees(IF crowded THEN {} ELSE {l} \cap Trips(d), {}, {}, {}, {})
PhoneTripButtons(v) ==
    Buttons("Pickup", LoadsIn(v, {"Assigned"})) \cup CanDeliver(v)
    \cup Buttons("Chat", LoadsIn(v, {"Assigned", "OnWay", "Delivered"}))
    \cup Buttons("Rate", LoadsIn(v, {"Delivered"}))
\* shouldShareLocation
PhoneTripShares(v) == LoadsIn(v, {"Assigned", "OnWay"})
PhoneTripAfter == [Pickup |-> Reload, Deliver |-> Reload]

\* Mutant: a load that is on its way is not taken for a trip.
TripDropped(v) == Sees(WithStatus(DOMAIN v.loads, {"Assigned", "Arrived", "Delivered"}), {}, {}, {}, {})

\* After a press the trip is asked for by its id; the web drops a cancelled one.
WebTripAgain(v) == Sees(WithStatus(DOMAIN v.loads, EscrowStates \cup {"Delivered"}), {}, {}, {}, {})
PhoneTripAgain(v) == Sees(DOMAIN v.loads, {}, {}, {}, {})

-------------------------------------------------------------------------------
(* The driver's empty vehicles, on the web only: Listings.tsx, ListingCreate.tsx. *)

\* Of an offered load the page learns the price, not the status.
WebListingsLooks(d) ==
    LET mine == {i \in Listings : listings[i] # NoRow /\ ListingDriver[i] = d}
        offered == {offers[o].load : o \in OffersAt(mine)}
    IN  [Sees({}, {}, mine, OffersAt(mine), {}) EXCEPT
            !.loads = [l \in offered |-> [price |-> loads[l].price]]]

Answerable(v) == {o \in OffersIn(v, {"Pending"}) : v.offers[o].listing \in ListingsIn(v, {"Active"})}

\* Mutant: the page shows the load's price even where the offer names one.
ListPrice(v, o) == v.loads[v.offers[o].load].price

\* An offer that names no price is shown with the load's price of that moment.
OfferPrice(v, o) ==
    IF v.offers[o].amount = None THEN v.loads[v.offers[o].load].price ELSE v.offers[o].amount
WebListingsButtons(v) ==
    {Button("AcceptOffer", o, OfferPrice(v, o)) : o \in Answerable(v)}
    \cup Buttons("RejectOffer", Answerable(v))
    \cup Buttons("CancelListing", ListingsIn(v, {"Active"}))
WebListingsAfter == [AcceptOffer |-> Patch, RejectOffer |-> Patch, CancelListing |-> Patch]

\* The page keeps the offers by listing: the other pending ones of the same
\* listing become rejected.
OfferAccepted(v, o) ==
    LET others == {p \in OffersIn(v, {"Pending"}) : v.offers[p].listing = v.offers[o].listing}
        known == [p \in {o} \cup others |-> IF p = o THEN "Accepted" ELSE "Rejected"]
    IN  ListingShown(OffersShown(v, known), v.offers[o].listing, "Matched")
OfferRejected(v, o) == OffersShown(v, [p \in {o} |-> "Rejected"])
ListingCancelled(v, i) == ListingShown(v, i, "Cancelled")
===============================================================================
