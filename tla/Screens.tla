------------------------------- MODULE Screens --------------------------------
(***************************************************************************)
(* A page is open on a customer's, a driver's or an administrator's        *)
(* screen while the requests of Freight go on behind it.  The page shows   *)
(* its buttons by the rows it fetched; nothing pushes a change to it.  A    *)
(* press is a request made on that knowledge; its answer may be lost, and   *)
(* fetching again afterwards may fail.  The fetches of one page are one     *)
(* step, and one page is open at a time: the others are in Freight's Next.  *)
(***************************************************************************)
EXTENDS CustomerPages, DriverPages, AdminPages

CONSTANTS Admin,                   \* an administrator
          EnforceGps,              \* Delivery:EnforceGpsDistanceCheck; off in Development
          MaxPresses, MaxOthers    \* bounds: steps while one page is open

ASSUME ScreensAssumption == MaxPresses \in Nat /\ MaxOthers \in Nat /\ EnforceGps \in BOOLEAN

VARIABLES
    page,      \* the page that is open: [on, user, load]
    view,      \* the rows it shows
    since,     \* what happened since it fetched them: "nothing", "own", "others"
    last,      \* the button pressed last on this page
    presses, others,
    qr,        \* the delivery code of each load: "valid", or "none" that still is
    near,      \* the loads whose destination a driver's last known position is near enough to
    rated      \* the rows of Ratings: <<user, load>>

screen == <<page, view, since, last, presses, others>>
aside == <<qr, near, rated>>
all == <<vars, screen, aside>>

Closed == [on |-> "Closed", user |-> None, load |-> None]
Empty == [loads |-> <<>>, bids |-> <<>>, listings |-> <<>>, offers |-> <<>>, payments |-> <<>>]
NoButton == Button("none", None, None)

CustomerOnes == {"WebBids", "PhoneBids", "WebLoads", "PhoneLoads", "WebHome", "PhoneHome",
                 "WebHistory", "PhoneHistory", "WebTrack", "WebVehicles", "WebOffers"}
CustomerLoadOnes == {"WebLoad", "PhoneLoad"}
DriverOnes == {"WebOwnBids", "PhoneOwnBids", "WebListings"}
DriverLoadOnes == {"WebTender", "PhoneTender", "WebBoard", "PhoneBoard", "WebDriverHome",
                   "PhoneDriverHome", "WebTrip", "PhoneTrip", "PhoneTripCrowded"}
AdminOnes == {"PhoneAdminLoads", "WebAdminLoads", "WebAdminPayments", "PhoneAdminPayments",
              "WebAdminListings"}

Page(on, u, l) == [on |-> on, user |-> u, load |-> l]
Pages == {Page(on, u, None) : on \in CustomerOnes, u \in Customers}
         \cup {Page(on, u, l) : on \in CustomerLoadOnes, u \in Customers, l \in Loads}
         \cup {Page(on, d, None) : on \in DriverOnes, d \in Drivers}
         \cup {Page(on, d, l) : on \in DriverLoadOnes, d \in Drivers, l \in Loads}
         \cup {Page(on, Admin, None) : on \in AdminOnes}
         \cup {Page("WebAdminLoad", Admin, l) : l \in Loads}

Looks(g) ==
    CASE g.on = "WebLoad" -> WebLoadLooks(g.user, g.load)
      [] g.on = "PhoneLoad" -> PhoneLoadLooks(g.user, g.load)
      [] g.on = "WebBids" -> WebBidsLooks(g.user)
      [] g.on = "PhoneBids" -> PhoneBidsLooks(g.user)
      [] g.on = "WebLoads" -> WebLoadsLooks(g.user)
      [] g.on = "PhoneLoads" -> PhoneLoadsLooks(g.user)
      [] g.on = "WebHome" -> WebHomeLooks(g.user)
      [] g.on = "PhoneHome" -> PhoneHomeLooks(g.user)
      [] g.on = "WebHistory" -> WebHistoryLooks(g.user)
      [] g.on = "PhoneHistory" -> PhoneHistoryLooks(g.user)
      [] g.on = "WebTrack" -> WebTrackLooks(g.user)
      [] g.on = "WebVehicles" -> WebVehiclesLooks(g.user)
      [] g.on = "WebOffers" -> WebOffersLooks(g.user)
      [] g.on = "WebTender" -> WebTenderLooks(g.user, g.load)
      [] g.on = "PhoneTender" -> PhoneTenderLooks(g.user, g.load)
      [] g.on = "WebBoard" -> WebBoardLooks(g.user, g.load)
      [] g.on = "PhoneBoard" -> PhoneBoardLooks(g.user, g.load)
      [] g.on = "WebDriverHome" -> WebDriverHomeLooks(g.user, g.load)
      [] g.on = "PhoneDriverHome" -> PhoneDriverHomeLooks(g.user, g.load)
      [] g.on = "WebOwnBids" -> WebOwnBidsLooks(g.user)
      [] g.on = "PhoneOwnBids" -> PhoneOwnBidsLooks(g.user)
      [] g.on = "WebTrip" -> WebTripLooks(g.user, g.load)
      [] g.on = "PhoneTrip" -> PhoneTripLooks(g.user, g.load, FALSE)
      [] g.on = "PhoneTripCrowded" -> PhoneTripLooks(g.user, g.load, TRUE)
      [] g.on = "WebListings" -> WebListingsLooks(g.user)
      [] g.on = "PhoneAdminLoads" -> PhoneAdminLoadsLooks
      [] g.on = "WebAdminLoads" -> WebAdminLoadsLooks
      [] g.on = "WebAdminLoad" -> WebAdminLoadLooks(g.load)
      [] g.on = "WebAdminPayments" -> WebAdminPaymentsLooks
      [] g.on = "PhoneAdminPayments" -> PhoneAdminPaymentsLooks
      [] g.on = "WebAdminListings" -> WebAdminListingsLooks
      [] OTHER -> Empty

Shows(on, v) ==
    CASE on = "WebLoad" -> WebLoadButtons(v)
      [] on = "PhoneLoad" -> PhoneLoadButtons(v)
      [] on = "WebBids" -> WebBidsButtons(v)
      [] on = "PhoneBids" -> PhoneBidsButtons(v)
      [] on = "WebLoads" -> WebLoadsButtons(v)
      [] on = "PhoneLoads" -> PhoneLoadsButtons(v)
      [] on = "WebHome" -> WebHomeButtons(v)
      [] on = "PhoneHome" -> PhoneHomeButtons(v)
      [] on = "WebHistory" -> WebHistoryButtons(v)
      [] on = "PhoneHistory" -> PhoneHistoryButtons(v)
      [] on = "WebTrack" -> WebTrackButtons(v)
      [] on = "WebVehicles" -> WebVehiclesButtons(v)
      [] on = "WebOffers" -> WebOffersButtons(v)
      [] on = "WebTender" -> WebTenderButtons(v)
      [] on = "PhoneTender" -> PhoneTenderButtons(v)
      [] on = "WebBoard" -> WebBoardButtons(v)
      [] on = "PhoneBoard" -> PhoneBoardButtons(v)
      [] on = "WebDriverHome" -> WebDriverHomeButtons(v)
      [] on = "PhoneDriverHome" -> PhoneDriverHomeButtons(v)
      [] on = "WebOwnBids" -> WebOwnBidsButtons(v)
      [] on = "PhoneOwnBids" -> PhoneOwnBidsButtons(v)
      [] on = "WebTrip" -> WebTripButtons(v)
      [] on \in {"PhoneTrip", "PhoneTripCrowded"} -> PhoneTripButtons(v)
      [] on = "WebListings" -> WebListingsButtons(v)
      [] on = "PhoneAdminLoads" -> PhoneAdminLoadsButtons(v)
      [] on = "WebAdminLoads" -> WebAdminLoadsButtons(v)
      [] on = "WebAdminLoad" -> WebAdminLoadButtons(v)
      [] on = "WebAdminPayments" -> WebAdminPaymentsButtons(v)
      [] on = "PhoneAdminPayments" -> PhoneAdminPaymentsButtons(v)
      [] on = "WebAdminListings" -> WebAdminListingsButtons(v)
      [] OTHER -> {}

\* What a page does after its request was accepted; a form that stays open for
\* the same row has no entry of its own.
AfterTable == [WebLoad |-> WebLoadAfter, PhoneLoad |-> PhoneLoadAfter,
               WebBids |-> WebBidsAfter, PhoneBids |-> PhoneBidsAfter,
               WebVehicles |-> WebVehiclesAfter, WebOffers |-> WebOffersAfter,
               WebTender |-> WebTenderAfter, PhoneTender |-> PhoneTenderAfter,
               WebTrip |-> WebTripAfter, PhoneTrip |-> PhoneTripAfter,
               WebListings |-> WebListingsAfter,
               PhoneAdminLoads |-> PhoneAdminLoadsAfter, WebAdminLoads |-> WebAdminLoadsAfter,
               WebAdminLoad |-> WebAdminLoadAfter, WebAdminPayments |-> WebAdminPaymentsAfter,
               PhoneAdminPayments |-> PhoneAdminPaymentsAfter,
               WebAdminListings |-> WebAdminListingsAfter]

-------------------------------------------------------------------------------
(* What the server does with a press. *)

Writes == {"AcceptBid", "CancelLoad", "SubmitBid", "CancelBid", "CreateOffer",
           "WithdrawOffer", "AcceptOffer", "RejectOffer", "CancelListing", "Pickup", "Deliver",
           "AdminRelease", "AdminCancelLoad", "AdminCancelListing"}

\* Delivery:MaxDistanceKm.  A driver whose position is not known is near to nothing.
InPlace(d, l) == EnforceGps => l \in near[d]

\* What LoadsController.Deliver wants to see before DeliverAsync begins.
Proven(l) == qr[l] = "valid" /\ InPlace(loads[l].driver, l)

Does(u, b) ==
    \/ b.op = "AcceptBid" /\ AcceptBid(b.on)
    \/ b.op = "CancelLoad" /\ CancelLoad(b.on, FALSE)
    \/ b.op = "SubmitBid" /\ \E k \in Bids : SubmitBid(k, b.on, u, b.price)
    \/ b.op = "CancelBid" /\ CancelBid(b.on)
    \/ b.op = "CreateOffer" /\ \E o \in Offers : CreateOffer(o, b.on[1], b.on[2], b.price)
    \/ b.op = "WithdrawOffer" /\ WithdrawOffer(b.on)
    \/ b.op = "AcceptOffer" /\ AcceptOffer(b.on)
    \/ b.op = "RejectOffer" /\ RejectOffer(b.on)
    \/ b.op = "CancelListing" /\ CancelListing(b.on)
    \/ b.op = "Pickup" /\ Pickup(b.on)
    \/ b.op = "Deliver" /\ Proven(b.on) /\ Deliver(b.on)
    \/ b.op = "AdminRelease" /\ AdminRelease(b.on)
    \/ b.op = "AdminCancelLoad" /\ CancelLoad(b.on, TRUE)
    \/ b.op = "AdminCancelListing" /\ AdminCancelListing(b.on)

\* GetDeliveryQr, GetDriverLocation, ChatHub.JoinLoadChat, RatingsController.Submit,
\* LoadEditService before the form is filled in, GetLoad with CanViewLoad.
HasQr(l) == loads[l].status \in {"OnWay", "Assigned"}
MayChat(u, l) == Owner[l] = u \/ loads[l].driver = u
MayRate(u, l) ==
    /\ loads[l].status = "Delivered" /\ loads[l].driver # None /\ MayChat(u, l)
    /\ <<u, l>> \notin rated
Allows(u, b) ==
    \/ b.op = "ShowQr" /\ HasQr(b.on)
    \/ b.op = "Locate" /\ loads[b.on].driver # None
    \/ b.op = "Chat" /\ MayChat(u, b.on)
    \/ b.op = "Rate" /\ MayRate(u, b.on)
    \/ b.op = "Edit" /\ loads[b.on].status = "Active" /\ ~HasAcceptedBid(b.on)
    \/ b.op = "Link" /\ (u = Admin \/ Owner[b.on] = u \/ b.on \in MayView(u))

\* What the same requests ask of the rows before they change them.
CanHold(l) == BlockedOn(l) = {} /\ \E p \in Payments : payments[p].status = NoRow
CanRelease(l) == loads[l].driver # None /\ BlockedOn(l) # {} /\ HoldIsCovered(l)
CanRefund(l) ==
    \/ PaymentsOf(l) = {} \/ PaymentsOf(l) # BlockedOn(l) \/ RowsOf(l, "CustomerRefund") # {}
    \/ HoldRows(l, loads[l].driver) = {} \/ HoldIsCovered(l)

CanBeDelivered(l) == loads[l].status \in {"OnWay", "Arrived"} /\ CanRelease(l)

\* The same conditions, written out request by request.
Ready(u, b) ==
    \/ /\ b.op = "AcceptBid" /\ bids[b.on].status = "Pending"
       /\ loads[bids[b.on].load].status = "Active" /\ CanHold(bids[b.on].load)
    \/ b.op = "CancelLoad" /\ CanCustomerCancel(b.on)
    \/ /\ b.op = "SubmitBid" /\ loads[b.on].status = "Active" /\ b.price > 0
       /\ \A c \in BidsBy(u) : bids[c].load # b.on
       /\ \E k \in Bids : bids[k].status = NoRow
    \/ b.op = "CancelBid" /\ bids[b.on].status = "Pending"
    \/ /\ b.op = "CreateOffer"
       /\ listings[b.on[1]] = "Active" /\ loads[b.on[2]].status = "Active"
       /\ \A c \in OffersTo(b.on[1], "Pending") : offers[c].load # b.on[2]
       /\ \E o \in Offers : offers[o].status = NoRow
    \/ b.op \in {"WithdrawOffer", "RejectOffer"} /\ offers[b.on].status = "Pending"
    \/ /\ b.op = "AcceptOffer" /\ offers[b.on].status = "Pending"
       /\ listings[offers[b.on].listing] = "Active"
       /\ loads[offers[b.on].load].status = "Active" /\ CanHold(offers[b.on].load)
    \/ b.op \in {"CancelListing", "AdminCancelListing"} /\ listings[b.on] = "Active"
    \/ b.op = "Pickup" /\ loads[b.on].driver # None /\ loads[b.on].status = "Assigned"
    \/ b.op = "Deliver" /\ Proven(b.on) /\ CanBeDelivered(b.on)
    \/ b.op = "AdminRelease" /\ payments[b.on].status = "Blocked" /\ CanRelease(payments[b.on].load)
    \/ /\ b.op = "AdminCancelLoad" /\ CanAdminCancel(b.on)
       /\ loads[b.on].status = "Assigned" /\ loads[b.on].driver # None => CanRefund(b.on)

Accepts(u, b) == IF b.op \in Writes THEN Ready(u, b) ELSE Allows(u, b)

-------------------------------------------------------------------------------
(* The screen. *)

Init0 ==
    /\ page = Closed /\ view = Empty /\ since = "nothing" /\ last = NoButton
    /\ presses = 0 /\ others = 0
    /\ qr = [l \in Loads |-> "none"]
    /\ near = [d \in Drivers |-> {}]
    /\ rated = {}

Open(g) ==
    /\ page = Closed
    /\ page' = g
    /\ view' = Looks(g)
    /\ UNCHANGED <<vars, since, last, presses, others, aside>>

Close ==
    /\ page # Closed
    /\ page' = Closed /\ view' = Empty /\ since' = "nothing" /\ last' = NoButton
    /\ presses' = 0 /\ others' = 0
    /\ UNCHANGED <<vars, aside>>

\* The rows after a page that was told "accepted" changed them itself.
Patched(b) ==
    CASE b.op = "WithdrawOffer" -> Withdrawn(view, b.on)
      [] b.op = "AcceptOffer" -> OfferAccepted(view, b.on)
      [] b.op = "RejectOffer" -> OfferRejected(view, b.on)
      [] b.op = "CancelListing" -> ListingCancelled(view, b.on)
      [] b.op = "AdminCancelListing" -> ListingTakenDown(view, b.on)
      [] b.op = "CancelBid" -> BidCancelled(view, b.on)
      [] b.op = "SubmitBid" ->
            LET k == CHOOSE k \in Bids : bids[k].status = NoRow /\ bids'[k].status # NoRow
            IN  BidSent(view, k, bids'[k])

\* The rows fetched again: the trip pages ask for the trip they show.
Again(g, v) == CASE g.on = "WebTrip" -> WebTripAgain(v)
                 [] g.on = "PhoneTrip" -> PhoneTripAgain(v)
                 [] OTHER -> Looks(g)

Gone == page' = Closed /\ view' = Empty /\ since' = "nothing" /\ last' = NoButton
        /\ presses' = 0 /\ others' = 0
Pressed(b) == page' = page /\ last' = b /\ presses' = presses + 1 /\ others' = others
Fresh == since' = "nothing" /\ \E v \in {view} : view' = Again(page, v)'
Behind == view' = view /\ since' = IF since = "others" THEN since ELSE "own"

\* The answer arrived: the page goes on as it is programmed to.
Answered(b) ==
    LET after == AfterTable[page.on][b.op]
    IN  \/ after \in {Leave, ReloadOrBlank} /\ Gone
        \/ after \in {Reload, ReloadOrBlank} /\ Pressed(b) /\ Fresh
        \/ after = Reload /\ Pressed(b) /\ Behind
        \/ after = Patch /\ Pressed(b) /\ view' = Patched(b) /\ since' = since
        \/ after = Stay /\ Pressed(b) /\ UNCHANGED <<view, since>>

\* A press the server refuses, or that never reaches it, changes nothing: the
\* page shows the error.  An answer that is lost looks the same to the page.
Press(b) ==
    /\ b \in Shows(page.on, view)
    /\ b.op \in Writes
    /\ presses < MaxPresses
    /\ Does(page.user, b)
    /\ Answered(b) \/ (Pressed(b) /\ Behind)
    /\ UNCHANGED aside

\* The code on a customer's page; it is valid for fifteen minutes.
ShowQr(b) ==
    /\ b \in Shows(page.on, view)
    /\ b.op = "ShowQr" /\ HasQr(b.on)
    /\ qr' = [qr EXCEPT ![b.on] = "valid"]
    /\ UNCHANGED <<vars, screen, near, rated>>

QrExpires(l) ==
    /\ qr[l] = "valid"
    /\ qr' = [qr EXCEPT ![l] = "none"]
    /\ UNCHANGED <<vars, screen, near, rated>>

\* LocationController.Update: the clients share positions during a trip.  A destination is
\* no longer edited then.
Moves(d) ==
    /\ Trips(d) # {}
    /\ \E ls \in SUBSET Loads : near' = [near EXCEPT ![d] = ls]
    /\ UNCHANGED <<vars, screen, qr, rated>>

\* Submit, from whichever of his pages a user rates, and an administrator's DeleteRating.
RateLoad(u, l) ==
    /\ MayRate(u, l)
    /\ rated' = rated \cup {<<u, l>>}
    /\ UNCHANGED <<vars, screen, qr, near>>

DeleteRating(r) ==
    /\ r \in rated
    /\ rated' = rated \ {r}
    /\ UNCHANGED <<vars, screen, qr, near>>

Becomes(status) == {l \in Loads : loads[l].status # status /\ loads'[l].status = status}

\* The other requests: a delivery takes its proofs, an arrival is a position near the destination.
World ==
    /\ Next
    /\ \A l \in Becomes("Delivered") : Proven(l)
    /\ IF Becomes("Arrived") = {} THEN near' = near
       ELSE \E d \in Drivers, ls \in SUBSET Loads :
                /\ \A l \in Becomes("Arrived") : loads[l].driver = d /\ l \in ls
                /\ near' = [near EXCEPT ![d] = ls]
    /\ UNCHANGED <<qr, rated>>

Meanwhile ==
    /\ World
    /\ \/ page = Closed /\ UNCHANGED screen
       \/ /\ page # Closed /\ others < MaxOthers
          /\ others' = others + 1 /\ since' = "others"
          /\ UNCHANGED <<page, view, last, presses>>

ScreenInit == Init /\ Init0
ScreenNext ==
    \/ \E g \in Pages : Open(g)
    \/ Close
    \/ \E b \in Shows(page.on, view) : Press(b) \/ ShowQr(b)
    \/ \E l \in Loads : QrExpires(l) \/ \E u \in Customers \cup Drivers : RateLoad(u, l)
    \/ \E r \in rated : DeleteRating(r)
    \/ \E d \in Drivers : Moves(d)
    \/ Meanwhile

ScreenSpec == ScreenInit /\ [][ScreenNext]_all

-------------------------------------------------------------------------------
\* Why the server would refuse a button ("no row left" is the bound of the model).
Refusals(u, b) ==
    CASE b.op = "AcceptBid" ->
            {r \in {"no row left"} : \A p \in Payments : payments[p].status # NoRow}
      [] b.op = "SubmitBid" ->
            {r \in {"closed", "bid before", "no row left"} :
                \/ r = "closed" /\ loads[b.on].status # "Active"
                \/ r = "no row left" /\ \A k \in Bids : bids[k].status # NoRow
                \/ r = "bid before" /\ \E k \in BidsBy(u) : bids[k].load = b.on}
      [] b.op = "AcceptOffer" ->
            {r \in {"closed", "no row left"} :
                \/ r = "closed" /\ loads[offers[b.on].load].status # "Active"
                \/ r = "no row left" /\ \A p \in Payments : payments[p].status # NoRow}
      [] b.op = "CreateOffer" ->
            {r \in {"offered before", "no row left"} :
                \/ r = "offered before"
                   /\ \E o \in OffersTo(b.on[1], "Pending") : offers[o].load = b.on[2]
                \/ r = "no row left" /\ \A o \in Offers : offers[o].status # NoRow}
      [] b.op = "AdminCancelLoad" ->
            {r \in {"under way", "over"} :
                \/ r = "under way" /\ loads[b.on].status \in {"OnWay", "Arrived"}
                \/ r = "over" /\ loads[b.on].status \in {"Delivered", "Cancelled"}}
      [] b.op = "Deliver" ->
            {r \in {"no code", "far away", "paid already"} :
                \/ r = "no code" /\ qr[b.on] # "valid"
                \/ r = "far away" /\ ~InPlace(loads[b.on].driver, b.on)
                \/ r = "paid already" /\ BlockedOn(b.on) = {}}
      [] b.op = "Rate" -> {r \in {"rated before"} : <<u, b.on>> \in rated}
      [] b.op = "Link" -> {r \in {"not yours"} : b.on \notin MayView(u)}
      [] OTHER -> {}

\* What each page does not look at before it shows a button.
Overlooks(on) ==
    CASE on \in {"WebTender", "PhoneTender"} -> {"closed", "bid before", "no row left"}
      [] on \in {"WebLoad", "PhoneLoad"} -> {"no row left", "rated before"}
      [] on \in {"WebBids", "PhoneBids"} -> {"no row left"}
      [] on = "WebListings" -> {"closed", "no row left"}
      [] on = "WebVehicles" -> {"offered before", "no row left"}
      [] on = "WebAdminLoads" -> {"under way", "over"}
      [] on = "WebAdminLoad" -> {"under way"}
      [] on = "WebTrip" -> {"no code", "far away", "paid already"}
      [] on = "PhoneTrip" -> {"no code", "far away", "paid already", "rated before"}
      [] on \in {"WebOwnBids", "PhoneOwnBids"} -> {"not yours"}
      [] OTHER -> {}

\* A page that shows the rows as they are shows no button the server would
\* refuse: a press is refused only for what has changed since, or for one of the
\* few reasons its page never looks at.
ButtonsHonoured ==
    since = "nothing" => \A b \in Shows(page.on, view) :
        Accepts(page.user, b) \/ Refusals(page.user, b) \cap Overlooks(page.on) # {}

\* As long as the server did nothing but what this page asked for and was told,
\* the page shows the buttons it would show if it were opened again: what pages
\* change in their own rows is what the server changed in its tables.
AsIfReopened ==
    since = "nothing" /\ page.on \notin {"Closed", "PhoneTripCrowded"} =>
        {b \in Shows(page.on, view) : b.op \in Writes}
            = {b \in Shows(page.on, Looks(page)) : b.op \in Writes}

AgreedPrice(b) == IF b.op = "AcceptBid" THEN bids[b.on].amount ELSE OfferedAmount(b.on)

\* Whoever accepts a bid or an offer agrees to the price his page shows, however
\* old the page is.  The exception is an offer that names no price: the load's
\* owner may have changed the price since.
ShownPriceAgreed ==
    \A b \in Shows(page.on, view) :
        b.op \in {"AcceptBid", "AcceptOffer"} /\ Accepts(page.user, b) =>
            \/ b.price = AgreedPrice(b)
            \/ b.op = "AcceptOffer" /\ offers[b.on].amount = None /\ since = "others"

\* A user whose answer was lost, or whose page could not be fetched again, and
\* who presses the same button once more changes nothing by it.
PressedTwice == [][since = "own" /\ Does(page.user, last) => UNCHANGED vars]_all

\* Both clients of a load's customer show him a delivery code.
CodeWithinReach(l) ==
    LET u == Owner[l]
    IN  /\ HasQr(l)
        /\ Button("ShowQr", l, None) \in WebLoadButtons(WebLoadLooks(u, l))
        /\ Button("ShowQr", l, None) \in PhoneLoadButtons(PhoneLoadLooks(u, l))

\* The page shows the request that is next, and nothing but the driver's proofs can be missing
\* from it: the money can be released, a code is there or can be shown to him, he is at the
\* place or the page can still share that he is.
LeadsOn(l, buttons, shared) ==
    \E b \in buttons :
        /\ b.on = l
        /\ \/ b.op = "Pickup" /\ Accepts(loads[l].driver, b)
           \/ /\ b.op = "Deliver" /\ CanBeDelivered(l)
              /\ qr[l] = "valid" \/ CodeWithinReach(l)
              /\ InPlace(loads[l].driver, l) \/ l \in shared

\* Whichever of his trips the server takes for a driver's current one, both trip pages, opened
\* afresh, lead on to its end, as long as its payment is held.  Exceptions:
\* - at the place of delivery (Arrived) no new code is given, though the comment on
\*   GetDeliveryQr says it is used there: without one of before the trip is stuck;
\* - there the phone shares no position any more either: who was elsewhere since, for another
\*   trip, cannot report his return on it;
\* - on a crowded board the phone does not find the trip: it looks at the first twenty loads.
TripGoesOn ==
    \A d \in Drivers : \A l \in Trips(d) : BlockedOn(l) # {} =>
        LET noCode == loads[l].status = "Arrived" /\ qr[l] # "valid"
            away == loads[l].status = "Arrived" /\ ~InPlace(d, l)
            web == WebTripLooks(d, l)
            phone == PhoneTripLooks(d, l, FALSE)       \* not crowded
        IN  /\ noCode \/ LeadsOn(l, WebTripButtons(web), WebTripShares(web))
            /\ noCode \/ away \/ LeadsOn(l, PhoneTripButtons(phone), PhoneTripShares(phone))
===============================================================================
