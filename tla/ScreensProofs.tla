---------------------------- MODULE ScreensProofs -----------------------------
(***************************************************************************)
(* A page patches its own rows after a request instead of fetching them    *)
(* again.  Proved here, for any number of loads, bids, listings, offers and *)
(* payments and any run of presses: as long as nobody else did anything, it *)
(* offers the requests it would offer if it were opened again; while it is up *)
(* to date it offers none in vain; however old it is, it shows the prices  *)
(* that are agreed to; a button pressed once more does nothing; and a trip *)
(* whose money is held can be carried to its end.                          *)
(***************************************************************************)
EXTENDS Screens, FreightProofs

\* A view has the five tables, each with some of the rows there can be.
GoodView(v) ==
    /\ v = [loads |-> v.loads, bids |-> v.bids, listings |-> v.listings,
            offers |-> v.offers, payments |-> v.payments]
    /\ DOMAIN v.loads \subseteq Loads
    /\ DOMAIN v.bids \subseteq Bids
    /\ DOMAIN v.listings \subseteq Listings
    /\ DOMAIN v.offers \subseteq Offers
    /\ DOMAIN v.payments \subseteq Payments

LEMMA SeesIsGood ==
    ASSUME NEW ls \in SUBSET Loads, NEW bs \in SUBSET Bids, NEW is \in SUBSET Listings,
           NEW os \in SUBSET Offers, NEW ps \in SUBSET Payments
    PROVE  GoodView(Sees(ls, bs, is, os, ps))
BY DEF GoodView, Sees, Restrict

LEMMA CustomerLooks ==
    ASSUME NEW g, g.on \in CustomerOnes \cup CustomerLoadOnes
    PROVE  GoodView(Looks(g))
<1>1. PICK ls \in SUBSET Loads, bs \in SUBSET Bids, is \in SUBSET Listings, os \in SUBSET Offers :
         Looks(g) = Sees(ls, bs, is, os, {})
  BY DEF CustomerOnes, CustomerLoadOnes, Looks, WebLoadLooks, PhoneLoadLooks, WebBidsLooks,
         PhoneBidsLooks, WebLoadsLooks, PhoneLoadsLooks, WebHomeLooks, PhoneHomeLooks,
         WebHistoryLooks, PhoneHistoryLooks, WebTrackLooks, WebVehiclesLooks, WebOffersLooks,
         LoadsOf, Stored, BidsFor, WithStatus, OffersAbout
<1> QED BY <1>1, SeesIsGood

LEMMA DriverLooks ==
    ASSUME TypeOK, NEW g, g.on \in DriverOnes \cup DriverLoadOnes
    PROVE  GoodView(Looks(g))
<1>1. CASE g.on = "WebListings"
  <2>. DEFINE mine == {i \in Listings : listings[i] # NoRow /\ ListingDriver[i] = g.user}
              offered == {offers[o].load : o \in OffersAt(mine)}
  <2>1. GoodView(Sees({}, {}, mine, OffersAt(mine), {}))
    BY SeesIsGood DEF OffersAt
  <2>2. offered \subseteq Loads
    BY DEF TypeOK, OfferRecord, OffersAt
  <2>3. Looks(g) = [Sees({}, {}, mine, OffersAt(mine), {}) EXCEPT
                      !.loads = [l \in offered |-> [price |-> loads[l].price]]]
    BY <1>1 DEF Looks, WebListingsLooks
  <2>. HIDE DEF mine, offered
  <2> QED BY <2>1, <2>2, <2>3 DEF GoodView
<1>2. CASE g.on # "WebListings"
  <2>1. PICK ls \in SUBSET Loads, bs \in SUBSET Bids : Looks(g) = Sees(ls, bs, {}, {}, {})
    BY <1>2 DEF DriverOnes, DriverLoadOnes, Looks, WebTenderLooks, PhoneTenderLooks,
         WebBoardLooks, PhoneBoardLooks, WebDriverHomeLooks, PhoneDriverHomeLooks,
         WebOwnBidsLooks, PhoneOwnBidsLooks, WebTripLooks, PhoneTripLooks,
         MayView, Stored, BidsBy, Board, Trips, WithStatus
  <2> QED BY <2>1, SeesIsGood
<1> QED BY <1>1, <1>2

LEMMA AdminLooks ==
    ASSUME NEW g, g.on \in AdminOnes \cup {"WebAdminLoad"}, g.load \in Loads \/ g.on # "WebAdminLoad"
    PROVE  GoodView(Looks(g))
<1>1. PICK ls \in SUBSET Loads, bs \in SUBSET Bids, is \in SUBSET Listings,
           os \in SUBSET Offers, ps \in SUBSET Payments : Looks(g) = Sees(ls, bs, is, os, ps)
  BY DEF AdminOnes, Looks, PhoneAdminLoadsLooks, WebAdminLoadsLooks, WebAdminLoadLooks,
         WebAdminPaymentsLooks, PhoneAdminPaymentsLooks, WebAdminListingsLooks,
         Stored, BidsFor, PaymentsOf, OffersAt
<1> QED BY <1>1, SeesIsGood

\* The pages by their names.
LEMMA PageNames ==
    \A g \in Pages :
        \/ g.on \in CustomerOnes \cup CustomerLoadOnes /\ g.user \in Customers
        \/ g.on \in DriverOnes \cup DriverLoadOnes /\ g.user \in Drivers
        \/ g.on \in AdminOnes
        \/ g.on = "WebAdminLoad" /\ g.load \in Loads
BY DEF Pages, Page

LEMMA LooksAreGood == TypeOK => \A g \in Pages \cup {Closed} : GoodView(Looks(g))
<1>1. GoodView(Looks(Closed))
  BY DEF GoodView, Looks, Closed, Empty
<1>2. ASSUME TypeOK, NEW g \in Pages PROVE GoodView(Looks(g))
  <2>1. CASE g.on \in CustomerOnes \cup CustomerLoadOnes
    BY <2>1, CustomerLooks
  <2>2. CASE g.on \in DriverOnes \cup DriverLoadOnes
    BY <1>2, <2>2, DriverLooks
  <2>3. CASE g.on \in AdminOnes
    <3>1. g.on # "WebAdminLoad"
      BY <2>3 DEF AdminOnes
    <3> QED BY <2>3, <3>1, AdminLooks
  <2>4. CASE g.on = "WebAdminLoad" /\ g.load \in Loads
    BY <2>4, AdminLooks
  <2> QED BY <2>1, <2>2, <2>3, <2>4, PageNames
<1> QED BY <1>1, <1>2

-------------------------------------------------------------------------------
(* The requests a page offers. *)

\* The rows a request names are rows there can be.
Addressed(b) ==
    \/ b.op \in {"AcceptBid", "CancelBid"} /\ b.on \in Bids
    \/ b.op \in {"CancelLoad", "AdminCancelLoad", "Pickup", "Deliver"} /\ b.on \in Loads
    \/ b.op = "SubmitBid" /\ b.on \in Loads /\ b.price \in Amounts
    \/ b.op = "CreateOffer" /\ b.on[1] \in Listings /\ b.on[2] \in Loads
       /\ b.price \in Amounts \cup {None}
    \/ b.op \in {"WithdrawOffer", "AcceptOffer", "RejectOffer"} /\ b.on \in Offers
    \/ b.op \in {"CancelListing", "AdminCancelListing"} /\ b.on \in Listings
    \/ b.op = "AdminRelease" /\ b.on \in Payments

\* The pages that do not fetch again after some of their requests.
Trusting == {"WebTender", "PhoneTender", "WebVehicles", "WebOffers", "WebListings",
             "WebAdminListings"}

LEMMA CustomerRequests ==
    ASSUME NEW v, GoodView(v), NEW on \in CustomerOnes \cup CustomerLoadOnes,
           NEW b \in Shows(on, v), b.op \in Writes
    PROVE  /\ Addressed(b) /\ b.op # "SubmitBid"
           /\ on \notin Trusting => AfterTable[on][b.op] \in {Reload, ReloadOrBlank, Leave}
           /\ on = "WebVehicles" => b.op = "CreateOffer" /\ AfterTable[on][b.op] = Stay
           /\ on = "WebOffers" => b.op = "WithdrawOffer" /\ AfterTable[on][b.op] = Patch
<1>1. CASE on \in {"WebLoad", "PhoneLoad"}
  BY <1>1 DEF Shows, Writes, Addressed, WebLoadButtons, PhoneLoadButtons, PhoneBidCard,
     Acceptances, OpenBids, BidsIn, LoadsIn, Withdrawable, UnderWay, HasDriver, Buttons, Button,
     Trusting, AfterTable, WebLoadAfter, PhoneLoadAfter, GoodView, Reload, ReloadOrBlank, Leave
<1>2. CASE on \in {"WebBids", "PhoneBids"}
  BY <1>2 DEF Shows, Writes, Addressed, WebBidsButtons, PhoneBidsButtons,
     Acceptances, OpenBids, BidsIn, LoadsIn, Button,
     Trusting, AfterTable, WebBidsAfter, PhoneBidsAfter, GoodView, Reload, ReloadOrBlank, Leave
<1>3. CASE on = "WebVehicles"
  BY <1>3 DEF Shows, Writes, Addressed, WebVehiclesButtons, Button,
     Trusting, AfterTable, WebVehiclesAfter, GoodView
<1>4. CASE on = "WebOffers"
  BY <1>4 DEF Shows, Writes, Addressed, WebOffersButtons, OffersIn, Buttons, Button,
     Trusting, AfterTable, WebOffersAfter, GoodView
<1>5. CASE on \in {"WebLoads", "PhoneLoads", "WebHome", "PhoneHome", "WebHistory",
                   "PhoneHistory", "WebTrack"}
  BY <1>5 DEF Shows, Writes, WebLoadsButtons, PhoneLoadsButtons, WebHomeButtons,
     PhoneHomeButtons, WebHistoryButtons, PhoneHistoryButtons, WebTrackButtons, Linked,
     Buttons, Button
<1> QED BY <1>1, <1>2, <1>3, <1>4, <1>5 DEF CustomerOnes, CustomerLoadOnes

LEMMA DriverRequests ==
    ASSUME NEW v, GoodView(v), NEW on \in (DriverOnes \cup DriverLoadOnes) \ {"PhoneTripCrowded"},
           NEW b \in Shows(on, v), b.op \in Writes
    PROVE  /\ Addressed(b)
           /\ on \notin Trusting => AfterTable[on][b.op] \in {Reload, ReloadOrBlank, Leave}
           /\ on \in {"WebTrip", "PhoneTrip"} =>
                b.op \in {"Pickup", "Deliver"} /\ b.on \in DOMAIN v.loads
           /\ on = "WebTender" => b.op = "SubmitBid" /\ AfterTable[on][b.op] = Stay
           /\ on = "PhoneTender" => b.op \in {"SubmitBid", "CancelBid"} /\ AfterTable[on][b.op] = Patch
           /\ on = "WebListings" =>
                /\ AfterTable[on][b.op] = Patch
                /\ \/ b.op \in {"AcceptOffer", "RejectOffer"} /\ b.on \in DOMAIN v.offers
                   \/ b.op = "CancelListing" /\ b.on \in DOMAIN v.listings
<1>1. CASE on = "WebTender"
  BY <1>1 DEF Shows, Writes, Addressed, WebTenderButtons, BidForms, Buttons, Button,
     Trusting, AfterTable, WebTenderAfter, GoodView, LoadsIn
<1>2. CASE on = "PhoneTender"
  BY <1>2 DEF Shows, Writes, Addressed, PhoneTenderButtons, OwnPending, BidsIn, BidForms,
     Buttons, Button, Trusting, AfterTable, PhoneTenderAfter, GoodView, LoadsIn
<1>3. CASE on \in {"WebTrip", "PhoneTrip"}
  BY <1>3 DEF Shows, Writes, Addressed, WebTripButtons, PhoneTripButtons, CanDeliver, Buttons,
     Button, LoadsIn, Trusting, AfterTable, WebTripAfter, PhoneTripAfter, GoodView, Reload
<1>4. CASE on = "WebListings"
  BY <1>4 DEF Shows, Writes, Addressed, WebListingsButtons, Answerable, OffersIn, ListingsIn,
     Buttons, Button, Trusting, AfterTable, WebListingsAfter, GoodView
<1>5. CASE on \in {"WebOwnBids", "PhoneOwnBids", "WebBoard", "PhoneBoard", "WebDriverHome",
                   "PhoneDriverHome"}
  BY <1>5 DEF Shows, Writes, WebOwnBidsButtons, PhoneOwnBidsButtons, WebBoardButtons,
     PhoneBoardButtons, WebDriverHomeButtons, PhoneDriverHomeButtons, Buttons, Button
<1> QED BY <1>1, <1>2, <1>3, <1>4, <1>5 DEF DriverOnes, DriverLoadOnes

LEMMA AdminRequests ==
    ASSUME NEW v, GoodView(v), NEW on \in AdminOnes \cup {"WebAdminLoad"},
           NEW b \in Shows(on, v), b.op \in Writes
    PROVE  /\ Addressed(b) /\ b.op # "SubmitBid"
           /\ on \notin Trusting => AfterTable[on][b.op] \in {Reload, ReloadOrBlank, Leave}
           /\ on = "WebAdminListings" =>
                /\ AfterTable[on][b.op] = Patch
                /\ b.op = "AdminCancelListing" /\ b.on \in DOMAIN v.listings
BY DEF AdminOnes, Shows, Writes, Addressed, PhoneAdminLoadsButtons, PhoneCancelLoad,
   WebAdminLoadsButtons, WebAdminLoadButtons, WebAdminPaymentsButtons, PhoneAdminPaymentsButtons,
   WebAdminListingsButtons, LoadsIn, PaymentsIn, ListingsIn, Buttons, Button, Trusting, AfterTable,
   PhoneAdminLoadsAfter, WebAdminLoadsAfter, WebAdminLoadAfter, WebAdminPaymentsAfter,
   PhoneAdminPaymentsAfter, WebAdminListingsAfter, GoodView, Reload, ReloadOrBlank

-------------------------------------------------------------------------------
(* What holds of the page that is open. *)

PendingRows(v) == [b \in BidsIn(v, {"Pending"}) |-> v.bids[b]]
TripRows(v) == [l \in LoadsIn(v, EscrowStates) |-> v.loads[l]]

\* Two views a page cannot tell apart by the requests it offers: the phone's bid
\* form forgets a bid that was cancelled, a trip page keeps a trip that is over.
Alike(on, v, w) ==
    CASE on = "PhoneTender" -> v.loads = w.loads /\ PendingRows(v) = PendingRows(w)
      [] on \in {"WebTrip", "PhoneTrip"} -> TripRows(v) = TripRows(w)
      [] OTHER -> v = w

\* A trip page shows no other load than its own, and no other driver's.
TripIsHis ==
    page.on \in {"WebTrip", "PhoneTrip"} => \A l \in DOMAIN view.loads :
        /\ l = page.load
        /\ loads[l].driver = page.user
        /\ loads[l].status \in EscrowStates \cup {"Delivered", "Cancelled"}

CrowdedIsEmpty == page.on = "PhoneTripCrowded" => DOMAIN view.loads = {}

Compared == since = "nothing" /\ page.on \notin {"Closed", "PhoneTripCrowded"}
UpToDate == Compared => Alike(page.on, view, Looks(page))

\* The inductive invariant behind AsIfReopened.
ScreenInv ==
    /\ TypeOK
    /\ page \in Pages \cup {Closed}
    /\ GoodView(view)
    /\ TripIsHis
    /\ CrowdedIsEmpty
    /\ UpToDate

\* Views a page cannot tell apart show the same requests.
LEMMA AlikeShowsAlike ==
    ASSUME NEW on, NEW v, NEW w, Alike(on, v, w)
    PROVE  {b \in Shows(on, v) : b.op \in Writes} = {b \in Shows(on, w) : b.op \in Writes}
<1>1. CASE on = "PhoneTender"
  <2>1. v.loads = w.loads /\ PendingRows(v) = PendingRows(w)
    BY <1>1 DEF Alike
  <2>2. BidsIn(v, {"Pending"}) = BidsIn(w, {"Pending"})
    BY <2>1 DEF PendingRows
  <2>3. \A b \in BidsIn(v, {"Pending"}) : v.bids[b] = w.bids[b]
    BY <2>1, <2>2 DEF PendingRows
  <2>4. OwnPending(v) = OwnPending(w)
    BY <2>1, <2>2, <2>3 DEF OwnPending
  <2>5. PhoneTenderButtons(v) = PhoneTenderButtons(w)
    BY <2>1, <2>4 DEF PhoneTenderButtons, BidForms, LoadsIn
  <2> QED BY <1>1, <2>5 DEF Shows
<1>2. CASE on \in {"WebTrip", "PhoneTrip"}
  <2>1. TripRows(v) = TripRows(w)
    BY <1>2 DEF Alike
  <2>2. LoadsIn(v, EscrowStates) = LoadsIn(w, EscrowStates)
    BY <2>1 DEF TripRows
  <2>3. \A l \in LoadsIn(v, EscrowStates) : v.loads[l] = w.loads[l]
    BY <2>1, <2>2 DEF TripRows
  <2>4. LoadsIn(v, {"Assigned"}) = LoadsIn(w, {"Assigned"}) /\ CanDeliver(v) = CanDeliver(w)
    BY <2>2, <2>3 DEF LoadsIn, EscrowStates, CanDeliver
  <2> QED BY <1>2, <2>4 DEF Shows, WebTripButtons, PhoneTripButtons, Buttons, Button, Writes
<1>3. CASE on \notin {"PhoneTender", "WebTrip", "PhoneTrip"}
  BY <1>3 DEF Alike
<1> QED BY <1>1, <1>2, <1>3

LEMMA AlikeItself == \A on, v : Alike(on, v, v)
BY DEF Alike

\* A press that the server carries out is a request of Freight.
LEMMA PressIsRequest ==
    ASSUME NEW u, NEW b, Addressed(b), b.op = "SubmitBid" => u \in Drivers, Does(u, b)
    PROVE  Next
BY DEF Does, Addressed, Next, LoadRequest, BidRequest, ListingRequest, OfferRequest

\* What a page would fetch depends on the tables and on the page alone.
LEMMA LooksSame ==
    ASSUME NEW g, UNCHANGED vars
    PROVE  Looks(g)' = Looks(g)
BY DEF vars, Looks, WebLoadLooks, PhoneLoadLooks, WebBidsLooks, PhoneBidsLooks, WebLoadsLooks,
   PhoneLoadsLooks, WebHomeLooks, PhoneHomeLooks, WebHistoryLooks, PhoneHistoryLooks,
   WebTrackLooks, WebVehiclesLooks, WebOffersLooks, WebTenderLooks, PhoneTenderLooks,
   WebBoardLooks, PhoneBoardLooks, WebDriverHomeLooks, PhoneDriverHomeLooks, WebOwnBidsLooks,
   PhoneOwnBidsLooks, WebTripLooks, PhoneTripLooks, WebListingsLooks, PhoneAdminLoadsLooks,
   WebAdminLoadsLooks, WebAdminLoadLooks, WebAdminPaymentsLooks, PhoneAdminPaymentsLooks,
   WebAdminListingsLooks, Sees, LoadsOf, Stored, BidsFor, BidsBy, OffersAbout, OffersAt,
   WithStatus, MayView, Trips, Board, PaymentsOf

\* The same page over the same tables.
LEMMA SamePage ==
    ASSUME ScreenInv, UNCHANGED <<vars, page, view, since>>
    PROVE  ScreenInv'
<1>1. TypeOK'
  BY DEF ScreenInv, TypeOK, vars
<1>2. Looks(page)' = Looks(page)
  BY LooksSame
<1>3. GoodView(view)' /\ TripIsHis' /\ CrowdedIsEmpty'
  BY DEF ScreenInv, GoodView, TripIsHis, CrowdedIsEmpty, vars
<1>4. UpToDate'
  BY <1>2 DEF ScreenInv, UpToDate, Compared
<1> QED BY <1>1, <1>3, <1>4 DEF ScreenInv

LEMMA TripStaysHis ==
    ASSUME TypeOK, Next, TripIsHis, page \in Pages \cup {Closed}, GoodView(view), page' = page,
           DOMAIN view'.loads \subseteq DOMAIN view.loads
    PROVE  TripIsHis'
<1>. SUFFICES ASSUME page.on \in {"WebTrip", "PhoneTrip"}, NEW l \in DOMAIN view'.loads
              PROVE  /\ l = page.load
                     /\ loads'[l].driver = page.user
                     /\ loads'[l].status \in EscrowStates \cup {"Delivered", "Cancelled"}
  BY DEF TripIsHis
<1>1. /\ l = page.load
      /\ loads[l].driver = page.user
      /\ loads[l].status \in EscrowStates \cup {"Delivered", "Cancelled"}
  BY DEF TripIsHis
<1>2. l \in Loads
  BY DEF GoodView
<1>3. LoadMoves(l)
  BY <1>2, LoadStep
<1> QED BY <1>1, <1>3 DEF LoadMoves, Created, Moved, GivenTo, EscrowStates, NoRow

LEMMA ClosedIsGood ==
    ASSUME TypeOK', Gone
    PROVE  ScreenInv'
<1>1. GoodView(view')
  BY DEF Gone, GoodView, Empty
<1> QED BY <1>1 DEF ScreenInv, Gone, Closed, TripIsHis, CrowdedIsEmpty, UpToDate, Compared

LEMMA OpenGood ==
    ASSUME ScreenInv, NEW g \in Pages, Open(g)
    PROVE  ScreenInv'
<1>1. TypeOK'
  BY DEF ScreenInv, TypeOK, Open, vars
<1>2. page' = g /\ view' = Looks(g) /\ Looks(g)' = Looks(g)
  BY LooksSame DEF Open
<1>3. GoodView(view')
  BY <1>2, LooksAreGood DEF ScreenInv
<1>4. TripIsHis'
  <2>. SUFFICES ASSUME g.on \in {"WebTrip", "PhoneTrip"}, NEW l \in DOMAIN view'.loads
                PROVE  /\ l = g.load
                       /\ loads'[l].driver = g.user
                       /\ loads'[l].status \in EscrowStates \cup {"Delivered", "Cancelled"}
    BY <1>2 DEF TripIsHis
  <2>1. view'.loads = Restrict(loads, {g.load} \cap Trips(g.user))
    BY <1>2 DEF Looks, WebTripLooks, PhoneTripLooks, Sees
  <2>2. l \in {g.load} \cap Trips(g.user)
    BY <2>1 DEF Restrict
  <2>3. loads' = loads
    BY DEF Open, vars
  <2> QED BY <2>2, <2>3 DEF Trips, WithStatus
<1>5. CrowdedIsEmpty'
  <2>. SUFFICES ASSUME g.on = "PhoneTripCrowded" PROVE DOMAIN view'.loads = {}
    BY <1>2 DEF CrowdedIsEmpty
  <2> QED BY <1>2 DEF Looks, PhoneTripLooks, Sees, Restrict
<1>6. UpToDate'
  BY <1>2, AlikeItself DEF UpToDate
<1> QED BY <1>1, <1>2, <1>3, <1>4, <1>5, <1>6 DEF ScreenInv

\* Other requests make the page out of date, which UpToDate does not speak of.
LEMMA MeanwhileGood ==
    ASSUME ScreenInv, Meanwhile
    PROVE  ScreenInv'
<1>1. Next /\ view' = view /\ page' = page
  BY DEF Meanwhile, World, screen
<1>2. TypeOK'
  BY <1>1, NextType DEF ScreenInv
<1>3. TripIsHis'
  BY <1>1, TripStaysHis DEF ScreenInv
<1>4. GoodView(view)' /\ CrowdedIsEmpty'
  BY <1>1 DEF ScreenInv, GoodView, CrowdedIsEmpty
<1>5. ~Compared'
  BY DEF Meanwhile, Compared, screen, Closed
<1> QED BY <1>1, <1>2, <1>3, <1>4, <1>5 DEF ScreenInv, UpToDate

-------------------------------------------------------------------------------
(* A press. *)

\* A page whose answer was lost is behind, which UpToDate does not speak of.
LEMMA BehindGood ==
    ASSUME ScreenInv, Next, TypeOK', page' = page, Behind
    PROVE  ScreenInv'
<1>1. TripIsHis'
  BY TripStaysHis DEF ScreenInv, Behind
<1>2. GoodView(view)' /\ CrowdedIsEmpty'
  BY DEF ScreenInv, GoodView, CrowdedIsEmpty, Behind
<1>3. ~Compared'
  BY DEF Behind, Compared
<1> QED BY <1>1, <1>2, <1>3 DEF ScreenInv, UpToDate

\* A trip page that fetches again asks for the trip it shows, not for the trips there are.
LEMMA TripAgain ==
    ASSUME TypeOK', page.on \in {"WebTrip", "PhoneTrip"}, page' = page,
           page.load \in DOMAIN view.loads, GoodView(view), TripIsHis,
           \A l \in DOMAIN view.loads :
               /\ loads'[l].driver = page.user
               /\ loads'[l].status \in EscrowStates \cup {"Delivered", "Cancelled"},
           Fresh
    PROVE  /\ GoodView(view')
           /\ DOMAIN view'.loads \subseteq DOMAIN view.loads
           /\ TripRows(view') = TripRows(Looks(page)')
<1>. DEFINE l == page.load
            kept == {k \in {l} : loads'[k].status \in EscrowStates \cup {"Delivered"}}
<1>1. DOMAIN view.loads = {l} /\ l \in Loads
  BY DEF TripIsHis, GoodView
<1>2. PICK shown \in SUBSET {l} :
         /\ view' = [loads |-> Restrict(loads', shown), bids |-> Restrict(bids', {}),
                     listings |-> Restrict(listings', {}), offers |-> Restrict(offers', {}),
                     payments |-> Restrict(payments', {})]
         /\ kept \subseteq shown
  <2>1. CASE page.on = "WebTrip"
    <3>1. view' = [loads |-> Restrict(loads', kept), bids |-> Restrict(bids', {}),
                   listings |-> Restrict(listings', {}), offers |-> Restrict(offers', {}),
                   payments |-> Restrict(payments', {})]
      BY <1>1, <2>1 DEF Fresh, Again, WebTripAgain, Sees, WithStatus
    <3> QED BY <3>1
  <2>2. CASE page.on = "PhoneTrip"
    <3>1. view' = [loads |-> Restrict(loads', {l}), bids |-> Restrict(bids', {}),
                   listings |-> Restrict(listings', {}), offers |-> Restrict(offers', {}),
                   payments |-> Restrict(payments', {})]
      BY <1>1, <2>2 DEF Fresh, Again, PhoneTripAgain, Sees
    <3> QED BY <3>1
  <2> QED BY <2>1, <2>2
<1>3. GoodView(view') /\ DOMAIN view'.loads \subseteq DOMAIN view.loads
  BY <1>1, <1>2 DEF GoodView, Restrict
<1>4. PICK now \in SUBSET {l} :
         /\ Looks(page)'.loads = Restrict(loads', now)
         /\ now = {k \in {l} : loads'[k].status \in EscrowStates}
  <2>1. {l} \cap Trips(page.user)' = {k \in {l} : loads'[k].status \in EscrowStates}
    BY <1>1 DEF Trips, WithStatus, Stored, EscrowStates, NoRow
  <2>2. Looks(page)'.loads = Restrict(loads', {l} \cap Trips(page.user)')
    BY DEF Looks, WebTripLooks, PhoneTripLooks, Sees
  <2> QED BY <2>1, <2>2
<1>. HIDE DEF l, kept
<1>5. LoadsIn(view', EscrowStates) = now
  BY <1>2, <1>4 DEF LoadsIn, Restrict, kept
<1>6. LoadsIn(Looks(page)', EscrowStates) = now
  BY <1>4 DEF LoadsIn, Restrict
<1>7. \A k \in now : view'.loads[k] = loads'[k] /\ Looks(page)'.loads[k] = loads'[k]
  BY <1>2, <1>4 DEF Restrict, kept
<1> QED BY <1>3, <1>5, <1>6, <1>7 DEF TripRows

LEMMA FreshGood ==
    ASSUME ScreenInv, Next, TypeOK', page' = page, Fresh, page # Closed,
           page.on # "PhoneTripCrowded",
           page.on \in {"WebTrip", "PhoneTrip"} => page.load \in DOMAIN view.loads
    PROVE  ScreenInv'
<1>1. CASE page.on \notin {"WebTrip", "PhoneTrip"}
  <2>1. view' = Looks(page)'
    BY <1>1 DEF Fresh, Again
  <2>2. (TypeOK => \A g \in Pages \cup {Closed} : GoodView(Looks(g)))'
    BY LooksAreGood, PTL
  <2>3. GoodView(view)'
    BY <2>1, <2>2 DEF ScreenInv
  <2>4. TripIsHis' /\ CrowdedIsEmpty'
    BY <1>1 DEF TripIsHis, CrowdedIsEmpty
  <2>5. Alike(page.on, view, Looks(page))'
    BY <2>1, AlikeItself
  <2> QED BY <2>3, <2>4, <2>5 DEF ScreenInv, UpToDate
<1>2. CASE page.on \in {"WebTrip", "PhoneTrip"}
  <2>1. DOMAIN view.loads \subseteq DOMAIN view.loads /\ TripIsHis /\ GoodView(view)
    BY DEF ScreenInv
  <2>2. ASSUME NEW l \in DOMAIN view.loads
        PROVE  /\ loads'[l].driver = page.user
               /\ loads'[l].status \in EscrowStates \cup {"Delivered", "Cancelled"}
    <3>1. LoadMoves(l)
      BY <2>1, LoadStep DEF ScreenInv, GoodView
    <3>2. /\ loads[l].driver = page.user
          /\ loads[l].status \in EscrowStates \cup {"Delivered", "Cancelled"}
      BY <1>2, <2>1 DEF TripIsHis
    <3> QED BY <3>1, <3>2 DEF LoadMoves, Created, Moved, GivenTo, EscrowStates, NoRow
  <2>3. /\ GoodView(view')
        /\ DOMAIN view'.loads \subseteq DOMAIN view.loads
        /\ TripRows(view') = TripRows(Looks(page)')
    BY <1>2, <2>1, <2>2, TripAgain
  <2>4. TripIsHis'
    BY <2>3, TripStaysHis DEF ScreenInv
  <2>5. Alike(page.on, view, Looks(page))'
    BY <1>2, <2>3 DEF Alike
  <2> QED BY <1>2, <2>3, <2>4, <2>5 DEF ScreenInv, UpToDate, CrowdedIsEmpty
<1> QED BY <1>1, <1>2

-------------------------------------------------------------------------------
(* What a page changes in its own rows is what the server changes in its tables. *)

LEMMA OffersShownGood ==
    ASSUME NEW v, GoodView(v), NEW f
    PROVE  /\ GoodView(OffersShown(v, f))
           /\ OffersShown(v, f).loads = v.loads
           /\ OffersShown(v, f).bids = v.bids
           /\ OffersShown(v, f).listings = v.listings
           /\ OffersShown(v, f).payments = v.payments
BY DEF GoodView, OffersShown

LEMMA ListingShownGood ==
    ASSUME NEW v, GoodView(v), NEW i, NEW status
    PROVE  /\ GoodView(ListingShown(v, i, status))
           /\ ListingShown(v, i, status).loads = v.loads
           /\ ListingShown(v, i, status).bids = v.bids
           /\ ListingShown(v, i, status).listings = [v.listings EXCEPT ![i] = status]
           /\ ListingShown(v, i, status).offers = v.offers
           /\ ListingShown(v, i, status).payments = v.payments
BY DEF GoodView, ListingShown

\* Two views with the same tables are the same.
LEMMA SameView ==
    ASSUME NEW v, NEW w, GoodView(v), GoodView(w), v.loads = w.loads, v.bids = w.bids,
           v.listings = w.listings, v.offers = w.offers, v.payments = w.payments
    PROVE  v = w
BY DEF GoodView

\* The server gives the offers in S the statuses f says, and leaves the others.
Answer(S, f) ==
    \A p \in S : offers'[p] = IF p \in DOMAIN f THEN [offers[p] EXCEPT !.status = f[p]] ELSE offers[p]

\* A page that gives its offers the statuses the server gave them shows them as they are.
LEMMA OffersMatch ==
    ASSUME NEW v, GoodView(v), NEW S, v.offers = Restrict(offers, S), NEW f, Answer(S, f)
    PROVE  OffersShown(v, f).offers = Restrict(offers', S)
<1>1. DOMAIN v.offers = S /\ \A p \in S : v.offers[p] = offers[p]
  BY DEF Restrict
<1>2. OffersShown(v, f).offers =
        [p \in S |-> IF p \in DOMAIN f THEN [v.offers[p] EXCEPT !.status = f[p]] ELSE v.offers[p]]
  BY <1>1 DEF OffersShown, GoodView
<1> QED BY <1>1, <1>2 DEF Restrict, Answer

\* ListingOffers.tsx sets the offer it withdrew to Withdrawn.
LEMMA WithdrawnShown ==
    ASSUME TypeOK, TypeOK', NEW u, NEW o \in Offers, WithdrawOffer(o), NEW v, v = WebOffersLooks(u)
    PROVE  Withdrawn(v, o) = WebOffersLooks(u)'
<1>1. /\ offers[o].status = "Pending"
      /\ offers' = [offers EXCEPT ![o].status = "Withdrawn"]
      /\ loads' = loads /\ bids' = bids /\ listings' = listings
  BY DEF WithdrawOffer, CloseOffer
<1>. DEFINE shown == OffersAbout(LoadsOf(u))
<1>2. shown' = shown
  BY <1>1 DEF OffersAbout, LoadsOf, Stored, TypeOK, OfferRecord, NoRow
<1>3. shown \subseteq Offers
  BY DEF OffersAbout
<1>4. \A p \in shown : offers'[p] = IF p \in {o} THEN [offers[p] EXCEPT !.status = "Withdrawn"]
                                    ELSE offers[p]
  BY <1>1, <1>3 DEF TypeOK
<1>. HIDE DEF shown
<1>5. v = Sees({}, {}, {}, shown, {})
  BY DEF WebOffersLooks, shown
<1>6. GoodView(v) /\ v.offers = Restrict(offers, shown)
  BY <1>3, <1>5, SeesIsGood DEF Sees
<1>. DEFINE f == [p \in {o} |-> "Withdrawn"]
<1>7. Answer(shown, f)
  BY <1>4 DEF Answer
<1>. HIDE DEF f
<1>8. OffersShown(v, f).offers = Restrict(offers', shown)
  BY <1>6, <1>7, OffersMatch
<1>9. /\ GoodView(OffersShown(v, f))
      /\ OffersShown(v, f).loads = v.loads
      /\ OffersShown(v, f).bids = v.bids
      /\ OffersShown(v, f).listings = v.listings
      /\ OffersShown(v, f).payments = v.payments
  BY <1>6, OffersShownGood
<1>10. /\ v.loads = Restrict(loads', {}) /\ v.bids = Restrict(bids', {})
       /\ v.listings = Restrict(listings', {}) /\ v.payments = Restrict(payments', {})
  BY <1>5 DEF Sees, Restrict
<1>11. WebOffersLooks(u)' =
        [loads |-> Restrict(loads', {}), bids |-> Restrict(bids', {}),
         listings |-> Restrict(listings', {}), offers |-> Restrict(offers', shown),
         payments |-> Restrict(payments', {})]
  BY <1>2 DEF Sees, WebOffersLooks, shown
<1> QED BY <1>8, <1>9, <1>10, <1>11 DEF Withdrawn, GoodView, f

\* The rows of the driver's page of vehicles: which there are changes by no answer.
Mine(d) == {i \in Listings : listings[i] # NoRow /\ ListingDriver[i] = d}
Offered(d) == {offers[o].load : o \in OffersAt(Mine(d))}

LEMMA ListingsLook ==
    ASSUME TypeOK, NEW d
    PROVE  /\ GoodView(WebListingsLooks(d))
           /\ WebListingsLooks(d).loads = [l \in Offered(d) |-> [price |-> loads[l].price]]
           /\ WebListingsLooks(d).bids = Restrict(bids, {})
           /\ WebListingsLooks(d).listings = Restrict(listings, Mine(d))
           /\ WebListingsLooks(d).offers = Restrict(offers, OffersAt(Mine(d)))
           /\ WebListingsLooks(d).payments = Restrict(payments, {})
<1>1. Offered(d) \subseteq Loads /\ Mine(d) \subseteq Listings /\ OffersAt(Mine(d)) \subseteq Offers
  BY DEF Offered, Mine, OffersAt, TypeOK, OfferRecord
<1>2. WebListingsLooks(d) =
        [Sees({}, {}, Mine(d), OffersAt(Mine(d)), {}) EXCEPT
            !.loads = [l \in Offered(d) |-> [price |-> loads[l].price]]]
  BY DEF WebListingsLooks, Mine, Offered
<1>3. GoodView(Sees({}, {}, Mine(d), OffersAt(Mine(d)), {}))
  BY <1>1, SeesIsGood
<1> QED BY <1>1, <1>2, <1>3 DEF GoodView, Sees

\* What an answer to an offer leaves as it is.
AnswerKeeps(d) ==
    /\ Mine(d)' = Mine(d)
    /\ OffersAt(Mine(d))' = OffersAt(Mine(d))
    /\ Offered(d)' = Offered(d)
    /\ \A l \in Offered(d) : loads'[l].price = loads[l].price

LEMMA AnswerKeepsRows ==
    ASSUME TypeOK, NEW d,
           \A o \in Offers : /\ offers[o].status = NoRow => offers'[o] = offers[o]
                             /\ offers[o].status # NoRow =>
                                  \E st \in OfferStatus : offers'[o] = [offers[o] EXCEPT !.status = st],
           \A i \in Listings : listings[i] = NoRow <=> listings'[i] = NoRow,
           \A l \in Loads : loads'[l].price = loads[l].price
    PROVE  AnswerKeeps(d)
<1>1. Mine(d)' = Mine(d)
  BY DEF Mine
<1>2. \A o \in Offers : /\ offers'[o].status = NoRow <=> offers[o].status = NoRow
                        /\ offers[o].status # NoRow =>
                              /\ offers'[o].listing = offers[o].listing
                              /\ offers'[o].load = offers[o].load
  <2>. SUFFICES ASSUME NEW o \in Offers, offers[o].status # NoRow
                PROVE  /\ offers'[o].status # NoRow
                       /\ offers'[o].listing = offers[o].listing
                       /\ offers'[o].load = offers[o].load
    OBVIOUS
  <2>1. PICK st \in OfferStatus : offers'[o] = [offers[o] EXCEPT !.status = st]
    OBVIOUS
  <2>2. offers[o] \in [status : OfferStatus, listing : Listings, load : Loads,
                       amount : Amounts \cup {None}]
    BY DEF TypeOK, OfferRecord
  <2>3. st # NoRow
    BY DEF OfferStatus, NoRow
  <2> QED BY <2>1, <2>2, <2>3
<1>3. OffersAt(Mine(d))' = OffersAt(Mine(d))
  BY <1>1, <1>2 DEF OffersAt
<1>4. Offered(d)' = Offered(d)
  BY <1>2, <1>3 DEF Offered, OffersAt
<1>5. Offered(d) \subseteq Loads
  BY DEF Offered, OffersAt, TypeOK, OfferRecord
<1> QED BY <1>1, <1>3, <1>4, <1>5 DEF AnswerKeeps

LEMMA ListingsFollow ==
    ASSUME TypeOK, TypeOK', NEW d, AnswerKeeps(d), NEW v, v = WebListingsLooks(d),
           NEW w, GoodView(w), w.loads = v.loads, w.bids = v.bids, w.payments = v.payments,
           w.listings = Restrict(listings', Mine(d)),
           w.offers = Restrict(offers', OffersAt(Mine(d)))
    PROVE  w = WebListingsLooks(d)'
<1>1. (TypeOK => /\ GoodView(WebListingsLooks(d))
                 /\ WebListingsLooks(d).loads = [l \in Offered(d) |-> [price |-> loads[l].price]]
                 /\ WebListingsLooks(d).bids = Restrict(bids, {})
                 /\ WebListingsLooks(d).listings = Restrict(listings, Mine(d))
                 /\ WebListingsLooks(d).offers = Restrict(offers, OffersAt(Mine(d)))
                 /\ WebListingsLooks(d).payments = Restrict(payments, {}))'
  BY ListingsLook, PTL
<1>. DEFINE x == WebListingsLooks(d)'
<1>2. /\ GoodView(x)
      /\ x.loads = [l \in Offered(d)' |-> [price |-> loads'[l].price]]
      /\ x.bids = Restrict(bids', {})
      /\ x.listings = Restrict(listings', Mine(d)')
      /\ x.offers = Restrict(offers', OffersAt(Mine(d))')
      /\ x.payments = Restrict(payments', {})
  BY <1>1
<1>. HIDE DEF x
<1>3. /\ v.loads = [l \in Offered(d) |-> [price |-> loads[l].price]]
      /\ v.bids = Restrict(bids, {})
      /\ v.payments = Restrict(payments, {})
  BY ListingsLook
<1>4. x.loads = w.loads
  BY <1>2, <1>3 DEF AnswerKeeps
<1>5. x.bids = w.bids /\ x.payments = w.payments
  BY <1>2, <1>3 DEF Restrict
<1>6. x.listings = w.listings /\ x.offers = w.offers
  BY <1>2 DEF AnswerKeeps
<1>7. w = x
  BY <1>2, <1>4, <1>5, <1>6 DEF GoodView
<1> QED BY <1>7 DEF x

LEMMA StatusKept ==
    ASSUME TypeOK, NEW p \in Offers, offers[p].status # NoRow
    PROVE  \E st \in OfferStatus : offers[p] = [offers[p] EXCEPT !.status = st]
<1>1. offers[p] \in [status : OfferStatus, listing : Listings, load : Loads,
                     amount : Amounts \cup {None}]
  BY DEF TypeOK, OfferRecord
<1>2. offers[p] = [offers[p] EXCEPT !.status = offers[p].status]
  BY <1>1
<1> QED BY <1>1, <1>2

LEMMA CancelledShown ==
    ASSUME TypeOK, TypeOK', NEW d, NEW i \in Listings, CancelListing(i),
           NEW v, v = WebListingsLooks(d), i \in DOMAIN v.listings
    PROVE  ListingCancelled(v, i) = WebListingsLooks(d)'
<1>1. /\ listings' = [listings EXCEPT ![i] = "Cancelled"]
      /\ listings[i] = "Active"
      /\ loads' = loads /\ offers' = offers
  BY DEF CancelListing
<1>2. AnswerKeeps(d)
  <2>1. \A k \in Listings : listings[k] = NoRow <=> listings'[k] = NoRow
    BY <1>1 DEF TypeOK, NoRow
  <2>2. Mine(d)' = Mine(d)
    BY <2>1 DEF Mine
  <2> QED BY <1>1, <2>2 DEF AnswerKeeps, OffersAt, Offered
<1>3. GoodView(v) /\ v.listings = Restrict(listings, Mine(d))
      /\ v.offers = Restrict(offers, OffersAt(Mine(d)))
  BY ListingsLook
<1>. DEFINE w == ListingCancelled(v, i)
<1>4. /\ GoodView(w) /\ w.loads = v.loads /\ w.bids = v.bids /\ w.payments = v.payments
      /\ w.offers = v.offers
      /\ w.listings = [v.listings EXCEPT ![i] = "Cancelled"]
  BY <1>3, ListingShownGood DEF ListingCancelled
<1>5. Mine(d) \subseteq Listings
  BY DEF Mine
<1>6. w.listings = Restrict(listings', Mine(d))
  BY <1>1, <1>3, <1>4, <1>5 DEF Restrict, TypeOK
<1>7. w.offers = Restrict(offers', OffersAt(Mine(d)))
  BY <1>1, <1>3, <1>4
<1>. HIDE DEF w
<1>8. w = WebListingsLooks(d)'
  BY <1>2, <1>4, <1>6, <1>7, ListingsFollow
<1> QED BY <1>8 DEF w

LEMMA RejectedShown ==
    ASSUME TypeOK, TypeOK', NEW d, NEW o \in Offers, RejectOffer(o),
           NEW v, v = WebListingsLooks(d)
    PROVE  OfferRejected(v, o) = WebListingsLooks(d)'
<1>1. /\ offers[o].status = "Pending"
      /\ offers' = [offers EXCEPT ![o].status = "Rejected"]
      /\ loads' = loads /\ listings' = listings
  BY DEF RejectOffer, CloseOffer
<1>2. \A p \in Offers : offers'[p] = IF p \in {o} THEN [offers[p] EXCEPT !.status = "Rejected"]
                                     ELSE offers[p]
  BY <1>1 DEF TypeOK
<1>3. AnswerKeeps(d)
  <2>1. \A p \in Offers : /\ offers[p].status = NoRow => offers'[p] = offers[p]
                          /\ offers[p].status # NoRow =>
                                \E st \in OfferStatus : offers'[p] = [offers[p] EXCEPT !.status = st]
    BY <1>1, <1>2, StatusKept DEF OfferStatus, NoRow
  <2>2. /\ \A k \in Listings : listings[k] = NoRow <=> listings'[k] = NoRow
        /\ \A k \in Loads : loads'[k].price = loads[k].price
    BY <1>1
  <2> QED BY <2>1, <2>2, AnswerKeepsRows
<1>4. GoodView(v) /\ v.listings = Restrict(listings, Mine(d))
      /\ v.offers = Restrict(offers, OffersAt(Mine(d)))
  BY ListingsLook
<1>. DEFINE f == [p \in {o} |-> "Rejected"]
<1>5. Answer(OffersAt(Mine(d)), f)
  BY <1>2 DEF OffersAt, Answer
<1>. HIDE DEF f
<1>. DEFINE w == OffersShown(v, f)
<1>6. /\ GoodView(w) /\ w.loads = v.loads /\ w.bids = v.bids /\ w.payments = v.payments
      /\ w.listings = v.listings
  BY <1>4, OffersShownGood
<1>7. w.offers = Restrict(offers', OffersAt(Mine(d)))
  BY <1>4, <1>5, OffersMatch
<1>8. w.listings = Restrict(listings', Mine(d))
  BY <1>1, <1>4, <1>6
<1>. HIDE DEF w
<1>9. w = WebListingsLooks(d)'
  BY <1>3, <1>6, <1>7, <1>8, ListingsFollow
<1> QED BY <1>9 DEF w, f, OfferRejected

\* Listings.tsx accepts one offer and rejects the others of the same vehicle, as
\* AcceptOfferAsync does.
LEMMA AcceptedShown ==
    ASSUME TypeOK, TypeOK', NEW d, NEW o \in Offers, AcceptOffer(o),
           NEW v, v = WebListingsLooks(d), o \in DOMAIN v.offers
    PROVE  OfferAccepted(v, o) = WebListingsLooks(d)'
<1>. DEFINE i == offers[o].listing
            l == offers[o].load
            rivals == OffersTo(i, "Pending")
            seen == OffersAt(Mine(d))
<1>1. /\ offers[o].status = "Pending"
      /\ listings[i] = "Active"
      /\ loads' = Assigned(l, ListingDriver[i])
      /\ listings' = [listings EXCEPT ![i] = "Matched"]
      /\ offers' = [RejectedOffers(rivals) EXCEPT ![o].status = "Accepted"]
  BY DEF AcceptOffer
<1>2. offers[o] \in [status : OfferStatus, listing : Listings, load : Loads,
                     amount : Amounts \cup {None}]
  BY <1>1 DEF TypeOK, OfferRecord, NoRow
<1>3. i \in Listings /\ l \in Loads /\ o \in rivals
  BY <1>1, <1>2 DEF OffersTo
<1>4. GoodView(v) /\ v.listings = Restrict(listings, Mine(d)) /\ v.offers = Restrict(offers, seen)
  BY ListingsLook
<1>5. o \in seen /\ seen \subseteq Offers /\ i \in Mine(d) /\ Mine(d) \subseteq Listings
  BY <1>4 DEF Restrict, OffersAt, Mine
<1>6. \A p \in Offers : offers'[p] = IF p = o THEN [offers[p] EXCEPT !.status = "Accepted"]
                                     ELSE IF p \in rivals THEN [offers[p] EXCEPT !.status = "Rejected"]
                                     ELSE offers[p]
  <2>1. [[offers[o] EXCEPT !.status = "Rejected"] EXCEPT !.status = "Accepted"]
          = [offers[o] EXCEPT !.status = "Accepted"]
    BY <1>2
  <2>2. offers'[o] = [offers[o] EXCEPT !.status = "Accepted"]
    BY <1>1, <1>3, <2>1 DEF RejectedOffers
  <2>3. \A p \in Offers \ {o} : offers'[p] = RejectedOffers(rivals)[p]
    BY <1>1 DEF RejectedOffers
  <2> QED BY <2>2, <2>3 DEF RejectedOffers
<1>7. \A k \in Loads : loads'[k].price = loads[k].price
  BY <1>1, <1>3 DEF Assigned, TypeOK, LoadRecord
<1>. HIDE DEF i, l, rivals, seen
<1>8. AnswerKeeps(d)
  <2>1. \A k \in Listings : listings[k] = NoRow <=> listings'[k] = NoRow
    BY <1>1, <1>3 DEF TypeOK, NoRow
  <2>2. \A p \in rivals : offers[p].status # NoRow
    BY DEF rivals, OffersTo, NoRow
  <2>3. \A p \in Offers : /\ offers[p].status = NoRow => offers'[p] = offers[p]
                          /\ offers[p].status # NoRow =>
                                \E st \in OfferStatus : offers'[p] = [offers[p] EXCEPT !.status = st]
    <3>. SUFFICES ASSUME NEW p \in Offers
                  PROVE  /\ offers[p].status = NoRow => offers'[p] = offers[p]
                         /\ offers[p].status # NoRow =>
                               \E st \in OfferStatus : offers'[p] = [offers[p] EXCEPT !.status = st]
      OBVIOUS
    <3>1. CASE p = o
      BY <1>1, <1>6, <3>1 DEF OfferStatus, NoRow
    <3>2. CASE p # o /\ p \in rivals
      BY <1>6, <2>2, <3>2 DEF OfferStatus
    <3>3. CASE p # o /\ p \notin rivals
      <4>1. offers'[p] = offers[p]
        BY <1>6, <3>3
      <4> QED BY <4>1, StatusKept
    <3> QED BY <3>1, <3>2, <3>3
  <2> QED BY <1>7, <2>1, <2>3, AnswerKeepsRows
<1>. DEFINE noticed == {p \in OffersIn(v, {"Pending"}) : v.offers[p].listing = v.offers[o].listing}
            f == [p \in {o} \cup noticed |-> IF p = o THEN "Accepted" ELSE "Rejected"]
<1>9. \A p \in seen : p \in noticed <=> p \in rivals
  BY <1>4, <1>5 DEF OffersIn, OffersTo, Restrict, rivals, i
<1>10. v.offers[o].listing = i
  BY <1>4, <1>5 DEF Restrict, i
<1>11. Answer(seen, f)
  BY <1>5, <1>6, <1>9 DEF Answer
<1>. HIDE DEF noticed, f
<1>12. /\ GoodView(OffersShown(v, f)) /\ OffersShown(v, f).loads = v.loads
       /\ OffersShown(v, f).bids = v.bids /\ OffersShown(v, f).payments = v.payments
       /\ OffersShown(v, f).listings = v.listings
  BY <1>4, OffersShownGood
<1>13. OffersShown(v, f).offers = Restrict(offers', seen)
  BY <1>4, <1>11, OffersMatch
<1>. DEFINE w == ListingShown(OffersShown(v, f), v.offers[o].listing, "Matched")
<1>14. /\ GoodView(w) /\ w.loads = v.loads /\ w.bids = v.bids /\ w.payments = v.payments
       /\ w.offers = Restrict(offers', seen)
       /\ w.listings = [v.listings EXCEPT ![i] = "Matched"]
  BY <1>10, <1>12, <1>13, ListingShownGood
<1>15. w.listings = Restrict(listings', Mine(d))
  BY <1>1, <1>4, <1>5, <1>14 DEF Restrict, TypeOK
<1>. HIDE DEF w
<1>16. w = WebListingsLooks(d)'
  BY <1>8, <1>14, <1>15, ListingsFollow DEF seen
<1> QED BY <1>16 DEF w, f, noticed, OfferAccepted

\* Admin Listings.tsx takes a listing down and rejects the offers about it that it has
\* fetched, as AdminController does with all that are pending.
LEMMA TakenDownShown ==
    ASSUME TypeOK, TypeOK', NEW i \in Listings, AdminCancelListing(i),
           NEW v, v = WebAdminListingsLooks, i \in DOMAIN v.listings
    PROVE  ListingTakenDown(v, i) = WebAdminListingsLooks'
<1>. DEFINE every == {k \in Listings : listings[k] # NoRow}
            seen == OffersAt(every)
            rivals == OffersTo(i, "Pending")
<1>1. /\ listings[i] = "Active"
      /\ listings' = [listings EXCEPT ![i] = "Cancelled"]
      /\ offers' = RejectedOffers(rivals)
      /\ loads' = loads
  BY DEF AdminCancelListing
<1>2. \A p \in Offers : offers'[p] = IF p \in rivals THEN [offers[p] EXCEPT !.status = "Rejected"]
                                     ELSE offers[p]
  BY <1>1 DEF RejectedOffers
<1>3. every' = every
  BY <1>1 DEF TypeOK, NoRow
<1>. HIDE DEF every, rivals
<1>4. seen' = seen
  <2>. SUFFICES ASSUME NEW o \in Offers
                PROVE  /\ offers'[o].status = NoRow <=> offers[o].status = NoRow
                       /\ offers[o].status # NoRow => offers'[o].listing = offers[o].listing
    BY <1>3 DEF OffersAt
  <2>1. CASE o \in rivals
    <3>1. offers[o].status = "Pending"
      BY <2>1 DEF rivals, OffersTo
    <3>2. offers[o] \in [status : OfferStatus, listing : Listings, load : Loads,
                         amount : Amounts \cup {None}]
      BY <3>1 DEF TypeOK, OfferRecord, NoRow
    <3>3. offers'[o] = [offers[o] EXCEPT !.status = "Rejected"]
      BY <1>2, <2>1
    <3> QED BY <3>1, <3>2, <3>3 DEF NoRow
  <2>2. CASE o \notin rivals
    BY <1>2, <2>2
  <2> QED BY <2>1, <2>2
<1>5. seen \subseteq Offers /\ every \subseteq Listings
  BY DEF OffersAt, every
<1>6. v = Sees({}, {}, every, seen, {})
  BY DEF WebAdminListingsLooks, every
<1>. HIDE DEF seen
<1>7. GoodView(v) /\ v.offers = Restrict(offers, seen) /\ v.listings = Restrict(listings, every)
  BY <1>5, <1>6, SeesIsGood DEF Sees
<1>. DEFINE open == {o \in OffersIn(v, {"Pending"}) : v.offers[o].listing = i}
            f == [o \in open |-> "Rejected"]
<1>8. \A p \in seen : p \in open <=> p \in rivals
  BY <1>5, <1>7 DEF OffersIn, OffersTo, Restrict, rivals
<1>9. Answer(seen, f)
  BY <1>2, <1>5, <1>8 DEF Answer
<1>. HIDE DEF open, f
<1>10. /\ GoodView(OffersShown(v, f)) /\ OffersShown(v, f).loads = v.loads
       /\ OffersShown(v, f).bids = v.bids /\ OffersShown(v, f).payments = v.payments
       /\ OffersShown(v, f).listings = v.listings
  BY <1>7, OffersShownGood
<1>11. OffersShown(v, f).offers = Restrict(offers', seen)
  BY <1>7, <1>9, OffersMatch
<1>. DEFINE w == ListingShown(OffersShown(v, f), i, "Cancelled")
<1>12. /\ GoodView(w) /\ w.loads = v.loads /\ w.bids = v.bids /\ w.payments = v.payments
       /\ w.offers = Restrict(offers', seen)
       /\ w.listings = [v.listings EXCEPT ![i] = "Cancelled"]
  BY <1>10, <1>11, ListingShownGood
<1>13. w.listings = Restrict(listings', every)
  BY <1>1, <1>5, <1>7, <1>12 DEF Restrict, TypeOK
<1>14. v.loads = Restrict(loads', {}) /\ v.bids = Restrict(bids', {})
       /\ v.payments = Restrict(payments', {})
  BY <1>6 DEF Sees, Restrict
<1>. HIDE DEF w
<1>15. WebAdminListingsLooks' =
        [loads |-> Restrict(loads', {}), bids |-> Restrict(bids', {}),
         listings |-> Restrict(listings', every), offers |-> Restrict(offers', seen),
         payments |-> Restrict(payments', {})]
  BY <1>3, <1>4 DEF Sees, WebAdminListingsLooks, every, seen
<1>16. w = WebAdminListingsLooks'
  BY <1>12, <1>13, <1>14, <1>15 DEF GoodView
<1> QED BY <1>16 DEF w, f, open, ListingTakenDown

\* The phone's bid form adds the bid it has sent, and drops the one it has cancelled.
LEMMA SentShown ==
    ASSUME TypeOK, NEW d, NEW l, NEW k \in Bids, NEW m, NEW amount, SubmitBid(k, m, d, amount),
           NEW v, GoodView(v), Alike("PhoneTender", v, PhoneTenderLooks(d, l))
    PROVE  /\ GoodView(BidSent(v, k, bids'[k]))
           /\ Alike("PhoneTender", BidSent(v, k, bids'[k]), PhoneTenderLooks(d, l)')
<1>. DEFINE row == [status |-> "Pending", load |-> m, driver |-> d, amount |-> amount]
            known == Restrict(bids, BidsBy(d))
            now == Restrict(bids', BidsBy(d)')
            w == BidSent(v, k, bids'[k])
<1>1. /\ bids[k].status = NoRow /\ bids' = [bids EXCEPT ![k] = row]
      /\ loads' = loads
  BY DEF SubmitBid
<1>2. bids'[k] = row /\ \A b \in Bids \ {k} : bids'[b] = bids[b]
  BY <1>1 DEF TypeOK
<1>3. k \notin BidsBy(d) /\ BidsBy(d)' = BidsBy(d) \cup {k} /\ BidsBy(d) \subseteq Bids
  BY <1>1, <1>2 DEF BidsBy, NoRow
<1>4. /\ PhoneTenderLooks(d, l).bids = known /\ PhoneTenderLooks(d, l)'.bids = now
      /\ PhoneTenderLooks(d, l)'.loads = PhoneTenderLooks(d, l).loads
  BY <1>1 DEF PhoneTenderLooks, Sees, MayView, Stored
<1>5. /\ v.loads = PhoneTenderLooks(d, l).loads
      /\ PendingRows(v) = PendingRows(PhoneTenderLooks(d, l))
  BY DEF Alike
<1>6. /\ BidsIn(v, {"Pending"}) = BidsIn(PhoneTenderLooks(d, l), {"Pending"})
      /\ \A b \in BidsIn(v, {"Pending"}) : v.bids[b] = known[b]
  BY <1>4, <1>5 DEF PendingRows
<1>7. BidsIn(v, {"Pending"}) = {b \in BidsBy(d) : bids[b].status = "Pending"}
  BY <1>4, <1>6 DEF BidsIn, Restrict
<1>8. /\ GoodView(w) /\ w.loads = v.loads
      /\ w.bids = [c \in {k} \cup DOMAIN v.bids |-> IF c = k THEN row ELSE v.bids[c]]
  BY <1>2 DEF BidSent, GoodView
<1>9. BidsIn(w, {"Pending"}) = BidsIn(v, {"Pending"}) \cup {k}
  BY <1>3, <1>7, <1>8 DEF BidsIn
<1>10. BidsIn(PhoneTenderLooks(d, l)', {"Pending"}) = BidsIn(v, {"Pending"}) \cup {k}
  BY <1>2, <1>3, <1>4, <1>7 DEF BidsIn, Restrict
<1>11. \A b \in BidsIn(v, {"Pending"}) \cup {k} : w.bids[b] = now[b]
  BY <1>2, <1>3, <1>6, <1>7, <1>8 DEF Restrict, BidsIn
<1>12. PendingRows(w) = PendingRows(PhoneTenderLooks(d, l)')
  BY <1>4, <1>9, <1>10, <1>11 DEF PendingRows
<1> QED BY <1>4, <1>5, <1>8, <1>12 DEF Alike

LEMMA DroppedShown ==
    ASSUME TypeOK, NEW d, NEW l, NEW k \in Bids, CancelBid(k),
           NEW v, GoodView(v), Alike("PhoneTender", v, PhoneTenderLooks(d, l))
    PROVE  /\ GoodView(BidCancelled(v, k))
           /\ Alike("PhoneTender", BidCancelled(v, k), PhoneTenderLooks(d, l)')
<1>. DEFINE known == Restrict(bids, BidsBy(d))
            now == Restrict(bids', BidsBy(d)')
            w == BidCancelled(v, k)
<1>1. /\ bids[k].status = "Pending" /\ bids' = [bids EXCEPT ![k].status = "Cancelled"]
      /\ loads' = loads
  BY DEF CancelBid
<1>2. bids[k] \in [status : BidStatus, load : Loads, driver : Drivers, amount : Amounts]
  BY <1>1 DEF TypeOK, BidRecord, NoRow
<1>3. /\ bids'[k].status = "Cancelled" /\ bids'[k].driver = bids[k].driver
      /\ \A b \in Bids \ {k} : bids'[b] = bids[b]
  BY <1>1, <1>2 DEF TypeOK
<1>4. BidsBy(d)' = BidsBy(d) /\ BidsBy(d) \subseteq Bids
  BY <1>1, <1>3 DEF BidsBy, NoRow
<1>5. /\ PhoneTenderLooks(d, l).bids = known /\ PhoneTenderLooks(d, l)'.bids = now
      /\ PhoneTenderLooks(d, l)'.loads = PhoneTenderLooks(d, l).loads
  BY <1>1 DEF PhoneTenderLooks, Sees, MayView, Stored
<1>6. /\ v.loads = PhoneTenderLooks(d, l).loads
      /\ PendingRows(v) = PendingRows(PhoneTenderLooks(d, l))
  BY DEF Alike
<1>7. /\ BidsIn(v, {"Pending"}) = BidsIn(PhoneTenderLooks(d, l), {"Pending"})
      /\ \A b \in BidsIn(v, {"Pending"}) : v.bids[b] = known[b]
  BY <1>5, <1>6 DEF PendingRows
<1>8. BidsIn(v, {"Pending"}) = {b \in BidsBy(d) : bids[b].status = "Pending"}
  BY <1>5, <1>7 DEF BidsIn, Restrict
<1>9. /\ GoodView(w) /\ w.loads = v.loads
      /\ w.bids = [c \in DOMAIN v.bids \ {k} |-> v.bids[c]]
  BY DEF BidCancelled, GoodView, Restrict
<1>10. BidsIn(w, {"Pending"}) = BidsIn(v, {"Pending"}) \ {k}
  BY <1>9 DEF BidsIn
<1>11. BidsIn(PhoneTenderLooks(d, l)', {"Pending"}) = BidsIn(v, {"Pending"}) \ {k}
  BY <1>3, <1>4, <1>5, <1>8 DEF BidsIn, Restrict
<1>12. \A b \in BidsIn(v, {"Pending"}) \ {k} : w.bids[b] = now[b]
  BY <1>3, <1>4, <1>7, <1>8, <1>9 DEF Restrict, BidsIn
<1>13. PendingRows(w) = PendingRows(PhoneTenderLooks(d, l)')
  BY <1>5, <1>10, <1>11, <1>12 DEF PendingRows
<1> QED BY <1>5, <1>6, <1>9, <1>13 DEF Alike

\* A web form that stays open shows nothing that its own request changes.
LEMMA StaysShown ==
    ASSUME NEW u, NEW l
    PROVE  /\ loads' = loads => WebTenderLooks(u, l)' = WebTenderLooks(u, l)
           /\ loads' = loads /\ listings' = listings => WebVehiclesLooks(u)' = WebVehiclesLooks(u)
BY DEF WebTenderLooks, WebVehiclesLooks, Sees, MayView, Stored, LoadsOf, WithStatus, Restrict

-------------------------------------------------------------------------------
(* All the outcomes of a press. *)

\* A page that patches its rows or leaves them as they are is up to date if it was.
LEMMA TrustingGood ==
    ASSUME ScreenInv, page \in Pages, page.on \in Trusting, NEW b \in Shows(page.on, view), b.op \in Writes,
           Does(page.user, b), Next, TypeOK', page' = page, since' = since,
           \/ AfterTable[page.on][b.op] = Patch /\ view' = Patched(b)
           \/ AfterTable[page.on][b.op] = Stay /\ view' = view
    PROVE  ScreenInv'
<1>1. TypeOK /\ GoodView(view)
  BY DEF ScreenInv
<1>2. TripIsHis' /\ CrowdedIsEmpty'
  BY DEF Trusting, TripIsHis, CrowdedIsEmpty
<1>. SUFFICES /\ GoodView(view')
              /\ since = "nothing" => Alike(page.on, view', Looks(page)')
  BY <1>2 DEF ScreenInv, UpToDate, Compared
<1>3. since = "nothing" => Alike(page.on, view, Looks(page))
  BY DEF ScreenInv, UpToDate, Compared, Trusting
<1>. DEFINE u == page.user
            l == page.load
<1>4. CASE page.on = "WebVehicles"
  <2>1. b.op = "CreateOffer" /\ view' = view
    BY <1>1, <1>4, CustomerRequests DEF CustomerOnes, Patch, Stay
  <2>2. loads' = loads /\ listings' = listings
    BY <2>1 DEF Does, CreateOffer
  <2>3. Looks(page) = WebVehiclesLooks(u) /\ Looks(page)' = WebVehiclesLooks(u)'
    BY <1>4 DEF Looks
  <2>4. Looks(page)' = Looks(page)
    BY <2>2, <2>3, StaysShown
  <2> QED BY <1>1, <1>3, <2>1, <2>4
<1>5. CASE page.on = "WebTender"
  <2>1. b.op = "SubmitBid" /\ view' = view
    BY <1>1, <1>5, DriverRequests DEF DriverOnes, DriverLoadOnes, Patch, Stay
  <2>2. loads' = loads
    BY <2>1 DEF Does, SubmitBid
  <2>3. Looks(page) = WebTenderLooks(u, l) /\ Looks(page)' = WebTenderLooks(u, l)'
    BY <1>5 DEF Looks
  <2>4. Looks(page)' = Looks(page)
    BY <2>2, <2>3, StaysShown
  <2> QED BY <1>1, <1>3, <2>1, <2>4
<1>6. CASE page.on = "WebOffers"
  <2>1. b.op = "WithdrawOffer" /\ view' = Patched(b) /\ b.on \in Offers
    BY <1>1, <1>6, CustomerRequests DEF CustomerOnes, Patch, Stay, Addressed
  <2>2. WithdrawOffer(b.on) /\ view' = Withdrawn(view, b.on)
    BY <2>1 DEF Does, Patched
  <2>3. GoodView(view')
    BY <1>1, <2>2, OffersShownGood DEF Withdrawn
  <2>4. Looks(page) = WebOffersLooks(u) /\ Looks(page)' = WebOffersLooks(u)'
    BY <1>6 DEF Looks
  <2>5. ASSUME since = "nothing" PROVE Alike(page.on, view', Looks(page)')
    <3>1. view = WebOffersLooks(u)
      BY <1>3, <1>6, <2>4, <2>5 DEF Alike
    <3>2. view' = WebOffersLooks(u)'
      BY <1>1, <2>1, <2>2, <3>1, WithdrawnShown
    <3> QED BY <2>4, <3>2, AlikeItself
  <2> QED BY <2>3, <2>5
<1>7. CASE page.on = "WebAdminListings"
  <2>1. /\ b.op = "AdminCancelListing" /\ view' = Patched(b)
        /\ b.on \in Listings /\ b.on \in DOMAIN view.listings
    BY <1>1, <1>2, <1>3, <1>4, <1>7, AdminRequests DEF AdminOnes, Patch, Stay, Addressed
  <2>2. AdminCancelListing(b.on) /\ view' = ListingTakenDown(view, b.on)
    BY <2>1 DEF Does, Patched
  <2>3. GoodView(view')
    BY <1>1, <2>2, OffersShownGood, ListingShownGood DEF ListingTakenDown
  <2>4. Looks(page) = WebAdminListingsLooks /\ Looks(page)' = WebAdminListingsLooks'
    BY <1>7 DEF Looks
  <2>5. ASSUME since = "nothing" PROVE Alike(page.on, view', Looks(page)')
    <3>1. view = WebAdminListingsLooks
      BY <1>3, <1>7, <2>4, <2>5 DEF Alike
    <3>2. view' = WebAdminListingsLooks'
      BY <1>1, <2>1, <2>2, <3>1, TakenDownShown
    <3> QED BY <2>4, <3>2, AlikeItself
  <2> QED BY <2>3, <2>5
<1>8. CASE page.on = "WebListings"
  <2>1. /\ view' = Patched(b)
        /\ \/ b.op \in {"AcceptOffer", "RejectOffer"} /\ b.on \in Offers /\ b.on \in DOMAIN view.offers
           \/ b.op = "CancelListing" /\ b.on \in Listings /\ b.on \in DOMAIN view.listings
    BY <1>1, <1>8, DriverRequests DEF DriverOnes, Patch, Stay, Addressed, GoodView
  <2>2. Looks(page) = WebListingsLooks(u) /\ Looks(page)' = WebListingsLooks(u)'
    BY <1>8 DEF Looks
  <2>3. since = "nothing" => view = WebListingsLooks(u)
    BY <1>3, <1>8, <2>2 DEF Alike
  <2>. SUFFICES GoodView(view') /\ (since = "nothing" => view' = WebListingsLooks(u)')
    BY <2>2, AlikeItself
  <2>4. CASE b.op = "AcceptOffer"
    <3>1. AcceptOffer(b.on) /\ view' = OfferAccepted(view, b.on)
      BY <2>1, <2>4 DEF Does, Patched
    <3>2. GoodView(view')
      BY <1>1, <3>1, OffersShownGood, ListingShownGood DEF OfferAccepted
    <3>3. ASSUME since = "nothing" PROVE view' = WebListingsLooks(u)'
      BY <1>1, <2>1, <2>3, <2>4, <3>1, <3>3, AcceptedShown
    <3> QED BY <3>2, <3>3
  <2>5. CASE b.op = "RejectOffer"
    <3>1. RejectOffer(b.on) /\ view' = OfferRejected(view, b.on)
      BY <2>1, <2>5 DEF Does, Patched
    <3>2. GoodView(view')
      BY <1>1, <3>1, OffersShownGood DEF OfferRejected
    <3>3. ASSUME since = "nothing" PROVE view' = WebListingsLooks(u)'
      BY <1>1, <2>1, <2>3, <2>5, <3>1, <3>3, RejectedShown
    <3> QED BY <3>2, <3>3
  <2>6. CASE b.op = "CancelListing"
    <3>1. CancelListing(b.on) /\ view' = ListingCancelled(view, b.on)
      BY <2>1, <2>6 DEF Does, Patched
    <3>2. GoodView(view')
      BY <1>1, <3>1, ListingShownGood DEF ListingCancelled
    <3>3. ASSUME since = "nothing" PROVE view' = WebListingsLooks(u)'
      BY <1>1, <2>1, <2>3, <2>6, <3>1, <3>3, CancelledShown
    <3> QED BY <3>2, <3>3
  <2> QED BY <2>1, <2>4, <2>5, <2>6
<1>9. CASE page.on = "PhoneTender"
  <2>1. view' = Patched(b) /\ b.op \in {"SubmitBid", "CancelBid"} /\ Addressed(b)
    BY <1>1, <1>9, DriverRequests DEF DriverLoadOnes, Patch, Stay
  <2>2. Looks(page) = PhoneTenderLooks(u, l) /\ Looks(page)' = PhoneTenderLooks(u, l)'
    BY <1>9 DEF Looks
  <2>3. CASE b.op = "SubmitBid"
    <3>1. PICK k \in Bids : SubmitBid(k, b.on, u, b.price)
      BY <2>3 DEF Does
    <3>2. k = CHOOSE c \in Bids : bids[c].status = NoRow /\ bids'[c].status # NoRow
      BY <1>1, <3>1 DEF SubmitBid, TypeOK, NoRow
    <3>3. view' = BidSent(view, k, bids'[k])
      BY <2>1, <2>3, <3>2 DEF Patched
    <3>4. GoodView(view')
      BY <1>1, <3>3 DEF BidSent, GoodView
    <3>5. ASSUME since = "nothing" PROVE Alike(page.on, view', Looks(page)')
      BY <1>1, <1>3, <1>9, <2>2, <3>1, <3>3, <3>5, SentShown
    <3> QED BY <3>4, <3>5
  <2>4. CASE b.op = "CancelBid"
    <3>1. CancelBid(b.on) /\ view' = BidCancelled(view, b.on) /\ b.on \in Bids
      BY <2>1, <2>4 DEF Does, Patched, Addressed
    <3>2. GoodView(view')
      BY <1>1, <3>1 DEF BidCancelled, GoodView, Restrict
    <3>3. ASSUME since = "nothing" PROVE Alike(page.on, view', Looks(page)')
      BY <1>1, <1>3, <1>9, <2>2, <3>1, <3>3, DroppedShown
    <3> QED BY <3>2, <3>3
  <2> QED BY <2>1, <2>3, <2>4
<1> QED BY <1>4, <1>5, <1>6, <1>7, <1>8, <1>9 DEF Trusting

\* What a press is: a request for a row there can be, after which the page either
\* fetches again, or goes on with its own rows if it is one of the trusting ones.
LEMMA PressFacts ==
    ASSUME ScreenInv, NEW b \in Shows(page.on, view), b.op \in Writes
    PROVE  /\ page \in Pages /\ page # Closed /\ page.on # "PhoneTripCrowded"
           /\ Addressed(b)
           /\ b.op = "SubmitBid" => page.user \in Drivers
           /\ page.on \notin Trusting => AfterTable[page.on][b.op] \in {Reload, ReloadOrBlank, Leave}
           /\ page.on \in Trusting => AfterTable[page.on][b.op] \in {Patch, Stay}
           /\ page.on \in {"WebTrip", "PhoneTrip"} => b.on \in DOMAIN view.loads
<1>1. GoodView(view)
  BY DEF ScreenInv
<1>2. page # Closed
  BY DEF Closed, Shows
<1>3. page \in Pages
  BY <1>2 DEF ScreenInv
<1>4. page.on # "PhoneTripCrowded"
  <2>1. ASSUME page.on = "PhoneTripCrowded" PROVE FALSE
    <3>1. DOMAIN view.loads = {}
      BY <2>1 DEF ScreenInv, CrowdedIsEmpty
    <3> QED BY <2>1, <3>1 DEF Shows, PhoneTripButtons, CanDeliver, Buttons, LoadsIn
  <2> QED BY <2>1
<1>5. CASE page.on \in CustomerOnes \cup CustomerLoadOnes
  BY <1>1, <1>2, <1>3, <1>4, <1>5, CustomerRequests DEF Trusting, CustomerOnes, CustomerLoadOnes
<1>6. CASE page.on \in DriverOnes \cup DriverLoadOnes /\ page.user \in Drivers
  BY <1>1, <1>2, <1>3, <1>4, <1>6, DriverRequests DEF Trusting, DriverOnes, DriverLoadOnes
<1>7. CASE page.on \in AdminOnes \cup {"WebAdminLoad"}
  BY <1>1, <1>2, <1>3, <1>4, <1>7, AdminRequests DEF Trusting, AdminOnes
<1> QED BY <1>2, <1>3, <1>4, <1>5, <1>6, <1>7, PageNames

LEMMA PressIsStep ==
    ASSUME ScreenInv, NEW b \in Shows(page.on, view), Press(b)
    PROVE  Next
BY PressFacts, PressIsRequest DEF Press

LEMMA PressGood ==
    ASSUME ScreenInv, NEW b \in Shows(page.on, view), Press(b)
    PROVE  ScreenInv'
<1>1. TypeOK /\ b.op \in Writes /\ Does(page.user, b)
  BY DEF ScreenInv, Press
<1>2. Next
  BY PressIsStep
<1>3. TypeOK'
  BY <1>1, <1>2, NextType
<1>4. /\ page \in Pages /\ page # Closed /\ page.on # "PhoneTripCrowded"
      /\ page.on \notin Trusting => AfterTable[page.on][b.op] \in {Reload, ReloadOrBlank, Leave}
      /\ page.on \in {"WebTrip", "PhoneTrip"} => b.on \in DOMAIN view.loads
  BY <1>1, PressFacts
<1>5. CASE Gone
  BY <1>3, <1>5, ClosedIsGood
<1>6. CASE Pressed(b) /\ Behind
  BY <1>2, <1>3, <1>6, BehindGood DEF Pressed
<1>7. CASE Pressed(b) /\ Fresh
  <2>1. page.on \in {"WebTrip", "PhoneTrip"} => page.load \in DOMAIN view.loads
    BY <1>4 DEF ScreenInv, TripIsHis
  <2> QED BY <1>2, <1>3, <1>4, <1>7, <2>1, FreshGood DEF Pressed
<1>8. CASE /\ Pressed(b)
           /\ \/ AfterTable[page.on][b.op] = Patch /\ view' = Patched(b) /\ since' = since
              \/ AfterTable[page.on][b.op] = Stay /\ UNCHANGED <<view, since>>
  <2>1. page.on \in Trusting
    BY <1>4, <1>8 DEF Patch, Stay, Reload, ReloadOrBlank, Leave
  <2> QED BY <1>1, <1>2, <1>3, <1>4, <1>8, <2>1, TrustingGood DEF Pressed
<1> QED BY <1>5, <1>6, <1>7, <1>8 DEF Press, Answered

\* Steps that leave the tables and the page alone: codes, positions and ratings.
LEMMA AsideSteps ==
    ASSUME ScreenNext
    PROVE  \/ \E g \in Pages : Open(g)
           \/ Close
           \/ \E b \in Shows(page.on, view) : Press(b)
           \/ Meanwhile
           \/ UNCHANGED <<vars, screen>>
<1>1. ASSUME NEW b, ShowQr(b) PROVE UNCHANGED <<vars, screen>>
  BY <1>1 DEF ShowQr
<1>2. ASSUME NEW l, QrExpires(l) PROVE UNCHANGED <<vars, screen>>
  BY <1>2 DEF QrExpires
<1>3. ASSUME NEW l, NEW u, RateLoad(u, l) PROVE UNCHANGED <<vars, screen>>
  BY <1>3 DEF RateLoad
<1>4. ASSUME NEW r, DeleteRating(r) PROVE UNCHANGED <<vars, screen>>
  BY <1>4 DEF DeleteRating
<1>5. ASSUME NEW d, Moves(d) PROVE UNCHANGED <<vars, screen>>
  BY <1>5 DEF Moves
<1> QED BY <1>1, <1>2, <1>3, <1>4, <1>5 DEF ScreenNext

LEMMA ScreenStart == ScreenInit => ScreenInv
<1>. SUFFICES ASSUME ScreenInit PROVE ScreenInv
  OBVIOUS
<1>1. TypeOK
  BY InitType DEF ScreenInit
<1>2. page = Closed /\ view = Empty
  BY DEF ScreenInit, Init0
<1>3. GoodView(view)
  BY <1>2 DEF GoodView, Empty
<1> QED BY <1>1, <1>2, <1>3 DEF ScreenInv, Closed, TripIsHis, CrowdedIsEmpty, UpToDate, Compared

LEMMA ScreenStep == ScreenInv /\ [ScreenNext]_all => ScreenInv'
<1>. SUFFICES ASSUME ScreenInv, [ScreenNext]_all PROVE ScreenInv'
  OBVIOUS
<1>1. ASSUME NEW g \in Pages, Open(g) PROVE ScreenInv'
  BY <1>1, OpenGood
<1>2. CASE Close
  <2>1. TypeOK'
    BY <1>2 DEF ScreenInv, TypeOK, Close, vars
  <2> QED BY <1>2, <2>1, ClosedIsGood DEF Close, Gone
<1>3. ASSUME NEW b \in Shows(page.on, view), Press(b) PROVE ScreenInv'
  BY <1>3, PressGood
<1>4. CASE Meanwhile
  BY <1>4, MeanwhileGood
<1>5. CASE UNCHANGED <<vars, screen>>
  BY <1>5, SamePage DEF screen
<1> QED BY <1>1, <1>2, <1>3, <1>4, <1>5, AsideSteps DEF all

-------------------------------------------------------------------------------
(* The price beside a button, however old the page. *)

BidPages == {"WebLoad", "PhoneLoad", "WebBids", "PhoneBids"}

\* A customer's page shows bids there are, with the amounts they were made for.
BidsAsMade(g, v) ==
    g.on \in BidPages => \A b \in DOMAIN v.bids :
        bids[b].status # NoRow /\ v.bids[b].amount = bids[b].amount

\* So does a driver's with the offers made to him; where one names no amount, the price
\* beside it is the load's as long as the page knows of all that happened.
OffersAsMade(g, v, how) ==
    g.on = "WebListings" => \A o \in DOMAIN v.offers :
        /\ offers[o].status # NoRow
        /\ v.offers[o] \in OfferRecord /\ v.offers[o].status # NoRow
        /\ v.offers[o].amount = offers[o].amount
        /\ v.offers[o].load = offers[o].load
        /\ how # "others" => v.loads[offers[o].load].price = loads[offers[o].load].price

PricesTrue == BidsAsMade(page, view) /\ OffersAsMade(page, view, since)

\* Requests change the status of a bid or an offer there is, and never what it says.
BidsStay == \A b \in Bids : bids[b].status # NoRow =>
    bids'[b].status # NoRow /\ bids'[b].amount = bids[b].amount
OffersStay == \A o \in Offers : offers[o].status # NoRow =>
    offers'[o].status # NoRow /\ offers'[o].amount = offers[o].amount /\ offers'[o].load = offers[o].load

LEMMA NewStatusOnly ==
    /\ \A r \in BidRecord, st \in BidStatus : r.status # NoRow =>
          [r EXCEPT !.status = st].status # NoRow /\ [r EXCEPT !.status = st].amount = r.amount
    /\ \A r \in OfferRecord, st \in OfferStatus : r.status # NoRow =>
          /\ [r EXCEPT !.status = st].status # NoRow
          /\ [r EXCEPT !.status = st].amount = r.amount
          /\ [r EXCEPT !.status = st].load = r.load
<1>1. \A r \in BidRecord, st \in BidStatus : r.status # NoRow =>
          [r EXCEPT !.status = st].status # NoRow /\ [r EXCEPT !.status = st].amount = r.amount
  BY DEF BidRecord, BidStatus, NoRow
<1>2. \A r \in OfferRecord, st \in OfferStatus : r.status # NoRow =>
          /\ [r EXCEPT !.status = st].status # NoRow
          /\ [r EXCEPT !.status = st].amount = r.amount
          /\ [r EXCEPT !.status = st].load = r.load
  BY DEF OfferRecord, OfferStatus, NoRow
<1> QED BY <1>1, <1>2

LEMMA BidTermsKept == TypeOK /\ Next => BidsStay
<1>. SUFFICES ASSUME TypeOK, Next, NEW b \in Bids, bids[b].status # NoRow
              PROVE  bids'[b].status # NoRow /\ bids'[b].amount = bids[b].amount
  BY DEF BidsStay
<1>1. bids'[b] = bids[b] \/ \E st \in BidStatus : bids'[b] = [bids[b] EXCEPT !.status = st]
  <2>1. CASE bids' = bids
    BY <2>1
  <2>2. ASSUME NEW c \in Bids, BidRequest(c)
        PROVE  bids'[b] = bids[b] \/ \E st \in BidStatus : bids'[b] = [bids[b] EXCEPT !.status = st]
    BY <2>2 DEF BidRequest, SubmitBid, CancelBid, AcceptBid, BidsOn, BidStatus, TypeOK
  <2>3. ASSUME NEW l \in Loads, bids' = ClosedBids(l)
        PROVE  bids'[b] = bids[b] \/ \E st \in BidStatus : bids'[b] = [bids[b] EXCEPT !.status = st]
    <3>1. bids'[b] \in {bids[b], [bids[b] EXCEPT !.status = "Cancelled"],
                        [bids[b] EXCEPT !.status = "Rejected"]}
      BY <2>3 DEF ClosedBids
    <3> QED BY <3>1 DEF BidStatus
  <2>4. ASSUME NEW l \in Loads, LoadRequest(l)
        PROVE  bids' = bids \/ \E k \in Loads : bids' = ClosedBids(k)
    BY <2>4 DEF LoadRequest, CreateLoad, EditLoad, Pickup, Arrive, Deliver, CancelLoad
  <2>5. (\E i \in Listings : ListingRequest(i)) \/ (\E o \in Offers : OfferRequest(o))
        \/ (\E p \in Payments : AdminRelease(p)) \/ (\E l \in Loads : Backfill(l)) => bids' = bids
    BY DEF ListingRequest, CreateListing, CancelListing, AdminCancelListing, OfferRequest,
       CreateOffer, CloseOffer, RejectOffer, WithdrawOffer, AcceptOffer, AdminRelease, Backfill
  <2> QED BY <2>1, <2>2, <2>3, <2>4, <2>5 DEF Next
<1>2. bids[b] \in BidRecord
  BY DEF TypeOK
<1>3. ASSUME NEW st \in BidStatus
      PROVE  /\ [bids[b] EXCEPT !.status = st].status # NoRow
             /\ [bids[b] EXCEPT !.status = st].amount = bids[b].amount
  BY <1>2, NewStatusOnly
<1> QED BY <1>1, <1>3, Zenon

LEMMA OfferTermsKept == TypeOK /\ Next => OffersStay
<1>. SUFFICES ASSUME TypeOK, Next, NEW o \in Offers, offers[o].status # NoRow
              PROVE  /\ offers'[o].status # NoRow
                     /\ offers'[o].amount = offers[o].amount
                     /\ offers'[o].load = offers[o].load
  BY DEF OffersStay
<1>. DEFINE Kept == offers'[o] = offers[o]
                    \/ \E st \in OfferStatus : offers'[o] = [offers[o] EXCEPT !.status = st]
<1>1. ASSUME NEW i PROVE /\ DOMAIN RejectedOffers(OffersTo(i, "Pending")) = Offers
                         /\ RejectedOffers(OffersTo(i, "Pending"))[o] \in
                              {offers[o], [offers[o] EXCEPT !.status = "Rejected"]}
  BY DEF RejectedOffers
<1>2. offers[o] \in OfferRecord
  BY DEF TypeOK
<1>3. [[offers[o] EXCEPT !.status = "Rejected"] EXCEPT !.status = "Accepted"]
        = [offers[o] EXCEPT !.status = "Accepted"]
  BY <1>2 DEF OfferRecord, NoRow
<1>4. ASSUME NEW c \in Offers, OfferRequest(c) PROVE Kept
  <2>1. CASE AcceptOffer(c)
    <3>1. PICK i : offers' = [RejectedOffers(OffersTo(i, "Pending")) EXCEPT ![c].status = "Accepted"]
      BY <2>1 DEF AcceptOffer
    <3>. DEFINE rejected == RejectedOffers(OffersTo(i, "Pending"))
    <3>2. DOMAIN rejected = Offers
          /\ rejected[o] \in {offers[o], [offers[o] EXCEPT !.status = "Rejected"]}
      BY <1>1
    <3>3. offers' = [rejected EXCEPT ![c].status = "Accepted"]
      BY <3>1
    <3>. HIDE DEF rejected
    <3>4. CASE c = o
      <4>1. offers'[o] = [rejected[o] EXCEPT !.status = "Accepted"]
        BY <3>2, <3>3, <3>4
      <4> QED BY <1>3, <3>2, <4>1 DEF OfferStatus
    <3>5. CASE c # o
      <4>1. offers'[o] = rejected[o]
        BY <3>2, <3>3, <3>5
      <4> QED BY <3>2, <4>1 DEF OfferStatus
    <3> QED BY <3>4, <3>5
  <2>2. CASE ~AcceptOffer(c)
    BY <1>4, <2>2 DEF OfferRequest, CreateOffer, CloseOffer, RejectOffer, WithdrawOffer, OfferStatus,
       TypeOK
  <2> QED BY <2>1, <2>2
<1>5. ASSUME NEW i \in Listings, AdminCancelListing(i) PROVE Kept
  BY <1>1, <1>5 DEF AdminCancelListing, OfferStatus
<1>6. ASSUME ~(\E c \in Offers : OfferRequest(c)), ~(\E i \in Listings : AdminCancelListing(i))
      PROVE  Kept
  BY <1>6 DEF Next, LoadRequest, CreateLoad, EditLoad, Pickup, Arrive, Deliver, CancelLoad,
     BidRequest, SubmitBid, CancelBid, AcceptBid, ListingRequest, CreateListing, CancelListing,
     AdminRelease, Backfill
<1>7. Kept
  BY <1>4, <1>5, <1>6
<1>8. ASSUME NEW st \in OfferStatus
      PROVE  /\ [offers[o] EXCEPT !.status = st].status # NoRow
             /\ [offers[o] EXCEPT !.status = st].amount = offers[o].amount
             /\ [offers[o] EXCEPT !.status = st].load = offers[o].load
  BY <1>2, NewStatusOnly
<1> QED BY <1>7, <1>8, Zenon

\* What a page shows when it has just fetched.
LEMMA FetchedPrices ==
    ASSUME TypeOK, NEW g \in Pages \cup {Closed}, NEW how
    PROVE  BidsAsMade(g, Looks(g)) /\ OffersAsMade(g, Looks(g), how)
<1>1. BidsAsMade(g, Looks(g))
  <2>. SUFFICES ASSUME g.on \in BidPages, NEW b \in DOMAIN Looks(g).bids
                PROVE  bids[b].status # NoRow /\ Looks(g).bids[b].amount = bids[b].amount
    BY DEF BidsAsMade
  <2>1. PICK ls : Looks(g).bids = Restrict(bids, BidsFor(ls))
    BY DEF BidPages, Looks, WebLoadLooks, PhoneLoadLooks, WebBidsLooks, PhoneBidsLooks, Sees
  <2> QED BY <2>1 DEF Restrict, BidsFor
<1>2. OffersAsMade(g, Looks(g), how)
  <2>. SUFFICES ASSUME g.on = "WebListings", NEW o \in DOMAIN Looks(g).offers
                PROVE  /\ offers[o].status # NoRow
                       /\ Looks(g).offers[o] \in OfferRecord /\ Looks(g).offers[o].status # NoRow
                       /\ Looks(g).offers[o].amount = offers[o].amount
                       /\ Looks(g).offers[o].load = offers[o].load
                       /\ Looks(g).loads[offers[o].load].price = loads[offers[o].load].price
    BY DEF OffersAsMade
  <2>1. Looks(g) = WebListingsLooks(g.user)
    BY DEF Looks
  <2>2. /\ Looks(g).offers = Restrict(offers, OffersAt(Mine(g.user)))
        /\ Looks(g).loads = [l \in Offered(g.user) |-> [price |-> loads[l].price]]
    BY <2>1, ListingsLook
  <2>3. o \in OffersAt(Mine(g.user)) /\ Looks(g).offers[o] = offers[o]
    BY <2>2 DEF Restrict
  <2>4. offers[o].status # NoRow /\ offers[o] \in OfferRecord
    BY <2>3 DEF OffersAt, TypeOK
  <2>5. offers[o].load \in Offered(g.user)
    BY <2>3 DEF Offered
  <2> QED BY <2>2, <2>3, <2>4, <2>5
<1> QED BY <1>1, <1>2

LEMMA FetchedBids == TypeOK => \A g \in Pages \cup {Closed} : BidsAsMade(g, Looks(g))
<1>1. \A g \in Pages \cup {Closed} : TypeOK =>
         BidsAsMade(g, Looks(g)) /\ OffersAsMade(g, Looks(g), "nothing")
  BY FetchedPrices
<1> QED BY <1>1

\* The rows of a page that keeps them go on saying what was agreed to.
LEMMA OldPrices ==
    ASSUME ScreenInv, PricesTrue, Next, page' = page, view' = view,
           \/ since' = "others" \/ page.on # "WebListings"
           \/ since # "others" /\ \A l \in Loads : loads'[l].price = loads[l].price
    PROVE  PricesTrue'
<1>1. BidsStay /\ OffersStay
  BY BidTermsKept, OfferTermsKept DEF ScreenInv
<1>2. DOMAIN view.bids \subseteq Bids /\ DOMAIN view.offers \subseteq Offers
  BY DEF ScreenInv, GoodView
<1>3. BidsAsMade(page, view)'
  BY <1>1, <1>2 DEF PricesTrue, BidsAsMade, BidsStay
<1>4. OffersAsMade(page, view, since)'
  <2>. SUFFICES ASSUME page.on = "WebListings", NEW o \in DOMAIN view.offers
                PROVE  /\ offers'[o].status # NoRow
                       /\ view.offers[o] \in OfferRecord' /\ view.offers[o].status # NoRow
                       /\ view.offers[o].amount = offers'[o].amount
                       /\ view.offers[o].load = offers'[o].load
                       /\ since' # "others" =>
                            view.loads[offers'[o].load].price = loads'[offers'[o].load].price
    BY DEF OffersAsMade
  <2>1. /\ offers[o].status # NoRow
        /\ view.offers[o] \in OfferRecord /\ view.offers[o].status # NoRow
        /\ view.offers[o].amount = offers[o].amount
        /\ view.offers[o].load = offers[o].load
        /\ since # "others" => view.loads[offers[o].load].price = loads[offers[o].load].price
    BY DEF PricesTrue, OffersAsMade
  <2>2. /\ offers'[o].status # NoRow
        /\ offers'[o].amount = offers[o].amount /\ offers'[o].load = offers[o].load
    BY <1>1, <1>2, <2>1 DEF OffersStay
  <2>3. offers[o].load \in Loads
    BY <2>1 DEF OfferRecord, NoRow
  <2>4. since' # "others" => view.loads[offers'[o].load].price = loads'[offers'[o].load].price
    BY <2>1, <2>2, <2>3
  <2> QED BY <2>1, <2>2, <2>4 DEF OfferRecord
<1> QED BY <1>3, <1>4 DEF PricesTrue

\* The patches of Listings.tsx change statuses and nothing else that is shown.
LEMMA PatchKeepsPrices ==
    ASSUME ScreenInv, PricesTrue, page.on = "WebListings", NEW b \in Shows(page.on, view),
           b.op \in Writes, view' = Patched(b)
    PROVE  /\ view'.loads = view.loads
           /\ DOMAIN view'.offers = DOMAIN view.offers
           /\ \A o \in DOMAIN view'.offers :
                \/ view'.offers[o] = view.offers[o]
                \/ \E st \in OfferStatus : view'.offers[o] = [view.offers[o] EXCEPT !.status = st]
<1>1. GoodView(view)
  BY DEF ScreenInv
<1>2. \/ b.op \in {"AcceptOffer", "RejectOffer"} /\ b.on \in DOMAIN view.offers
      \/ b.op = "CancelListing" /\ b.on \in DOMAIN view.listings
  BY <1>1, DriverRequests DEF DriverOnes, DriverLoadOnes
<1>3. ASSUME NEW f, \A o \in DOMAIN f : f[o] \in OfferStatus, NEW w, w = OffersShown(view, f)
      PROVE  /\ w.loads = view.loads /\ GoodView(w)
             /\ DOMAIN w.offers = DOMAIN view.offers
             /\ \A o \in DOMAIN w.offers :
                  \/ w.offers[o] = view.offers[o]
                  \/ \E st \in OfferStatus : w.offers[o] = [view.offers[o] EXCEPT !.status = st]
  <2>1. w.loads = view.loads /\ GoodView(w)
    BY <1>1, <1>3, OffersShownGood
  <2>2. w.offers = [o \in DOMAIN view.offers |->
                      IF o \in DOMAIN f THEN [view.offers[o] EXCEPT !.status = f[o]]
                                        ELSE view.offers[o]]
    BY <1>1, <1>3 DEF OffersShown, GoodView
  <2> QED BY <1>3, <2>1, <2>2
<1>4. CASE b.op = "AcceptOffer"
  <2>. DEFINE beside == {p \in OffersIn(view, {"Pending"}) :
                            view.offers[p].listing = view.offers[b.on].listing}
              known == [p \in {b.on} \cup beside |-> IF p = b.on THEN "Accepted" ELSE "Rejected"]
              w == OffersShown(view, known)
  <2>1. view' = ListingShown(w, view.offers[b.on].listing, "Matched")
    BY <1>4 DEF Patched, OfferAccepted
  <2>2. \A o \in DOMAIN known : known[o] \in OfferStatus
    BY DEF OfferStatus
  <2>. HIDE DEF known
  <2>3. /\ w.loads = view.loads /\ GoodView(w)
        /\ DOMAIN w.offers = DOMAIN view.offers
        /\ \A o \in DOMAIN w.offers :
             \/ w.offers[o] = view.offers[o]
             \/ \E st \in OfferStatus : w.offers[o] = [view.offers[o] EXCEPT !.status = st]
    BY <1>3, <2>2
  <2>. HIDE DEF w
  <2>4. view'.loads = w.loads /\ view'.offers = w.offers
    BY <2>1, <2>3 DEF ListingShown, GoodView
  <2> QED BY <2>3, <2>4
<1>5. CASE b.op = "RejectOffer"
  <2>. DEFINE known == [p \in {b.on} |-> "Rejected"]
  <2>1. view' = OffersShown(view, known)
    BY <1>5 DEF Patched, OfferRejected
  <2>2. \A o \in DOMAIN known : known[o] \in OfferStatus
    BY DEF OfferStatus
  <2>. HIDE DEF known
  <2> QED BY <1>3, <2>1, <2>2
<1>6. CASE b.op = "CancelListing"
  <2>1. view' = ListingShown(view, b.on, "Cancelled")
    BY <1>6 DEF Patched, ListingCancelled
  <2> QED BY <1>1, <2>1 DEF ListingShown, GoodView
<1> QED BY <1>2, <1>4, <1>5, <1>6

\* Nothing that is pressed there changes the price of a load.
LEMMA ListingsKeepPrices ==
    ASSUME ScreenInv, page.on = "WebListings", NEW b \in Shows(page.on, view), b.op \in Writes,
           Does(page.user, b)
    PROVE  \A l \in Loads : loads'[l].price = loads[l].price
<1>1. b.op \in {"AcceptOffer", "RejectOffer", "CancelListing"}
  BY DriverRequests DEF DriverOnes, DriverLoadOnes, ScreenInv
<1>2. AcceptOffer(b.on) \/ RejectOffer(b.on) \/ CancelListing(b.on)
  BY <1>1 DEF Does
<1>3. CASE loads' = loads
  BY <1>3
<1>4. CASE AcceptOffer(b.on)
  <2>1. PICK l, d : loads' = Assigned(l, d)
    BY <1>4 DEF AcceptOffer
  <2>2. \A k \in Loads : loads[k] \in LoadRecord
    BY DEF ScreenInv, TypeOK
  <2> QED BY <2>1, <2>2 DEF Assigned, LoadRecord, ScreenInv, TypeOK
<1> QED BY <1>2, <1>3, <1>4 DEF RejectOffer, CloseOffer, CancelListing

LEMMA PressKeepsPrices ==
    ASSUME ScreenInv, PricesTrue, NEW b \in Shows(page.on, view), Press(b)
    PROVE  PricesTrue'
<1>1. b.op \in Writes /\ Does(page.user, b) /\ Next
  BY PressIsStep DEF Press
<1>2. /\ page \in Pages
      /\ page.on \notin Trusting => AfterTable[page.on][b.op] \in {Reload, ReloadOrBlank, Leave}
      /\ page.on \in Trusting => AfterTable[page.on][b.op] \in {Patch, Stay}
  BY <1>1, PressFacts
<1>3. page.on = "WebListings" => \A l \in Loads : loads'[l].price = loads[l].price
  BY <1>1, ListingsKeepPrices
<1>4. BidsStay /\ OffersStay
  BY <1>1, BidTermsKept, OfferTermsKept DEF ScreenInv
<1>5. CASE Gone
  BY <1>5 DEF Gone, Closed, PricesTrue, BidsAsMade, OffersAsMade, BidPages
<1>6. CASE Pressed(b) /\ Behind
  BY <1>1, <1>3, <1>6, OldPrices DEF Pressed, Behind
<1>7. CASE Pressed(b) /\ Fresh /\ page.on \notin Trusting
  <2>1. page' = page /\ page.on # "WebListings"
    BY <1>7 DEF Pressed, Trusting
  <2>2. CASE page.on \in BidPages
    <3>1. view' = Looks(page)'
      BY <1>7, <2>1, <2>2 DEF Fresh, Again, BidPages
    <3>2. (TypeOK => \A g \in Pages \cup {Closed} : BidsAsMade(g, Looks(g)))'
      BY FetchedBids, PTL
    <3>3. TypeOK'
      BY <1>1, NextType DEF ScreenInv
    <3> QED BY <1>2, <2>1, <3>1, <3>2, <3>3 DEF PricesTrue, OffersAsMade
  <2>3. CASE page.on \notin BidPages
    BY <2>1, <2>3 DEF PricesTrue, BidsAsMade, OffersAsMade
  <2> QED BY <2>2, <2>3
<1>8. CASE /\ Pressed(b) /\ page.on \in Trusting /\ since' = since
           /\ \/ AfterTable[page.on][b.op] = Patch /\ view' = Patched(b)
              \/ view' = view
  <2>1. page' = page /\ page.on \notin BidPages
    BY <1>8 DEF Pressed, Trusting, BidPages
  <2>2. CASE page.on # "WebListings"
    BY <2>1, <2>2 DEF PricesTrue, BidsAsMade, OffersAsMade
  <2>3. CASE page.on = "WebListings" /\ view' = view
    BY <1>1, <1>3, <1>8, <2>1, <2>3, OldPrices
  <2>4. CASE page.on = "WebListings" /\ view' = Patched(b)
    <3>1. /\ view'.loads = view.loads
          /\ DOMAIN view'.offers = DOMAIN view.offers
          /\ \A o \in DOMAIN view'.offers :
               \/ view'.offers[o] = view.offers[o]
               \/ \E st \in OfferStatus : view'.offers[o] = [view.offers[o] EXCEPT !.status = st]
      BY <1>1, <2>4, PatchKeepsPrices
    <3>. SUFFICES ASSUME NEW o \in DOMAIN view.offers
                  PROVE  /\ offers'[o].status # NoRow
                         /\ view'.offers[o] \in OfferRecord /\ view'.offers[o].status # NoRow
                         /\ view'.offers[o].amount = offers'[o].amount
                         /\ view'.offers[o].load = offers'[o].load
                         /\ since # "others" =>
                              view'.loads[offers'[o].load].price = loads'[offers'[o].load].price
      BY <1>8, <2>1, <3>1 DEF PricesTrue, BidsAsMade, OffersAsMade, OfferRecord
    <3>2. /\ offers[o].status # NoRow
          /\ view.offers[o] \in OfferRecord /\ view.offers[o].status # NoRow
          /\ view.offers[o].amount = offers[o].amount
          /\ view.offers[o].load = offers[o].load
          /\ since # "others" => view.loads[offers[o].load].price = loads[offers[o].load].price
      BY <2>4 DEF PricesTrue, OffersAsMade
    <3>3. o \in Offers
      BY DEF ScreenInv, GoodView
    <3>4. /\ offers'[o].status # NoRow
          /\ offers'[o].amount = offers[o].amount /\ offers'[o].load = offers[o].load
      BY <1>4, <3>2, <3>3 DEF OffersStay
    <3>5. ASSUME NEW st \in OfferStatus
          PROVE  /\ [view.offers[o] EXCEPT !.status = st] \in OfferRecord
                 /\ [view.offers[o] EXCEPT !.status = st].status # NoRow
                 /\ [view.offers[o] EXCEPT !.status = st].amount = view.offers[o].amount
                 /\ [view.offers[o] EXCEPT !.status = st].load = view.offers[o].load
      BY <3>2, NewStatusOnly, StatusUpdates
    <3>6. /\ view'.offers[o] \in OfferRecord /\ view'.offers[o].status # NoRow
          /\ view'.offers[o].amount = view.offers[o].amount
          /\ view'.offers[o].load = view.offers[o].load
      <4>1. CASE view'.offers[o] = view.offers[o]
        BY <3>2, <4>1
      <4>2. ASSUME NEW st \in OfferStatus, view'.offers[o] = [view.offers[o] EXCEPT !.status = st]
            PROVE  /\ view'.offers[o] \in OfferRecord /\ view'.offers[o].status # NoRow
                   /\ view'.offers[o].amount = view.offers[o].amount
                   /\ view'.offers[o].load = view.offers[o].load
        BY <3>5, <4>2, Zenon
      <4> QED BY <3>1, <4>1, <4>2
    <3>7. offers[o].load \in Loads
      BY <3>2 DEF OfferRecord, NoRow
    <3> QED BY <1>3, <2>4, <3>1, <3>2, <3>4, <3>6, <3>7
  <2> QED BY <1>8, <2>2, <2>3, <2>4
<1> QED BY <1>1, <1>2, <1>5, <1>6, <1>7, <1>8
        DEF Press, Answered, Patch, Stay, Reload, ReloadOrBlank, Leave

LEMMA PricesStep ==
    ASSUME ScreenInv, PricesTrue, [ScreenNext]_all
    PROVE  PricesTrue'
<1>1. ASSUME NEW g \in Pages, Open(g) PROVE PricesTrue'
  <2>1. page' = g /\ view' = Looks(g) /\ UNCHANGED <<vars, since>>
    BY <1>1 DEF Open
  <2>2. BidsAsMade(g, Looks(g)) /\ OffersAsMade(g, Looks(g), since)
    BY FetchedPrices DEF ScreenInv
  <2>3. BidsAsMade(g, Looks(g))' /\ OffersAsMade(g, Looks(g), since)'
    BY <2>1, <2>2, LooksSame DEF BidsAsMade, OffersAsMade, OfferRecord, vars
  <2>4. Looks(g)' = Looks(g)
    BY <2>1, LooksSame
  <2> QED BY <2>1, <2>3, <2>4 DEF PricesTrue
<1>2. CASE Close
  BY <1>2 DEF Close, Closed, PricesTrue, BidsAsMade, OffersAsMade, BidPages
<1>3. ASSUME NEW b \in Shows(page.on, view), Press(b) PROVE PricesTrue'
  BY <1>3, PressKeepsPrices
<1>4. CASE UNCHANGED <<vars, screen>>
  BY <1>4 DEF screen, vars, PricesTrue, BidsAsMade, OffersAsMade, OfferRecord
<1>5. CASE Meanwhile
  <2>1. CASE page = Closed /\ UNCHANGED screen
    BY <2>1 DEF screen, Closed, PricesTrue, BidsAsMade, OffersAsMade, BidPages
  <2>2. CASE since' = "others" /\ page' = page /\ view' = view
    BY <1>5, <2>2, OldPrices DEF Meanwhile, World
  <2> QED BY <1>5, <2>1, <2>2 DEF Meanwhile
<1> QED BY <1>1, <1>2, <1>3, <1>4, <1>5, AsideSteps DEF all

\* Only these pages offer to accept something.
LEMMA WhoAccepts ==
    ASSUME NEW on, NEW v, NEW b \in Shows(on, v), b.op \in {"AcceptBid", "AcceptOffer"}
    PROVE  \/ on \in BidPages /\ b \in Acceptances(v)
           \/ on = "WebListings" /\ b \in {Button("AcceptOffer", o, OfferPrice(v, o)) : o \in Answerable(v)}
<1>1. CASE on \in BidPages \cup {"WebListings"}
  <2>1. CASE on = "WebLoad"
    BY <2>1 DEF Shows, BidPages, WebLoadButtons, Buttons, Button
  <2>2. CASE on = "PhoneLoad"
    BY <2>2 DEF Shows, BidPages, PhoneLoadButtons, PhoneBidCard, Buttons, Button
  <2>3. CASE on \in {"WebBids", "PhoneBids"}
    BY <2>3 DEF Shows, BidPages, WebBidsButtons, PhoneBidsButtons, Button
  <2>4. CASE on = "WebListings"
    BY <2>4 DEF Shows, WebListingsButtons, Buttons, Button
  <2> QED BY <1>1, <2>1, <2>2, <2>3, <2>4 DEF BidPages
<1>2. CASE on \in CustomerOnes \ {"WebBids", "PhoneBids"}
  BY <1>2 DEF CustomerOnes, Shows, WebLoadsButtons, PhoneLoadsButtons, WebHomeButtons,
     PhoneHomeButtons, WebHistoryButtons, PhoneHistoryButtons, WebTrackButtons, Linked,
     WebVehiclesButtons, WebOffersButtons, Buttons, Button
<1>3. CASE on \in (DriverOnes \cup DriverLoadOnes) \ {"WebListings"}
  <2>1. CASE on \in {"WebTender", "PhoneTender"}
    BY <2>1 DEF Shows, WebTenderButtons, PhoneTenderButtons, BidForms, Buttons, Button
  <2>2. CASE on \in {"WebTrip", "PhoneTrip", "PhoneTripCrowded"}
    BY <2>2 DEF Shows, WebTripButtons, PhoneTripButtons, CanDeliver, Buttons, Button
  <2>3. CASE on \in {"WebBoard", "PhoneBoard", "WebDriverHome", "PhoneDriverHome"}
    BY <2>3 DEF Shows, WebBoardButtons, PhoneBoardButtons, WebDriverHomeButtons,
       PhoneDriverHomeButtons, Buttons, Button
  <2>4. CASE on \in {"WebOwnBids", "PhoneOwnBids"}
    BY <2>4 DEF Shows, WebOwnBidsButtons, PhoneOwnBidsButtons, Buttons, Button
  <2> QED BY <1>3, <2>1, <2>2, <2>3, <2>4 DEF DriverOnes, DriverLoadOnes
<1>4. CASE on \in AdminOnes \cup {"WebAdminLoad"}
  BY <1>4 DEF AdminOnes, Shows, PhoneAdminLoadsButtons, PhoneCancelLoad, WebAdminLoadsButtons,
     WebAdminLoadButtons, WebAdminPaymentsButtons, PhoneAdminPaymentsButtons,
     WebAdminListingsButtons, Buttons, Button
<1>5. CASE on \notin CustomerOnes \cup CustomerLoadOnes \cup DriverOnes \cup DriverLoadOnes
                     \cup AdminOnes \cup {"WebAdminLoad"}
  BY <1>5 DEF CustomerOnes, CustomerLoadOnes, DriverOnes, DriverLoadOnes, AdminOnes, Shows
<1> QED BY <1>1, <1>2, <1>3, <1>4, <1>5 DEF CustomerLoadOnes, BidPages

LEMMA PriceOfButton ==
    ASSUME PricesTrue, NEW b \in Shows(page.on, view), b.op \in {"AcceptBid", "AcceptOffer"}
    PROVE  \/ b.price = AgreedPrice(b)
           \/ b.op = "AcceptOffer" /\ offers[b.on].amount = None /\ since = "others"
<1>1. CASE page.on \in BidPages /\ b \in Acceptances(view)
  <2>1. PICK k \in DOMAIN view.bids : b = Button("AcceptBid", k, view.bids[k].amount)
    BY <1>1 DEF Acceptances, OpenBids, BidsIn
  <2>2. view.bids[k].amount = bids[k].amount
    BY <1>1 DEF PricesTrue, BidsAsMade
  <2> QED BY <2>1, <2>2 DEF AgreedPrice, Button
<1>2. CASE /\ page.on = "WebListings"
           /\ b \in {Button("AcceptOffer", o, OfferPrice(view, o)) : o \in Answerable(view)}
  <2>1. PICK o \in DOMAIN view.offers : b = Button("AcceptOffer", o, OfferPrice(view, o))
    BY <1>2 DEF Answerable, OffersIn
  <2>2. /\ view.offers[o].amount = offers[o].amount
        /\ view.offers[o].load = offers[o].load
        /\ since # "others" => view.loads[offers[o].load].price = loads[offers[o].load].price
    BY <1>2 DEF PricesTrue, OffersAsMade
  <2>3. b.op = "AcceptOffer" /\ b.on = o /\ b.price = OfferPrice(view, o)
    BY <2>1 DEF Button
  <2> QED BY <2>2, <2>3 DEF AgreedPrice, OfferedAmount, OfferPrice
<1> QED BY <1>1, <1>2, WhoAccepts

-------------------------------------------------------------------------------
(* The same button once more. *)

\* What a request that was carried out leaves behind, and what refuses it the next time.
Done(u, b) ==
    \/ b.op \in {"AcceptBid", "CancelBid"} /\ bids[b.on].status # "Pending"
    \/ b.op \in {"CancelLoad", "AdminCancelLoad"} /\ loads[b.on].status = "Cancelled"
    \/ b.op = "SubmitBid" /\ \E c \in BidsBy(u) : bids[c].load = b.on
    \/ b.op = "CreateOffer" /\ \E c \in OffersTo(b.on[1], "Pending") : offers[c].load = b.on[2]
    \/ b.op \in {"WithdrawOffer", "AcceptOffer", "RejectOffer"} /\ offers[b.on].status # "Pending"
    \/ b.op \in {"CancelListing", "AdminCancelListing"} /\ listings[b.on] # "Active"
    \/ b.op = "Pickup" /\ loads[b.on].status # "Assigned"
    \/ b.op = "Deliver" /\ loads[b.on].status \notin {"OnWay", "Arrived"}
    \/ b.op = "AdminRelease" /\ payments[b.on].status # "Blocked"

LEMMA LoadsHaveStatus ==
    ASSUME TypeOK, NEW l \in Loads, NEW st, loads' = [loads EXCEPT ![l].status = st]
    PROVE  loads'[l].status = st
<1>1. loads[l] \in LoadRecord /\ loads'[l] = [loads[l] EXCEPT !.status = st]
  BY DEF TypeOK
<1> QED BY <1>1 DEF LoadRecord

LEMMA PressIsDone ==
    ASSUME TypeOK, OneEscrow, NEW u, NEW b, Addressed(b), Does(u, b)
    PROVE  Done(u, b)'
<1>1. CASE b.op = "AcceptBid"
  <2>1. AcceptBid(b.on) /\ b.on \in Bids
    BY <1>1 DEF Does, Addressed
  <2>2. bids'[b.on] = [bids[b.on] EXCEPT !.status = "Accepted"] /\ bids[b.on] \in BidRecord
    BY <2>1 DEF AcceptBid, TypeOK
  <2> QED BY <1>1, <2>2 DEF Done, BidRecord
<1>2. CASE b.op = "CancelBid"
  <2>1. CancelBid(b.on) /\ b.on \in Bids
    BY <1>2 DEF Does, Addressed
  <2>2. bids'[b.on] = [bids[b.on] EXCEPT !.status = "Cancelled"] /\ bids[b.on] \in BidRecord
    BY <2>1 DEF CancelBid, TypeOK
  <2> QED BY <1>2, <2>2 DEF Done, BidRecord
<1>3. CASE b.op \in {"CancelLoad", "AdminCancelLoad"}
  <2>1. b.on \in Loads /\ loads' = [loads EXCEPT ![b.on].status = "Cancelled"]
    BY <1>3 DEF Does, Addressed, CancelLoad
  <2> QED BY <1>3, <2>1, LoadsHaveStatus DEF Done
<1>4. CASE b.op = "SubmitBid"
  <2>1. PICK k \in Bids : SubmitBid(k, b.on, u, b.price)
    BY <1>4 DEF Does
  <2>2. bids'[k] = [status |-> "Pending", load |-> b.on, driver |-> u, amount |-> b.price]
    BY <2>1 DEF SubmitBid, TypeOK
  <2> QED BY <1>4, <2>2 DEF Done, BidsBy, NoRow
<1>5. CASE b.op = "CreateOffer"
  <2>1. PICK o \in Offers : CreateOffer(o, b.on[1], b.on[2], b.price)
    BY <1>5 DEF Does
  <2>2. offers'[o] = [status |-> "Pending", listing |-> b.on[1], load |-> b.on[2], amount |-> b.price]
    BY <2>1 DEF CreateOffer, TypeOK
  <2> QED BY <1>5, <2>2 DEF Done, OffersTo
<1>6. CASE b.op \in {"WithdrawOffer", "RejectOffer"}
  <2>1. PICK st \in {"Withdrawn", "Rejected"} : CloseOffer(b.on, st)
    BY <1>6 DEF Does, WithdrawOffer, RejectOffer
  <2>2. b.on \in Offers
    BY <1>6 DEF Addressed
  <2>3. offers'[b.on] = [offers[b.on] EXCEPT !.status = st] /\ offers[b.on] \in OfferRecord
    BY <2>1, <2>2 DEF CloseOffer, TypeOK
  <2> QED BY <1>6, <2>3 DEF Done, OfferRecord
<1>7. CASE b.op = "AcceptOffer"
  <2>1. AcceptOffer(b.on) /\ b.on \in Offers
    BY <1>7 DEF Does, Addressed
  <2>2. PICK r \in OfferRecord : offers'[b.on] = [r EXCEPT !.status = "Accepted"]
    <3>1. PICK S : offers' = [RejectedOffers(S) EXCEPT ![b.on].status = "Accepted"]
      BY <2>1 DEF AcceptOffer
    <3>2. offers'[b.on] = [RejectedOffers(S)[b.on] EXCEPT !.status = "Accepted"]
      BY <2>1, <3>1 DEF RejectedOffers
    <3>3. RejectedOffers(S)[b.on] \in OfferRecord
      <4>1. offers[b.on] \in OfferRecord /\ offers[b.on].status # NoRow
        BY <2>1 DEF AcceptOffer, TypeOK, NoRow
      <4> QED BY <2>1, <4>1 DEF RejectedOffers, OfferRecord, OfferStatus
    <3> QED BY <3>2, <3>3
  <2> QED BY <1>7, <2>2 DEF Done, OfferRecord
<1>8. CASE b.op \in {"CancelListing", "AdminCancelListing"}
  <2>1. b.on \in Listings /\ listings' = [listings EXCEPT ![b.on] = "Cancelled"]
    BY <1>8 DEF Does, Addressed, CancelListing, AdminCancelListing
  <2> QED BY <1>8, <2>1 DEF Done, TypeOK
<1>9. CASE b.op = "Pickup"
  <2>1. b.on \in Loads /\ loads' = [loads EXCEPT ![b.on].status = "OnWay"]
    BY <1>9 DEF Does, Addressed, Pickup
  <2> QED BY <1>9, <2>1, LoadsHaveStatus DEF Done
<1>10. CASE b.op = "Deliver"
  <2>1. b.on \in Loads /\ loads' = [loads EXCEPT ![b.on].status = "Delivered"]
    BY <1>10 DEF Does, Addressed, Deliver
  <2> QED BY <1>10, <2>1, LoadsHaveStatus DEF Done
<1>11. CASE b.op = "AdminRelease"
  <2>1. AdminRelease(b.on) /\ b.on \in Payments
    BY <1>11 DEF Does, Addressed
  <2>2. PICK p \in BlockedOn(payments[b.on].load) : payments' = [payments EXCEPT ![p].status = "Released"]
    BY <2>1 DEF AdminRelease, Release
  <2>3. p = b.on
    BY <2>1, <2>2 DEF AdminRelease, OneEscrow, BlockedOn, PaymentsOf
  <2>4. payments[p] \in PaymentRecord /\ payments'[p] = [payments[p] EXCEPT !.status = "Released"]
    BY <2>1, <2>2, <2>3 DEF TypeOK
  <2> QED BY <1>11, <2>3, <2>4 DEF Done, PaymentRecord
<1> QED BY <1>1, <1>2, <1>3, <1>4, <1>5, <1>6, <1>7, <1>8, <1>9, <1>10, <1>11 DEF Addressed

\* What is done is refused.
LEMMA DoneIsRefused ==
    ASSUME NEW u, NEW b, Done(u, b)
    PROVE  ~Does(u, b)
BY DEF Done, Does, AcceptBid, CancelBid, CancelLoad, SubmitBid, BidsBy, CreateOffer, WithdrawOffer,
   RejectOffer, CloseOffer, AcceptOffer, CancelListing, AdminCancelListing, Pickup, Deliver, AdminRelease

\* A page that is behind by its own press alone finds that press done.
LastIsDone ==
    /\ page = Closed => since = "nothing"
    /\ since = "own" => Done(page.user, last)

LEMMA LastStep ==
    ASSUME ScreenInv, OneEscrow, LastIsDone, [ScreenNext]_all
    PROVE  LastIsDone'
<1>1. ASSUME NEW g \in Pages, Open(g) PROVE LastIsDone'
  <2>1. g # Closed /\ page' = g /\ since' = "nothing"
    BY <1>1 DEF Open, LastIsDone, Closed, Pages, Page, CustomerOnes, CustomerLoadOnes, DriverOnes,
       DriverLoadOnes, AdminOnes
  <2> QED BY <2>1 DEF LastIsDone
<1>2. CASE Close \/ Gone
  BY <1>2 DEF Close, Gone, LastIsDone
<1>3. ASSUME NEW b \in Shows(page.on, view), Press(b) PROVE LastIsDone'
  <2>1. CASE Gone
    BY <1>2, <2>1
  <2>2. CASE Pressed(b)
    <3>1. PICK u : u = page.user
      OBVIOUS
    <3>2. Addressed(b) /\ page # Closed /\ TypeOK /\ Does(u, b)
      BY <1>3, <3>1, PressFacts DEF Press, ScreenInv
    <3>3. Done(u, b)'
      BY <3>2, PressIsDone
    <3>4. page' = page /\ page'.user = u /\ last' = b
      BY <2>2, <3>1 DEF Pressed
    <3>5. Done(page.user, last)'
      BY <3>3, <3>4 DEF Done, BidsBy, OffersTo
    <3> QED BY <3>2, <3>4, <3>5 DEF LastIsDone
  <2> QED BY <1>3, <2>1, <2>2 DEF Press, Answered
<1>4. ASSUME UNCHANGED <<vars, screen>> PROVE LastIsDone'
  BY <1>4 DEF LastIsDone, Done, BidsBy, OffersTo, vars, screen
<1>5. CASE Meanwhile
  BY <1>5 DEF Meanwhile, LastIsDone, screen
<1> QED BY <1>1, <1>2, <1>3, <1>4, <1>5, AsideSteps DEF all

-------------------------------------------------------------------------------
(* No page shows a button in vain. *)

\* Between two requests the tables are in a state in which all of this holds.
Sound == FreightInv /\ BlockedIsHeld /\ BlockedCanBePaid

Honoured(on, u, b) == Accepts(u, b) \/ Refusals(u, b) \cap Overlooks(on) # {}

\* On the market a load has no driver, no accepted bid and no Blocked payment.
LEMMA MarketIsFree ==
    ASSUME Sound, NEW l \in Loads, loads[l].status = "Active"
    PROVE  loads[l].driver = None /\ BlockedOn(l) = {} /\ ~HasAcceptedBid(l)
<1>1. loads[l].driver = None /\ AgreementsOn(l) = {}
  BY DEF Sound, FreightInv, OneAgreement
<1>2. BlockedOn(l) = {}
  BY <1>1, FreightAssumption DEF Sound, BlockedIsHeld
<1> QED BY <1>1, <1>2 DEF HasAcceptedBid, AgreementsOn, EscrowStates

\* From the agreement to the delivery it has one.
LEMMA CarriedBySomebody ==
    ASSUME FreightInv, NEW l \in Loads, loads[l].status \in EscrowStates \cup {"Delivered"}
    PROVE  loads[l].driver \in Drivers /\ loads[l].driver # None
<1>1. PICK a \in AgreementsOn(l) : AgreedDriver(a) = loads[l].driver
  BY DEF FreightInv, OneAgreement
<1>2. CASE a \in Bids
  <2>1. bids[a].status = "Accepted"
    BY <1>1, <1>2, FreightAssumption DEF AgreementsOn, BidsOn
  <2>2. bids[a].driver \in Drivers
    BY <1>2, <2>1 DEF FreightInv, TypeOK, BidRecord, NoRow
  <2> QED BY <1>1, <1>2, <2>2, FreightAssumption DEF AgreedDriver
<1>3. CASE a \notin Bids
  <2>1. a \in Offers /\ offers[a].status = "Accepted"
    BY <1>1, <1>3 DEF AgreementsOn, BidsOn
  <2>2. offers[a].listing \in Listings
    BY <2>1 DEF FreightInv, TypeOK, OfferRecord, NoRow
  <2> QED BY <1>1, <1>3, <2>2, FreightAssumption DEF AgreedDriver
<1> QED BY <1>2, <1>3

\* Bids and offers.
LEMMA AcceptBidHonoured ==
    ASSUME Sound, NEW on \in BidPages, NEW u, NEW b, b.op = "AcceptBid", b.on \in Bids,
           bids[b.on].status = "Pending", loads[bids[b.on].load].status = "Active"
    PROVE  Honoured(on, u, b)
<1>1. bids[b.on].load \in Loads
  BY DEF Sound, FreightInv, TypeOK, BidRecord, NoRow
<1>2. BlockedOn(bids[b.on].load) = {}
  BY <1>1, MarketIsFree
<1>3. CASE \A p \in Payments : payments[p].status # NoRow
  <2>1. "no row left" \in Refusals(u, b) /\ "no row left" \in Overlooks(on)
    BY <1>3 DEF Refusals, Overlooks, BidPages
  <2> QED BY <2>1 DEF Honoured
<1>4. CASE \E p \in Payments : payments[p].status = NoRow
  BY <1>2, <1>4 DEF Honoured, Accepts, Ready, CanHold, Writes
<1> QED BY <1>3, <1>4

LEMMA SubmitBidHonoured ==
    ASSUME Sound, NEW on \in {"WebTender", "PhoneTender"}, NEW u, NEW b, b.op = "SubmitBid",
           b.on \in Loads, b.price \in Amounts \ {0}
    PROVE  Honoured(on, u, b)
<1>1. b.price > 0
  <2>1. PICK amount \in Nat \ {0} : amount = b.price
    BY FreightAssumption
  <2> QED BY <2>1
<1>2. Overlooks(on) = {"closed", "bid before", "no row left"}
  BY DEF Overlooks
<1>3. CASE loads[b.on].status # "Active"
  BY <1>2, <1>3 DEF Refusals, Honoured
<1>4. CASE \E k \in BidsBy(u) : bids[k].load = b.on
  BY <1>2, <1>4 DEF Refusals, Honoured
<1>5. CASE \A k \in Bids : bids[k].status # NoRow
  BY <1>2, <1>5 DEF Refusals, Honoured
<1>6. CASE /\ loads[b.on].status = "Active"
           /\ \A k \in BidsBy(u) : bids[k].load # b.on
           /\ \E k \in Bids : bids[k].status = NoRow
  BY <1>1, <1>6 DEF Honoured, Accepts, Ready, Writes
<1> QED BY <1>3, <1>4, <1>5, <1>6

LEMMA CreateOfferHonoured ==
    ASSUME NEW u, NEW b, b.op = "CreateOffer", listings[b.on[1]] = "Active",
           loads[b.on[2]].status = "Active"
    PROVE  Honoured("WebVehicles", u, b)
<1>1. Overlooks("WebVehicles") = {"offered before", "no row left"}
  BY DEF Overlooks
<1>2. CASE \E o \in OffersTo(b.on[1], "Pending") : offers[o].load = b.on[2]
  BY <1>1, <1>2 DEF Refusals, Honoured
<1>3. CASE \A o \in Offers : offers[o].status # NoRow
  BY <1>1, <1>3 DEF Refusals, Honoured
<1>4. CASE /\ \A o \in OffersTo(b.on[1], "Pending") : offers[o].load # b.on[2]
           /\ \E o \in Offers : offers[o].status = NoRow
  BY <1>4 DEF Honoured, Accepts, Ready, Writes
<1> QED BY <1>2, <1>3, <1>4

LEMMA AcceptOfferHonoured ==
    ASSUME Sound, NEW u, NEW b, b.op = "AcceptOffer", b.on \in Offers,
           offers[b.on].status = "Pending", listings[offers[b.on].listing] = "Active"
    PROVE  Honoured("WebListings", u, b)
<1>1. offers[b.on].load \in Loads
  BY DEF Sound, FreightInv, TypeOK, OfferRecord, NoRow
<1>2. Overlooks("WebListings") = {"closed", "no row left"}
  BY DEF Overlooks
<1>3. CASE loads[offers[b.on].load].status # "Active"
  BY <1>2, <1>3 DEF Refusals, Honoured
<1>4. CASE \A p \in Payments : payments[p].status # NoRow
  BY <1>2, <1>4 DEF Refusals, Honoured
<1>5. CASE loads[offers[b.on].load].status = "Active" /\ \E p \in Payments : payments[p].status = NoRow
  <2>1. BlockedOn(offers[b.on].load) = {}
    BY <1>1, <1>5, MarketIsFree
  <2> QED BY <1>5, <2>1 DEF Honoured, Accepts, Ready, CanHold, Writes
<1> QED BY <1>3, <1>4, <1>5

LEMMA ClosingHonoured ==
    ASSUME NEW on, NEW u, NEW b,
           \/ b.op = "CancelBid" /\ bids[b.on].status = "Pending"
           \/ b.op \in {"WithdrawOffer", "RejectOffer"} /\ offers[b.on].status = "Pending"
           \/ b.op \in {"CancelListing", "AdminCancelListing"} /\ listings[b.on] = "Active"
    PROVE  Honoured(on, u, b)
BY DEF Honoured, Accepts, Ready, Writes

\* Loads, trips and payments.
LEMMA OwnersHonoured ==
    ASSUME Sound, NEW on, NEW u, NEW b, b.op \in {"CancelLoad", "Edit"}, b.on \in Loads,
           loads[b.on].status = "Active"
    PROVE  Honoured(on, u, b)
<1>1. ~HasAcceptedBid(b.on)
  BY MarketIsFree
<1> QED BY <1>1 DEF Honoured, Accepts, Ready, Allows, Writes, CanCustomerCancel

LEMMA TripHonoured ==
    ASSUME Sound, NEW on \in {"WebTrip", "PhoneTrip"}, NEW u, NEW b, b.on \in Loads,
           \/ b.op = "Pickup" /\ loads[b.on].status = "Assigned"
           \/ b.op = "Deliver" /\ loads[b.on].status \in {"OnWay", "Arrived"}
    PROVE  Honoured(on, u, b)
<1>1. loads[b.on].driver # None
  BY CarriedBySomebody DEF EscrowStates, Sound
<1>2. CASE b.op = "Pickup"
  BY <1>1, <1>2 DEF Honoured, Accepts, Ready, Writes
<1>3. CASE b.op = "Deliver"
  <2>1. {"no code", "far away", "paid already"} \subseteq Overlooks(on)
    BY DEF Overlooks
  <2>2. CASE qr[b.on] # "valid"
    BY <1>3, <2>1, <2>2 DEF Refusals, Honoured
  <2>3. CASE BlockedOn(b.on) = {}
    BY <1>3, <2>1, <2>3 DEF Refusals, Honoured
  <2>4. CASE ~InPlace(loads[b.on].driver, b.on)
    BY <1>3, <2>1, <2>4 DEF Refusals, Honoured
  <2>5. CASE Proven(b.on) /\ BlockedOn(b.on) # {}
    <3>1. HoldIsCovered(b.on)
      BY <2>5 DEF Sound, BlockedCanBePaid
    <3> QED BY <1>1, <1>3, <2>5, <3>1 DEF Honoured, Accepts, Ready, Writes, CanRelease, CanBeDelivered
  <2> QED BY <2>2, <2>3, <2>4, <2>5 DEF Proven
<1> QED BY <1>2, <1>3

LEMMA ReleaseHonoured ==
    ASSUME Sound, NEW on, NEW u, NEW b, b.op = "AdminRelease", b.on \in Payments,
           payments[b.on].status = "Blocked"
    PROVE  Honoured(on, u, b)
<1>1. PICK l \in Loads : l = payments[b.on].load
  BY DEF Sound, FreightInv, TypeOK, PaymentRecord, NoRow
<1>2. b.on \in BlockedOn(l)
  BY <1>1 DEF BlockedOn, PaymentsOf, NoRow
<1>3. loads[l].driver # None /\ HoldIsCovered(l)
  BY <1>2, FreightAssumption DEF Sound, BlockedIsHeld, BlockedCanBePaid
<1> QED BY <1>1, <1>2, <1>3 DEF Honoured, Accepts, Ready, Writes, CanRelease

LEMMA AdminCancelHonoured ==
    ASSUME Sound, NEW on, NEW u, NEW b, b.op = "AdminCancelLoad", b.on \in Loads,
           \/ on = "PhoneAdminLoads" /\ loads[b.on].status \in {"Active", "Assigned"}
           \/ on = "WebAdminLoads" /\ loads[b.on].status # NoRow
           \/ on = "WebAdminLoad" /\ loads[b.on].status \in LoadStatus \ {"Cancelled", "Delivered"}
    PROVE  Honoured(on, u, b)
<1>1. CanRefund(b.on)
  BY DEF Sound, BlockedCanBePaid, CanRefund
<1>2. CASE loads[b.on].status \in {"Active", "Assigned"}
  BY <1>1, <1>2 DEF Honoured, Accepts, Ready, Writes, CanAdminCancel
<1>3. CASE loads[b.on].status \in {"OnWay", "Arrived"}
  <2>1. "under way" \in Refusals(u, b)
    BY <1>3 DEF Refusals
  <2>2. "under way" \in Overlooks(on)
    BY <1>3 DEF Overlooks
  <2> QED BY <2>1, <2>2 DEF Honoured
<1>4. CASE loads[b.on].status \in {"Delivered", "Cancelled"}
  <2>1. on = "WebAdminLoads" /\ "over" \in Refusals(u, b)
    BY <1>4 DEF Refusals
  <2> QED BY <2>1 DEF Honoured, Overlooks
<1>5. loads[b.on].status \in LoadStatus
  <2>1. loads[b.on] \in LoadRecord
    BY DEF Sound, FreightInv, TypeOK
  <2>2. loads[b.on].status # NoRow
    BY DEF LoadStatus, NoRow
  <2> QED BY <2>1, <2>2 DEF LoadRecord
<1> QED BY <1>2, <1>3, <1>4, <1>5 DEF LoadStatus

\* What is only looked at.
LEMMA LooksHonoured ==
    ASSUME Sound, NEW on, NEW u, NEW b, b.on \in Loads,
           \/ b.op = "ShowQr" /\ loads[b.on].status \in {"Assigned", "OnWay"}
           \/ b.op = "Locate" /\ (loads[b.on].driver # None \/ loads[b.on].status \in {"Assigned", "OnWay"})
           \/ b.op = "Chat" /\ MayChat(u, b.on)
           \/ /\ b.op = "Rate" /\ loads[b.on].status = "Delivered" /\ MayChat(u, b.on)
              /\ on \in {"WebLoad", "PhoneLoad", "PhoneTrip"}
           \/ b.op = "Link" /\ (u = Admin \/ Owner[b.on] = u \/ b.on \in MayView(u))
    PROVE  Honoured(on, u, b)
<1>1. loads[b.on].status \in {"Assigned", "OnWay", "Delivered"} => loads[b.on].driver # None
  BY CarriedBySomebody DEF EscrowStates, Sound
<1>2. CASE b.op = "Rate" /\ <<u, b.on>> \in rated
  <2>1. "rated before" \in Refusals(u, b) /\ "rated before" \in Overlooks(on)
    BY <1>2 DEF Refusals, Overlooks
  <2> QED BY <2>1 DEF Honoured
<1>3. CASE ~(b.op = "Rate" /\ <<u, b.on>> \in rated)
  <2>1. Allows(u, b)
    BY <1>1, <1>3 DEF Allows, HasQr, MayRate
  <2> QED BY <2>1 DEF Honoured, Accepts, Writes
<1> QED BY <1>2, <1>3

\* The rows of a view that was just fetched are those of the tables.
LEMMA RowsSeen ==
    ASSUME NEW ls, NEW bs, NEW is, NEW os, NEW ps, NEW v, v = Sees(ls, bs, is, os, ps)
    PROVE  /\ DOMAIN v.loads = ls /\ \A l \in ls : v.loads[l] = loads[l]
           /\ DOMAIN v.bids = bs /\ \A k \in bs : v.bids[k] = bids[k]
           /\ DOMAIN v.listings = is /\ \A i \in is : v.listings[i] = listings[i]
           /\ DOMAIN v.offers = os /\ \A o \in os : v.offers[o] = offers[o]
           /\ DOMAIN v.payments = ps /\ \A p \in ps : v.payments[p] = payments[p]
BY DEF Sees, Restrict

\* The pages of one load, and of the bids on all loads, of a customer.
LEMMA AcceptancesHonoured ==
    ASSUME Sound, NEW ls \in SUBSET Loads, NEW v, v = Sees(ls, BidsFor(ls), {}, {}, {}),
           NEW on \in BidPages, NEW u, NEW b \in Acceptances(v)
    PROVE  Honoured(on, u, b)
<1>1. PICK k \in OpenBids(v) : b = Button("AcceptBid", k, v.bids[k].amount)
  BY DEF Acceptances
<1>2. k \in Bids /\ bids[k].status = "Pending" /\ loads[bids[k].load].status = "Active"
  <2>1. /\ DOMAIN v.loads = ls /\ \A l \in ls : v.loads[l] = loads[l]
        /\ DOMAIN v.bids = BidsFor(ls) /\ \A c \in BidsFor(ls) : v.bids[c] = bids[c]
    BY RowsSeen
  <2> QED BY <1>1, <2>1 DEF OpenBids, BidsIn, LoadsIn, BidsFor
<1>3. b.op = "AcceptBid" /\ b.on = k
  BY <1>1 DEF Button
<1> QED BY <1>2, <1>3, AcceptBidHonoured

LEMMA CustomerLoadHonoured ==
    ASSUME Sound, NEW g, g.on \in CustomerLoadOnes, NEW b \in Shows(g.on, Looks(g))
    PROVE  Honoured(g.on, g.user, b)
<1>. DEFINE ls == {g.load} \cap LoadsOf(g.user)
            v == Looks(g)
<1>1. v = Sees(ls, BidsFor(ls), {}, {}, {})
  BY DEF CustomerLoadOnes, Looks, WebLoadLooks, PhoneLoadLooks
<1>2. ls \in SUBSET Loads /\ \A l \in ls : Owner[l] = g.user
  BY DEF LoadsOf, Stored
<1>3. DOMAIN v.loads = ls /\ \A l \in ls : v.loads[l] = loads[l]
  BY <1>1, RowsSeen
<1>4. CASE b \in Acceptances(v)
  BY <1>1, <1>2, <1>4, AcceptancesHonoured DEF CustomerLoadOnes, BidPages
<1>5. CASE b \notin Acceptances(v)
  <2>. HIDE DEF ls, v
  <2>1. PICK l \in ls :
           \/ /\ b \in {Button("CancelLoad", l, None), Button("Edit", l, None)}
              /\ loads[l].status = "Active"
           \/ /\ b \in {Button("ShowQr", l, None), Button("Locate", l, None)}
              /\ loads[l].status \in {"Assigned", "OnWay"}
           \/ b = Button("Chat", l, None)
           \/ b = Button("Rate", l, None) /\ loads[l].status = "Delivered"
    <3>1. CASE g.on = "WebLoad"
      BY <1>3, <1>5, <3>1 DEF v, Shows, WebLoadButtons, Buttons, Withdrawable, UnderWay, HasDriver, LoadsIn
    <3>2. CASE g.on = "PhoneLoad"
      BY <1>3, <1>5, <3>2 DEF v, Shows, PhoneLoadButtons, PhoneBidCard, Buttons, Withdrawable,
         UnderWay, HasDriver, LoadsIn
    <3> QED BY <3>1, <3>2 DEF CustomerLoadOnes
  <2>2. l \in Loads /\ MayChat(g.user, l)
    BY <1>2 DEF MayChat
  <2> QED BY <2>1, <2>2, OwnersHonoured, LooksHonoured DEF Button, CustomerLoadOnes
<1> QED BY <1>4, <1>5

LEMMA CustomerHonoured ==
    ASSUME Sound, NEW g, g.on \in CustomerOnes, NEW b \in Shows(g.on, Looks(g))
    PROVE  Honoured(g.on, g.user, b)
<1>. DEFINE u == g.user
            v == Looks(g)
            market == WithStatus(LoadsOf(u), {"Active"})
<1>1. LoadsOf(u) \in SUBSET Loads /\ market \in SUBSET LoadsOf(u) /\ \A l \in LoadsOf(u) : Owner[l] = u
  BY DEF LoadsOf, Stored, WithStatus
<1>2. ASSUME NEW l \in Loads, Owner[l] = u, b = Button("Link", l, None) PROVE Honoured(g.on, u, b)
  BY <1>2, LooksHonoured DEF Button
<1>3. CASE g.on \in {"WebBids", "PhoneBids"}
  <2>1. v = Sees(market, BidsFor(market), {}, {}, {})
    BY <1>3 DEF Looks, WebBidsLooks, PhoneBidsLooks
  <2>2. DOMAIN v.bids = BidsFor(market) /\ \A k \in BidsFor(market) : v.bids[k] = bids[k]
    BY <2>1, RowsSeen
  <2>3. CASE b \in Acceptances(v)
    BY <1>1, <1>3, <2>1, <2>3, AcceptancesHonoured DEF BidPages
  <2>4. CASE b \notin Acceptances(v)
    <3>1. PICK k \in DOMAIN v.bids : b = Button("Link", v.bids[k].load, None)
      BY <1>3, <2>4 DEF Shows, WebBidsButtons, PhoneBidsButtons
    <3>2. v.bids[k].load \in LoadsOf(u)
      BY <1>1, <2>2, <3>1 DEF BidsFor
    <3> QED BY <1>1, <1>2, <3>1, <3>2
  <2> QED BY <2>3, <2>4
<1>4. CASE g.on \in {"WebLoads", "PhoneLoads", "WebHome", "PhoneHome", "WebHistory", "PhoneHistory"}
  <2>1. PICK ls \in SUBSET LoadsOf(u) : v = Sees(ls, {}, {}, {}, {})
    BY <1>4 DEF Looks, WebLoadsLooks, PhoneLoadsLooks, WebHomeLooks, PhoneHomeLooks,
       WebHistoryLooks, PhoneHistoryLooks, WithStatus
  <2>2. DOMAIN v.loads = ls
    BY <2>1, RowsSeen
  <2>3. PICK l \in DOMAIN v.loads : b = Button("Link", l, None)
    BY <1>4 DEF Shows, WebLoadsButtons, PhoneLoadsButtons, WebHomeButtons, PhoneHomeButtons,
       WebHistoryButtons, PhoneHistoryButtons, Linked, Buttons
  <2> QED BY <1>1, <1>2, <2>2, <2>3
<1>5. CASE g.on = "WebTrack"
  <2>1. v = Sees(LoadsOf(u), {}, {}, {}, {})
    BY <1>5 DEF Looks, WebTrackLooks
  <2>2. DOMAIN v.loads = LoadsOf(u) /\ \A l \in LoadsOf(u) : v.loads[l] = loads[l]
    BY <2>1, RowsSeen
  <2>3. PICK l \in HasDriver(v) : b = Button("Locate", l, None)
    BY <1>5 DEF Shows, WebTrackButtons, Buttons, Tracked
  <2>4. l \in Loads /\ loads[l].driver # None
    BY <1>1, <2>2, <2>3 DEF HasDriver
  <2> QED BY <2>3, <2>4, LooksHonoured DEF Button
<1>6. CASE g.on = "WebVehicles"
  <2>1. v = Sees(market, {}, {i \in Listings : listings[i] = "Active"}, {}, {})
    BY <1>6 DEF Looks, WebVehiclesLooks
  <2>2. DOMAIN v.loads = market /\ DOMAIN v.listings = {i \in Listings : listings[i] = "Active"}
    BY <2>1, RowsSeen
  <2>3. PICK i \in DOMAIN v.listings, l \in DOMAIN v.loads, price \in Amounts \cup {None} :
           b = Button("CreateOffer", <<i, l>>, price)
    <3>1. b \in WebVehiclesButtons(v)
      BY <1>6 DEF Shows
    <3>. HIDE DEF v
    <3> QED BY <3>1 DEF WebVehiclesButtons
  <2>4. listings[i] = "Active" /\ loads[l].status = "Active"
    BY <2>2, <2>3 DEF WithStatus
  <2>5. b.op = "CreateOffer" /\ b.on[1] = i /\ b.on[2] = l
    BY <2>3 DEF Button
  <2> QED BY <1>6, <2>4, <2>5, CreateOfferHonoured
<1>7. CASE g.on = "WebOffers"
  <2>1. v = Sees({}, {}, {}, OffersAbout(LoadsOf(u)), {})
    BY <1>7 DEF Looks, WebOffersLooks
  <2>2. DOMAIN v.offers = OffersAbout(LoadsOf(u)) /\ \A o \in DOMAIN v.offers : v.offers[o] = offers[o]
    BY <2>1, RowsSeen
  <2>3. PICK o \in DOMAIN v.offers : b = Button("WithdrawOffer", o, None) /\ v.offers[o].status = "Pending"
    BY <1>7 DEF Shows, WebOffersButtons, Buttons, OffersIn
  <2> QED BY <2>2, <2>3, ClosingHonoured DEF Button
<1> QED BY <1>3, <1>4, <1>5, <1>6, <1>7 DEF CustomerOnes

LEMMA TenderHonoured ==
    ASSUME Sound, NEW g, g.on \in {"WebTender", "PhoneTender"}, NEW b \in Shows(g.on, Looks(g))
    PROVE  Honoured(g.on, g.user, b)
<1>. DEFINE d == g.user
            ls == {g.load} \cap MayView(d)
            v == Looks(g)
<1>1. PICK bs \in {{}, BidsBy(d)} : v = Sees(ls, bs, {}, {}, {})
  BY DEF Looks, WebTenderLooks, PhoneTenderLooks
<1>2. /\ DOMAIN v.loads = ls /\ \A l \in ls : v.loads[l] = loads[l]
      /\ DOMAIN v.bids = bs /\ \A k \in bs : v.bids[k] = bids[k]
  BY <1>1, RowsSeen
<1>3. \A l \in ls : l \in Loads /\ (loads[l].status = "Active" \/ loads[l].driver = d)
  BY DEF MayView, Stored
<1>4. b \in WebTenderButtons(v) \cup PhoneTenderButtons(v)
  BY DEF Shows
<1>. HIDE DEF v, ls
<1>5. CASE b \in BidForms(v)
  <2>1. PICK l \in DOMAIN v.loads, amount \in Amounts \ {0} : b = Button("SubmitBid", l, amount)
    BY <1>5 DEF BidForms
  <2>2. b.op = "SubmitBid" /\ b.on \in Loads /\ b.price \in Amounts \ {0}
    BY <1>2, <1>3, <2>1 DEF Button
  <2> QED BY <2>2, SubmitBidHonoured
<1>6. CASE b \in Buttons("CancelBid", OwnPending(v))
  <2>1. PICK k \in bs : b = Button("CancelBid", k, None) /\ bids[k].status = "Pending"
    BY <1>2, <1>6 DEF Buttons, OwnPending, BidsIn
  <2> QED BY <2>1, ClosingHonoured DEF Button
<1>7. CASE b \in Buttons("Chat", LoadsIn(v, {"Assigned", "OnWay", "Delivered"}))
  <2>1. PICK l \in ls : b = Button("Chat", l, None) /\ loads[l].driver = d
    BY <1>2, <1>3, <1>7 DEF Buttons, LoadsIn
  <2> QED BY <1>3, <2>1, LooksHonoured DEF Button, MayChat
<1> QED BY <1>4, <1>5, <1>6, <1>7 DEF WebTenderButtons, PhoneTenderButtons

LEMMA BoardHonoured ==
    ASSUME Sound, NEW g, NEW b \in Shows(g.on, Looks(g)),
           g.on \in {"WebBoard", "PhoneBoard", "WebDriverHome", "PhoneDriverHome"}
    PROVE  Honoured(g.on, g.user, b)
<1>. DEFINE v == Looks(g)
<1>1. PICK ls \in SUBSET MayView(g.user) : v = Sees(ls, {}, {}, {}, {})
  BY DEF Looks, WebBoardLooks, PhoneBoardLooks, WebDriverHomeLooks, PhoneDriverHomeLooks,
     Board, Trips, WithStatus, MayView
<1>2. DOMAIN v.loads = ls
  BY <1>1, RowsSeen
<1>3. PICK l \in DOMAIN v.loads : b = Button("Link", l, None)
  BY DEF Shows, WebBoardButtons, PhoneBoardButtons, WebDriverHomeButtons, PhoneDriverHomeButtons, Buttons
<1>4. l \in MayView(g.user) /\ l \in Loads
  BY <1>2, <1>3 DEF MayView, Stored
<1> QED BY <1>3, <1>4, LooksHonoured DEF Button

LEMMA OwnBidsHonoured ==
    ASSUME Sound, NEW g, g.on \in {"WebOwnBids", "PhoneOwnBids"}, NEW b \in Shows(g.on, Looks(g))
    PROVE  Honoured(g.on, g.user, b)
<1>. DEFINE v == Looks(g)
<1>1. v = Sees({}, BidsBy(g.user), {}, {}, {})
  BY DEF Looks, WebOwnBidsLooks, PhoneOwnBidsLooks
<1>2. DOMAIN v.bids = BidsBy(g.user) /\ \A k \in BidsBy(g.user) : v.bids[k] = bids[k]
  BY <1>1, RowsSeen
<1>3. PICK k \in DOMAIN v.bids : b = Button("Link", v.bids[k].load, None)
  BY DEF Shows, WebOwnBidsButtons, PhoneOwnBidsButtons
<1>4. b.op = "Link" /\ b.on = bids[k].load /\ bids[k].load \in Loads
  BY <1>2, <1>3 DEF Button, BidsBy, Sound, FreightInv, TypeOK, BidRecord
<1>5. CASE b.on \in MayView(g.user)
  BY <1>4, <1>5, LooksHonoured
<1>6. CASE b.on \notin MayView(g.user)
  <2>1. "not yours" \in Refusals(g.user, b)
    BY <1>4, <1>6 DEF Refusals
  <2>2. "not yours" \in Overlooks(g.on)
    BY DEF Overlooks
  <2> QED BY <2>1, <2>2 DEF Honoured
<1> QED BY <1>5, <1>6

\* The requests of a trip page; what it only looks at comes below.
LEMMA TripPageHonoured ==
    ASSUME Sound, NEW g, g.on \in {"WebTrip", "PhoneTrip"}, NEW b \in Shows(g.on, Looks(g)), b.op \in Writes
    PROVE  Honoured(g.on, g.user, b)
<1>. DEFINE ls == {g.load} \cap Trips(g.user)
            v == Looks(g)
<1>1. v = Sees(ls, {}, {}, {}, {}) /\ ls \in SUBSET Loads
  BY DEF Looks, WebTripLooks, PhoneTripLooks, Trips, WithStatus, Stored
<1>2. DOMAIN v.loads = ls /\ \A l \in ls : v.loads[l] = loads[l]
  BY <1>1, RowsSeen
<1>3. b \in WebTripButtons(v) \cup PhoneTripButtons(v)
  BY DEF Shows
<1>. HIDE DEF ls, v
<1>4. PICK l \in DOMAIN v.loads :
         \/ b = Button("Pickup", l, None) /\ v.loads[l].status = "Assigned"
         \/ b = Button("Deliver", l, None) /\ v.loads[l].status \in {"OnWay", "Arrived"}
  BY <1>3 DEF WebTripButtons, PhoneTripButtons, CanDeliver, Buttons, Button, LoadsIn, Writes
<1> QED BY <1>1, <1>2, <1>4, TripHonoured DEF Button

LEMMA ListingsHonoured ==
    ASSUME Sound, NEW g, g.on = "WebListings", NEW b \in Shows(g.on, Looks(g))
    PROVE  Honoured(g.on, g.user, b)
<1>. DEFINE mine == {i \in Listings : listings[i] # NoRow /\ ListingDriver[i] = g.user}
            w == Sees({}, {}, mine, OffersAt(mine), {})
            v == Looks(g)
<1>1. v.listings = w.listings /\ v.offers = w.offers
  BY DEF Looks, WebListingsLooks, Sees
<1>2. /\ DOMAIN w.listings = mine /\ \A i \in mine : w.listings[i] = listings[i]
      /\ DOMAIN w.offers = OffersAt(mine) /\ \A o \in OffersAt(mine) : w.offers[o] = offers[o]
  BY RowsSeen
<1>3. OffersAt(mine) \in SUBSET Offers
  BY DEF OffersAt
<1>4. b \in WebListingsButtons(v)
  BY DEF Shows
<1>. HIDE DEF mine, w, v
<1>5. CASE b \in Buttons("CancelListing", ListingsIn(v, {"Active"}))
  <2>1. PICK i \in ListingsIn(v, {"Active"}) : b = Button("CancelListing", i, None)
    BY <1>5 DEF Buttons
  <2> QED BY <1>1, <1>2, <2>1, ClosingHonoured DEF Button, ListingsIn
<1>6. CASE b \notin Buttons("CancelListing", ListingsIn(v, {"Active"}))
  <2>1. PICK o \in Answerable(v) : b.on = o /\ b.op \in {"AcceptOffer", "RejectOffer"}
    BY <1>4, <1>6 DEF WebListingsButtons, Buttons, Button
  <2>2. o \in Offers /\ offers[o].status = "Pending" /\ listings[offers[o].listing] = "Active"
    BY <1>1, <1>2, <1>3, <2>1 DEF Answerable, OffersIn, ListingsIn
  <2> QED BY <2>1, <2>2, AcceptOfferHonoured, ClosingHonoured
<1> QED BY <1>5, <1>6

LEMMA AdminHonoured ==
    ASSUME Sound, NEW g, g.on \in AdminOnes \cup {"WebAdminLoad"}, g.user = Admin,
           NEW b \in Shows(g.on, Looks(g))
    PROVE  Honoured(g.on, g.user, b)
<1>. DEFINE v == Looks(g)
<1>1. CASE g.on \in {"PhoneAdminLoads", "WebAdminLoads"}
  <2>1. v = Sees(Stored, {}, {}, {}, {})
    BY <1>1 DEF Looks, PhoneAdminLoadsLooks, WebAdminLoadsLooks
  <2>2. DOMAIN v.loads = Stored /\ \A l \in Stored : v.loads[l] = loads[l]
    BY <2>1, RowsSeen
  <2>3. PICK l \in Stored :
          \/ b = Button("Link", l, None)
          \/ b = Button("AdminCancelLoad", l, None)
             /\ (g.on = "PhoneAdminLoads" => loads[l].status \in {"Active", "Assigned"})
    BY <1>1, <2>2 DEF Shows, PhoneAdminLoadsButtons, PhoneCancelLoad, WebAdminLoadsButtons, Buttons, LoadsIn
  <2>4. l \in Loads /\ loads[l].status # NoRow
    BY <2>3 DEF Stored
  <2> QED BY <1>1, <2>3, <2>4, AdminCancelHonoured, LooksHonoured DEF Button
<1>2. CASE g.on = "WebAdminLoad"
  <2>1. PICK ls, bs, ps : ls \subseteq Loads /\ v = Sees(ls, bs, {}, {}, ps)
    BY <1>2 DEF Looks, WebAdminLoadLooks, Stored
  <2>2. DOMAIN v.loads = ls /\ \A l \in ls : v.loads[l] = loads[l]
    BY <2>1, RowsSeen
  <2>3. PICK l \in ls : /\ b = Button("AdminCancelLoad", l, None)
                        /\ loads[l].status \in LoadStatus \ {"Cancelled", "Delivered"}
    BY <1>2, <2>2 DEF Shows, WebAdminLoadButtons, Buttons, LoadsIn
  <2>4. b.op = "AdminCancelLoad" /\ b.on = l /\ l \in Loads
    BY <2>1, <2>3 DEF Button
  <2> QED BY <1>2, <2>3, <2>4, AdminCancelHonoured
<1>3. CASE g.on \in {"WebAdminPayments", "PhoneAdminPayments"}
  <2>1. PICK ps \in SUBSET Payments : v = Sees({}, {}, {}, {}, ps)
    BY <1>3 DEF Looks, WebAdminPaymentsLooks, PhoneAdminPaymentsLooks
  <2>2. DOMAIN v.payments = ps /\ \A p \in ps : v.payments[p] = payments[p]
    BY <2>1, RowsSeen
  <2>3. PICK p \in ps : b = Button("AdminRelease", p, None) /\ payments[p].status = "Blocked"
    BY <1>3, <2>2 DEF Shows, WebAdminPaymentsButtons, PhoneAdminPaymentsButtons, Buttons, PaymentsIn
  <2> QED BY <2>3, ReleaseHonoured DEF Button
<1>4. CASE g.on = "WebAdminListings"
  <2>1. PICK is, os : v = Sees({}, {}, is, os, {})
    BY <1>4 DEF Looks, WebAdminListingsLooks
  <2>2. DOMAIN v.listings = is /\ \A i \in is : v.listings[i] = listings[i]
    BY <2>1, RowsSeen
  <2>3. PICK i \in is : b = Button("AdminCancelListing", i, None) /\ listings[i] = "Active"
    BY <1>4, <2>2 DEF Shows, WebAdminListingsButtons, Buttons, ListingsIn
  <2> QED BY <2>3, ClosingHonoured DEF Button
<1> QED BY <1>1, <1>2, <1>3, <1>4 DEF AdminOnes

\* A trip page that knows of all that happened shows its rows as they are.
TripRowsTrue ==
    page.on \in {"WebTrip", "PhoneTrip"} /\ since = "nothing" =>
        \A l \in DOMAIN view.loads : view.loads[l] = loads[l]

LEMMA TripRowsStep ==
    ASSUME ScreenInv, TripRowsTrue, [ScreenNext]_all
    PROVE  TripRowsTrue'
<1>1. ASSUME NEW g \in Pages, Open(g) PROVE TripRowsTrue'
  <2>. SUFFICES ASSUME g.on \in {"WebTrip", "PhoneTrip"}
                PROVE  \A l \in DOMAIN view'.loads : view'.loads[l] = loads'[l]
    BY <1>1 DEF Open, TripRowsTrue
  <2>1. PICK ls : Looks(g) = Sees(ls, {}, {}, {}, {})
    BY DEF Looks, WebTripLooks, PhoneTripLooks
  <2>2. DOMAIN Looks(g).loads = ls /\ \A l \in ls : Looks(g).loads[l] = loads[l]
    BY <2>1, RowsSeen
  <2> QED BY <1>1, <2>2 DEF Open, vars
<1>2. CASE Close \/ Gone
  BY <1>2 DEF Close, Gone, TripRowsTrue, Closed
<1>3. ASSUME NEW b \in Shows(page.on, view), Press(b) PROVE TripRowsTrue'
  <2>1. CASE Gone
    BY <1>2, <2>1
  <2>2. CASE Behind
    BY <2>2 DEF Behind, TripRowsTrue
  <2>3. CASE Pressed(b) /\ Fresh
    <3>. SUFFICES ASSUME page.on \in {"WebTrip", "PhoneTrip"}
                  PROVE  \A l \in DOMAIN view'.loads : view'.loads[l] = loads'[l]
      BY <2>3 DEF Pressed, TripRowsTrue
    <3>1. PICK v \in {view} : view' = Again(page, v)'
      BY <2>3 DEF Fresh
    <3>2. PICK ls : view'.loads = Restrict(loads', ls)
      BY <2>3, <3>1 DEF Pressed, Again, WebTripAgain, PhoneTripAgain, Sees
    <3> QED BY <3>2 DEF Restrict
  <2>4. CASE Pressed(b) /\ page.on \in Trusting
    BY <2>4 DEF Pressed, Trusting, TripRowsTrue
  <2>5. page.on \notin Trusting => AfterTable[page.on][b.op] \in {Reload, ReloadOrBlank, Leave}
    BY <1>3, PressFacts DEF Press
  <2>6. CASE page.on \notin Trusting
    BY <1>3, <2>1, <2>2, <2>3, <2>5, <2>6 DEF Press, Answered, Patch, Stay, Reload, ReloadOrBlank, Leave
  <2> QED BY <1>3, <2>1, <2>2, <2>4, <2>6 DEF Press, Answered
<1>4. ASSUME UNCHANGED <<vars, screen>> PROVE TripRowsTrue'
  BY <1>4 DEF TripRowsTrue, vars, screen
<1>5. CASE Meanwhile
  BY <1>5 DEF Meanwhile, TripRowsTrue, screen, Closed
<1> QED BY <1>1, <1>2, <1>3, <1>4, <1>5, AsideSteps DEF all

\* What a page that is up to date shows, it would show if it were opened now, but for what a trip
\* page shows of the trip that is over.
LEMMA ShownNow ==
    ASSUME ScreenInv, TripRowsTrue, since = "nothing", NEW b \in Shows(page.on, view)
    PROVE  \/ /\ b \in Shows(page.on, Looks(page))
              /\ page.on \in {"WebTrip", "PhoneTrip"} => b.op \in Writes
           \/ /\ page.on = "PhoneTrip" /\ b.op \in {"Chat", "Rate"} /\ b.on \in DOMAIN view.loads
              /\ b.op = "Rate" => loads[b.on].status = "Delivered"
<1>1. page.on # "Closed"
  BY DEF Shows
<1>2. page.on # "PhoneTripCrowded"
  <2>1. ASSUME page.on = "PhoneTripCrowded" PROVE FALSE
    <3>1. DOMAIN view.loads = {}
      BY <2>1 DEF ScreenInv, CrowdedIsEmpty
    <3> QED BY <2>1, <3>1 DEF Shows, PhoneTripButtons, CanDeliver, Buttons, LoadsIn
  <2> QED BY <2>1
<1>3. PICK v, w : v = view /\ w = Looks(page) /\ Alike(page.on, v, w)
  BY <1>1, <1>2 DEF ScreenInv, UpToDate, Compared
<1>4. CASE b.op \in Writes
  BY <1>3, <1>4, AlikeShowsAlike
<1>5. CASE b.op \notin Writes
  <2>1. CASE page.on = "PhoneTender"
    <3>1. v.loads = w.loads
      BY <1>3, <2>1 DEF Alike
    <3>2. b \in PhoneTenderButtons(v)
      BY <1>3, <2>1 DEF Shows
    <3>3. b \in Buttons("Chat", LoadsIn(v, {"Assigned", "OnWay", "Delivered"}))
      BY <1>5, <3>2 DEF PhoneTenderButtons, BidForms, Buttons, Button, Writes
    <3>4. b \in PhoneTenderButtons(w)
      BY <3>1, <3>3 DEF PhoneTenderButtons, LoadsIn
    <3> QED BY <1>3, <2>1, <3>4 DEF Shows
  <2>2. CASE page.on = "WebTrip"
    BY <1>5, <2>2 DEF Shows, WebTripButtons, CanDeliver, Buttons, Button, Writes
  <2>3. CASE page.on = "PhoneTrip"
    <3>1. b \in PhoneTripButtons(view)
      BY <2>3 DEF Shows
    <3>2. PICK l \in DOMAIN view.loads :
             \/ b = Button("Chat", l, None)
             \/ b = Button("Rate", l, None) /\ view.loads[l].status = "Delivered"
      BY <1>5, <3>1 DEF PhoneTripButtons, CanDeliver, Buttons, Button, LoadsIn, Writes
    <3>3. view.loads[l] = loads[l]
      BY <2>3, <3>2 DEF TripRowsTrue
    <3> QED BY <2>3, <3>2, <3>3 DEF Button
  <2>4. CASE page.on \notin {"PhoneTender", "WebTrip", "PhoneTrip"}
    BY <1>3, <2>4 DEF Alike
  <2> QED BY <2>1, <2>2, <2>3, <2>4
<1> QED BY <1>4, <1>5

LEMMA ShownIsHonoured ==
    ASSUME ScreenInv, TripRowsTrue, Sound
    PROVE  ButtonsHonoured
<1>. SUFFICES ASSUME since = "nothing", NEW b \in Shows(page.on, view)
              PROVE  Honoured(page.on, page.user, b)
  BY DEF ButtonsHonoured, Honoured
<1>. DEFINE g == page
<1>1. g \in Pages
  <2>1. page # Closed
    BY DEF Closed, Shows
  <2> QED BY <2>1 DEF ScreenInv
<1>2. CASE b \in Shows(g.on, Looks(g)) /\ (g.on \in {"WebTrip", "PhoneTrip"} => b.op \in Writes)
  <2>1. CASE g.on \in CustomerLoadOnes
    BY <1>2, <2>1, CustomerLoadHonoured
  <2>2. CASE g.on \in CustomerOnes
    BY <1>2, <2>2, CustomerHonoured
  <2>3. CASE g.on \in {"WebTender", "PhoneTender"}
    BY <1>2, <2>3, TenderHonoured
  <2>4. CASE g.on \in {"WebBoard", "PhoneBoard", "WebDriverHome", "PhoneDriverHome"}
    BY <1>2, <2>4, BoardHonoured
  <2>5. CASE g.on \in {"WebOwnBids", "PhoneOwnBids"}
    BY <1>2, <2>5, OwnBidsHonoured
  <2>6. CASE g.on \in {"WebTrip", "PhoneTrip"}
    BY <1>2, <2>6, TripPageHonoured
  <2>7. CASE g.on = "PhoneTripCrowded"
    <3>1. DOMAIN view.loads = {}
      BY <2>7 DEF ScreenInv, CrowdedIsEmpty
    <3> QED BY <2>7, <3>1 DEF Shows, PhoneTripButtons, CanDeliver, Buttons, LoadsIn
  <2>8. CASE g.on = "WebListings"
    BY <1>2, <2>8, ListingsHonoured
  <2>9. CASE g.on \in AdminOnes \cup {"WebAdminLoad"}
    <3>1. g.user = Admin
      BY <1>1, <2>9 DEF Pages, Page, CustomerOnes, CustomerLoadOnes, DriverOnes, DriverLoadOnes, AdminOnes
    <3> QED BY <1>2, <2>9, <3>1, AdminHonoured
  <2> QED BY <1>1, <2>1, <2>2, <2>3, <2>4, <2>5, <2>6, <2>7, <2>8, <2>9, PageNames
          DEF DriverOnes, DriverLoadOnes
<1>3. CASE /\ g.on = "PhoneTrip" /\ b.op \in {"Chat", "Rate"} /\ b.on \in DOMAIN view.loads
           /\ b.op = "Rate" => loads[b.on].status = "Delivered"
  <2>1. b.on \in Loads /\ loads[b.on].driver = g.user
    BY <1>3 DEF ScreenInv, TripIsHis, GoodView
  <2>2. MayChat(g.user, b.on)
    BY <2>1 DEF MayChat
  <2> QED BY <1>3, <2>1, <2>2, LooksHonoured
<1> QED BY <1>2, <1>3, ShownNow

\* Both clients of its customer show the code of a load that is on its way.
LEMMA CodeIsShown ==
    ASSUME NEW l \in Loads, loads[l].status = "OnWay"
    PROVE  CodeWithinReach(l)
<1>. DEFINE u == Owner[l]
            x == WebLoadLooks(u, l)
<1>1. {l} \cap LoadsOf(u) = {l}
  BY DEF LoadsOf, Stored, NoRow
<1>2. x = Sees({l}, BidsFor({l}), {}, {}, {}) /\ PhoneLoadLooks(u, l) = x
  BY <1>1 DEF WebLoadLooks, PhoneLoadLooks
<1>3. DOMAIN x.loads = {l} /\ x.loads[l] = loads[l]
  BY <1>2, RowsSeen
<1>4. Button("ShowQr", l, None) \in Buttons("ShowQr", UnderWay(x))
  BY <1>3 DEF UnderWay, LoadsIn, Buttons
<1>5. HasQr(l)
  BY DEF HasQr
<1> QED BY <1>2, <1>4, <1>5 DEF CodeWithinReach, WebLoadButtons, PhoneLoadButtons

\* Both trip pages, opened afresh, lead on.
LEMMA TripPagesLeadOn ==
    ASSUME Sound
    PROVE  TripGoesOn
<1>. SUFFICES ASSUME NEW d \in Drivers, NEW l \in Trips(d), BlockedOn(l) # {}
              PROVE  LET noCode == loads[l].status = "Arrived" /\ qr[l] # "valid"
                         away == loads[l].status = "Arrived" /\ ~InPlace(d, l)
                         web == WebTripLooks(d, l)
                         phone == PhoneTripLooks(d, l, FALSE)
                     IN  /\ noCode \/ LeadsOn(l, WebTripButtons(web), WebTripShares(web))
                         /\ noCode \/ away \/ LeadsOn(l, PhoneTripButtons(phone), PhoneTripShares(phone))
  BY DEF TripGoesOn
<1>. DEFINE v == WebTripLooks(d, l)
            w == PhoneTripLooks(d, l, FALSE)
            pick == Button("Pickup", l, None)
            give == Button("Deliver", l, None)
<1>1. l \in Loads /\ loads[l].driver = d /\ loads[l].status \in EscrowStates
  BY DEF Trips, WithStatus, Stored
<1>2. d # None
  BY <1>1, CarriedBySomebody DEF Sound
<1>3. {l} \cap Trips(d) = {l}
  OBVIOUS
<1>4. v = Sees({l}, {}, {}, {}, {}) /\ w = v
  BY <1>3 DEF WebTripLooks, PhoneTripLooks
<1>5. DOMAIN v.loads = {l} /\ v.loads[l] = loads[l]
  BY <1>4, RowsSeen
<1>6. pick.op = "Pickup" /\ pick.on = l /\ give.op = "Deliver" /\ give.on = l
  BY DEF Button
<1>. HIDE DEF v, w
<1>7. CASE loads[l].status = "Assigned"
  <2>1. pick \in WebTripButtons(v) /\ pick \in PhoneTripButtons(w)
    BY <1>4, <1>5, <1>7 DEF WebTripButtons, PhoneTripButtons, Buttons, LoadsIn
  <2>2. Accepts(d, pick)
    BY <1>1, <1>2, <1>6, <1>7 DEF Accepts, Ready, Writes
  <2>. HIDE DEF pick
  <2> QED BY <1>1, <1>6, <2>1, <2>2 DEF v, w, LeadsOn
<1>8. CASE loads[l].status \in {"OnWay", "Arrived"}
  <2>1. give \in WebTripButtons(v) /\ give \in PhoneTripButtons(w)
    BY <1>4, <1>5, <1>8 DEF WebTripButtons, PhoneTripButtons, CanDeliver, Buttons, LoadsIn
  <2>2. CanBeDelivered(l)
    BY <1>1, <1>2, <1>8 DEF CanBeDelivered, CanRelease, Sound, BlockedCanBePaid
  <2>3. qr[l] = "valid" \/ CodeWithinReach(l) \/ loads[l].status = "Arrived"
    BY <1>1, <1>8, CodeIsShown
  <2>4. l \in WebTripShares(v)
    BY <1>1, <1>5 DEF WebTripShares, LoadsIn
  <2>5. l \in PhoneTripShares(w) \/ loads[l].status = "Arrived"
    BY <1>4, <1>5, <1>8 DEF PhoneTripShares, LoadsIn
  <2>. HIDE DEF give
  <2>6. \/ loads[l].status = "Arrived" /\ qr[l] # "valid"
        \/ LeadsOn(l, WebTripButtons(v), WebTripShares(v))
    BY <1>6, <2>1, <2>2, <2>3, <2>4 DEF LeadsOn
  <2>7. \/ loads[l].status = "Arrived" /\ (qr[l] # "valid" \/ ~InPlace(d, l))
        \/ LeadsOn(l, PhoneTripButtons(w), PhoneTripShares(w))
    BY <1>1, <1>6, <2>1, <2>2, <2>3, <2>5 DEF LeadsOn
  <2> QED BY <2>6, <2>7 DEF v, w
<1> QED BY <1>1, <1>7, <1>8 DEF EscrowStates

-------------------------------------------------------------------------------
\* For any number of rows and any run of presses, with the pages and the tables as
\* Screens has them: the inductive invariant.
THEOREM ScreenHolds == ScreenSpec => []ScreenInv
BY ScreenStart, ScreenStep, PTL DEF ScreenSpec

\* While the server did nothing but what the page asked for and was told, the page
\* offers exactly the requests it would offer if it were opened again: the patches in
\* Listings.tsx, ListingOffers.tsx, (driver)/load-detail.tsx and the administrator's
\* Listings.tsx are what the server does.
THEOREM AsIfReopenedHolds == ScreenSpec => []AsIfReopened
<1>1. ScreenInv => AsIfReopened
  BY AlikeShowsAlike DEF ScreenInv, UpToDate, Compared, AsIfReopened
<1> QED BY <1>1, ScreenHolds, PTL

\* Who accepts a bid or an offer agrees to the price beside the button, however old the page is
\* and whatever others did meanwhile: bids and offers never change what they say.  Only where
\* an offer names no price may the load's have been edited since (BidService and
\* DriverListingService hold the amount of the moment).
THEOREM ShownPriceAgreedHolds == ScreenSpec => []ShownPriceAgreed
<1>1. ScreenInit => PricesTrue
  BY DEF ScreenInit, Init0, Closed, PricesTrue, BidsAsMade, OffersAsMade, BidPages
<1>2. ScreenInv /\ PricesTrue /\ [ScreenNext]_all => PricesTrue'
  BY PricesStep
<1>3. PricesTrue => ShownPriceAgreed
  BY PriceOfButton DEF ShownPriceAgreed
<1> QED BY <1>1, <1>2, <1>3, ScreenHolds, PTL DEF ScreenSpec

\* Whatever is pressed on whatever page, the tables change as one of Freight's requests
\* changes them: what is proved of Freight holds behind the screens as well.
THEOREM PressesAreRequests == ScreenSpec => Spec
<1>1. ScreenInit => Init
  BY DEF ScreenInit
<1>2. ScreenInv /\ [ScreenNext]_all => [Next]_vars
  <2>. SUFFICES ASSUME ScreenInv, [ScreenNext]_all PROVE [Next]_vars
    OBVIOUS
  <2>1. ASSUME NEW b \in Shows(page.on, view), Press(b) PROVE Next
    BY <2>1, PressIsStep
  <2>2. (\E g \in Pages : Open(g)) \/ Close => UNCHANGED vars
    BY DEF Open, Close
  <2>3. Meanwhile => Next
    BY DEF Meanwhile, World
  <2> QED BY <2>1, <2>2, <2>3, AsideSteps DEF all
<1> QED BY <1>1, <1>2, ScreenHolds, PTL DEF ScreenSpec, Spec

\* A user whose answer was lost, or whose page could not be fetched again, and who presses the
\* same button once more changes nothing by it: whatever the request was, the server refuses it
\* for what it has done the first time.
THEOREM PressedTwiceHolds == ScreenSpec => PressedTwice
<1>1. ScreenInit => LastIsDone
  BY DEF ScreenInit, Init0, LastIsDone
<1>2. ScreenInv /\ FreightInv /\ LastIsDone /\ [ScreenNext]_all => LastIsDone'
  BY LastStep DEF FreightInv
<1>3. LastIsDone => (since = "own" /\ Does(page.user, last) => UNCHANGED vars)
  BY DoneIsRefused DEF LastIsDone
<1>4. ScreenSpec => []FreightInv
  BY PressesAreRequests, InvHolds, PTL
<1> QED BY <1>1, <1>2, <1>3, <1>4, ScreenHolds, PTL DEF ScreenSpec, PressedTwice

\* No page that shows its rows as they are offers a request the server would refuse, but for
\* the few reasons the page never looks at (Overlooks): an acceptance finds the load on the
\* market without a Blocked payment, an administrator's release finds a driver and the whole of
\* the hold in his PendingBalance, a cancellation finds the payment's LoadPaymentHold row.
THEOREM ButtonsAreHonoured ==
    ASSUME NetsAreOwed
    PROVE  ScreenSpec => []ButtonsHonoured
<1>1. ScreenInit => TripRowsTrue
  BY DEF ScreenInit, Init0, Closed, TripRowsTrue
<1>2. ScreenInv /\ TripRowsTrue /\ [ScreenNext]_all => TripRowsTrue'
  BY TripRowsStep
<1>3. FreightInv /\ BlockedIsHeld /\ BlockedCanBePaid => Sound
  BY DEF Sound
<1>4. ScreenInv /\ TripRowsTrue /\ Sound => ButtonsHonoured
  BY ShownIsHonoured
<1>5. ScreenSpec => []FreightInv /\ []BlockedIsHeld
  BY PressesAreRequests, InvHolds, BlockedStaysHeld, PTL
<1>6. ScreenSpec => []BlockedCanBePaid
  BY PressesAreRequests, DriversCanBePaid, PTL
<1> QED BY <1>1, <1>2, <1>3, <1>4, <1>5, <1>6, ScreenHolds, PTL DEF ScreenSpec

\* As long as a load's money is held, both trip pages, opened afresh on any trip of a driver's,
\* lead on to its end: the request that is next is there, the money can be released, and the code
\* and the position the server asks for are there or can still be had.  Not so for the three
\* exceptions named at TripGoesOn.
THEOREM TripsGoOn ==
    ASSUME NetsAreOwed
    PROVE  ScreenSpec => []TripGoesOn
<1>1. FreightInv /\ BlockedIsHeld /\ BlockedCanBePaid => TripGoesOn
  BY TripPagesLeadOn DEF Sound
<1>2. ScreenSpec => []FreightInv /\ []BlockedIsHeld
  BY PressesAreRequests, InvHolds, BlockedStaysHeld, PTL
<1>3. ScreenSpec => []BlockedCanBePaid
  BY PressesAreRequests, DriversCanBePaid, PTL
<1> QED BY <1>1, <1>2, <1>3, PTL
===============================================================================
