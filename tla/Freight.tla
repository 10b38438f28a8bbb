------------------------------- MODULE Freight --------------------------------
(***************************************************************************)
(* The load life cycle with its escrow, one ACTION PER REQUEST: what the   *)
(* services promise when requests run one after the other.  The database   *)
(* tables are the variables; an action is a whole request, transaction and *)
(* all.  A request that throws rolls its transaction back, so throwing is  *)
(* modelled by the action not being enabled.  FreightTx splits the same    *)
(* requests into their SQL statements.                                     *)
(***************************************************************************)
EXTENDS Settlement, Sums, Sequences, FiniteSets

CONSTANTS Loads, Drivers, Customers,
          Bids, Listings, Offers, Payments,  \* pools of primary keys: the bounds
          Amounts,                           \* agreed prices, in kurus
          Owner, ListingDriver, Corporate,   \* Load.UserId, DriverListing.DriverId, User.IsCorporate
          None,                              \* SQL NULL
          AllowCustomerCancelAfterAccept,    \* Cancellation:AllowCustomerCancelAfterAccept
          AllowCancelAfterTripStart          \* Cancellation:AllowCancelAfterTripStart

ASSUME FreightAssumption ==
    /\ Amounts \subseteq Nat
    /\ Drivers \cap Customers = {}
    /\ Bids \cap Offers = {}
    /\ None \notin Drivers
    /\ None \notin Amounts
    /\ Owner \in [Loads -> Customers]
    /\ ListingDriver \in [Listings -> Drivers]
    /\ Corporate \in [Drivers -> BOOLEAN]
    /\ AllowCustomerCancelAfterAccept \in BOOLEAN
    /\ AllowCancelAfterTripStart \in BOOLEAN

\* A database holds finitely many rows: what is summed over them has a value.
ASSUME FiniteKeys == IsFiniteSet(Loads) /\ IsFiniteSet(Payments)

VARIABLES
    loads,     \* Loads: [status, driver, price]; status "None" is no row yet
    bids,      \* Bids: [status, load, driver, amount]
    listings,  \* DriverListings: the status
    offers,    \* ListingOffers: [status, listing, load, amount]
    payments,  \* PaymentTransactions: [status, load, amount]
    pending,   \* Users.PendingBalance of the drivers
    wallet,    \* Users.WalletBalance of everybody
    log,       \* WalletAuditLogs of each load, oldest first: [type, user, amount]
    outbox     \* UetdsOutboxes of each load: the events written, oldest first

vars == <<loads, bids, listings, offers, payments, pending, wallet, log, outbox>>

LoadStatus == {"Active", "Assigned", "OnWay", "Arrived", "Delivered", "Cancelled"}
BidStatus == {"Pending", "Accepted", "Rejected", "Cancelled"}
ListingStatus == {"Active", "Matched", "Cancelled"}
OfferStatus == {"Pending", "Accepted", "Rejected", "Withdrawn"}
PaymentStatus == {"Blocked", "Released", "Refunded"}
RowType == {"Hold", "Fees", "Release", "HoldReversal", "FeesReversal", "CustomerRefund"}
Users == Drivers \cup Customers
EscrowStates == {"Assigned", "OnWay", "Arrived"}

NoRow == "None"

Init ==
    /\ loads = [l \in Loads |-> [status |-> NoRow, driver |-> None, price |-> None]]
    /\ bids = [b \in Bids |-> [status |-> NoRow]]
    /\ listings = [i \in Listings |-> NoRow]
    /\ offers = [o \in Offers |-> [status |-> NoRow]]
    /\ payments = [p \in Payments |-> [status |-> NoRow]]
    /\ pending = [d \in Drivers |-> 0]
    /\ wallet = [u \in Users |-> 0]
    /\ log = [l \in Loads |-> <<>>]
    /\ outbox = [l \in Loads |-> <<>>]

BidsOn(l, status) == {b \in Bids : bids[b].status = status /\ bids[b].load = l}
OffersTo(i, status) == {o \in Offers : offers[o].status = status /\ offers[o].listing = i}
PaymentsOf(l) == {p \in Payments : payments[p].status # NoRow /\ payments[p].load = l}

BlockedOn(l) == {p \in PaymentsOf(l) : payments[p].status = "Blocked"}

Row(type, user, amount) == [type |-> type, user |-> user, amount |-> amount]
RowsOf(l, type) == {i \in DOMAIN log[l] : log[l][i].type = type}

-------------------------------------------------------------------------------
(* The escrow: MockPaymentService over WalletLedgerService. *)

\* A load's Hold rows for driver d, and the amount of the latest of them.
HoldRows(l, d) == {i \in RowsOf(l, "Hold") : log[l][i].user = d}

\* Mutant: the query sorts the Hold rows the other way round.
OldestHold(l, d) == LET i == CHOOSE i \in HoldRows(l, d) : \A j \in HoldRows(l, d) : i =< j
                    IN  log[l][i].amount

LatestHold(l, d) == LET i == CHOOSE i \in HoldRows(l, d) : \A j \in HoldRows(l, d) : j =< i
                    IN  log[l][i].amount

Hold(l, d, amount) ==
    LET net == DriverNet(amount, Corporate[d])
    IN  /\ BlockedOn(l) = {}
        /\ \E p \in Payments :
              /\ payments[p].status = NoRow
              /\ payments' = [payments EXCEPT ![p] =
                    [status |-> "Blocked", load |-> l, amount |-> CustomerTotal(amount)]]
        /\ pending' = [pending EXCEPT ![d] = @ + net]
        /\ log' = [log EXCEPT ![l] = @ \o
              <<Row("Hold", d, net), Row("Fees", d, Fees(amount, Corporate[d]))>>]

Release(l, d) ==
    /\ HoldRows(l, d) # {}
    /\ pending[d] >= LatestHold(l, d)
    /\ \E p \in BlockedOn(l) : payments' = [payments EXCEPT ![p].status = "Released"]
    /\ pending' = [pending EXCEPT ![d] = @ - LatestHold(l, d)]
    /\ wallet' = [wallet EXCEPT ![d] = @ + LatestHold(l, d)]
    /\ log' = [log EXCEPT ![l] = Append(@, Row("Release", d, LatestHold(l, d)))]

\* The rows a refund of payment p writes: the hold taken back from the driver if
\* there was one, the fees if the load was assigned through a bid of amount
\* bidAmount, the customer's money.
RefundRows(l, d, p, bidAmount) ==
    (IF HoldRows(l, d) = {} THEN <<>> ELSE <<Row("HoldReversal", d, LatestHold(l, d))>>)
    \o (IF bidAmount = 0 THEN <<>>
        ELSE <<Row("FeesReversal", d, Fees(bidAmount, Corporate[d]))>>)
    \o <<Row("CustomerRefund", Owner[l], RefundAmount(payments[p].amount))>>

\* RefundEscrowAsync looks at ONE payment row of the load, whichever an unordered
\* query returns first, and gives up silently when that row is not Blocked.
RefundEscrow(l, d, bidAmount) ==
    \/ /\ PaymentsOf(l) = {}
       /\ UNCHANGED <<payments, pending, wallet, log>>
    \/ \E p \in PaymentsOf(l) :
          IF payments[p].status = "Blocked" /\ RowsOf(l, "CustomerRefund") = {}
          THEN /\ HoldRows(l, d) # {} => pending[d] >= LatestHold(l, d)
               /\ payments' = [payments EXCEPT ![p].status = "Refunded"]
               /\ pending' = IF HoldRows(l, d) = {} THEN pending
                             ELSE [pending EXCEPT ![d] = @ - LatestHold(l, d)]
               /\ wallet' = [wallet EXCEPT ![Owner[l]] = @ + RefundAmount(payments[p].amount)]
               /\ log' = [log EXCEPT ![l] = @ \o RefundRows(l, d, p, bidAmount)]
          ELSE UNCHANGED <<payments, pending, wallet, log>>

-------------------------------------------------------------------------------
(* LoadsController, LoadService, LoadEditService. *)

CreateLoad(l, price) ==
    /\ loads[l].status = NoRow
    /\ loads' = [loads EXCEPT ![l] = [status |-> "Active", driver |-> None, price |-> price]]
    /\ UNCHANGED <<bids, listings, offers, payments, pending, wallet, log, outbox>>

HasAcceptedBid(l) ==
    \/ loads[l].driver # None
    \/ loads[l].status \in EscrowStates
    \/ BidsOn(l, "Accepted") # {}

EditLoad(l, price) ==
    /\ loads[l].status = "Active"
    /\ ~HasAcceptedBid(l)
    /\ loads' = [loads EXCEPT ![l].price = price]
    /\ UNCHANGED <<bids, listings, offers, payments, pending, wallet, log, outbox>>

\* Mutant: the pick-up checks neither the driver nor the status.
PickupUnassigned(l) ==
    /\ loads[l].status \in {"Active", "Assigned"}
    /\ loads' = [loads EXCEPT ![l].status = "OnWay"]
    /\ outbox' = [outbox EXCEPT ![l] = Append(@, "PickUp")]
    /\ UNCHANGED <<bids, listings, offers, payments, pending, wallet, log>>

\* Mutant: the pick-up of a load under way is recorded again.
PickupAgain(l) ==
    /\ loads[l].driver # None
    /\ loads[l].status \in {"Assigned", "OnWay"}
    /\ loads' = [loads EXCEPT ![l].status = "OnWay"]
    /\ outbox' = [outbox EXCEPT ![l] = Append(@, "PickUp")]
    /\ UNCHANGED <<bids, listings, offers, payments, pending, wallet, log>>

Pickup(l) ==
    /\ loads[l].driver # None
    /\ loads[l].status = "Assigned"
    /\ loads' = [loads EXCEPT ![l].status = "OnWay"]
    /\ outbox' = [outbox EXCEPT ![l] = Append(@, "PickUp")]
    /\ UNCHANGED <<bids, listings, offers, payments, pending, wallet, log>>

\* Mutant: an arrival is accepted after the delivery.
ArriveLate(l) ==
    /\ loads[l].status \in {"OnWay", "Delivered"}
    /\ loads' = [loads EXCEPT ![l].status = "Arrived"]
    /\ UNCHANGED <<bids, listings, offers, payments, pending, wallet, log, outbox>>

Arrive(l) ==
    /\ loads[l].status = "OnWay"
    /\ loads' = [loads EXCEPT ![l].status = "Arrived"]
    /\ UNCHANGED <<bids, listings, offers, payments, pending, wallet, log, outbox>>

\* LoadsController lets a delivery come here only with the customer's code and, where it checks it,
\* from near the destination: that is in Screens.  Here it may come whatever they say.
Deliver(l) ==
    /\ loads[l].driver # None
    /\ loads[l].status \in {"OnWay", "Arrived"}
    /\ loads' = [loads EXCEPT ![l].status = "Delivered"]
    /\ outbox' = [outbox EXCEPT ![l] = Append(@, "Delivery")]
    /\ Release(l, loads[l].driver)
    /\ UNCHANGED <<bids, listings, offers>>

-------------------------------------------------------------------------------
(* BidService. *)

SubmitBid(b, l, d, amount) ==
    /\ bids[b].status = NoRow
    /\ amount > 0
    /\ loads[l].status = "Active"
    /\ \A c \in Bids : bids[c].status # NoRow => ~(bids[c].load = l /\ bids[c].driver = d)
    /\ bids' = [bids EXCEPT ![b] =
          [status |-> "Pending", load |-> l, driver |-> d, amount |-> amount]]
    /\ UNCHANGED <<loads, listings, offers, payments, pending, wallet, log, outbox>>

CancelBid(b) ==
    /\ bids[b].status = "Pending"
    /\ bids' = [bids EXCEPT ![b].status = "Cancelled"]
    /\ UNCHANGED <<loads, listings, offers, payments, pending, wallet, log, outbox>>

\* Mutant: the load's driver is never set.
AssignedToNobody(l, d) == [loads EXCEPT ![l].status = "Assigned"]

Assigned(l, d) == [loads EXCEPT ![l].status = "Assigned", ![l].driver = d]

AcceptBid(b) ==
    /\ bids[b].status = "Pending"
    /\ LET l == bids[b].load
       IN  /\ loads[l].status = "Active"
           /\ loads' = Assigned(l, bids[b].driver)
           /\ bids' = [c \in Bids |->
                 CASE c = b -> [bids[c] EXCEPT !.status = "Accepted"]
                   [] c \in BidsOn(l, "Pending") \ {b} -> [bids[c] EXCEPT !.status = "Rejected"]
                   [] OTHER -> bids[c]]
           /\ Hold(l, bids[b].driver, bids[b].amount)
    /\ UNCHANGED <<listings, offers, wallet, outbox>>

-------------------------------------------------------------------------------
(* DriverListingService. *)

CreateListing(i) ==
    /\ listings[i] = NoRow
    /\ listings' = [listings EXCEPT ![i] = "Active"]
    /\ UNCHANGED <<loads, bids, offers, payments, pending, wallet, log, outbox>>

CancelListing(i) ==
    /\ listings[i] = "Active"
    /\ listings' = [listings EXCEPT ![i] = "Cancelled"]
    /\ UNCHANGED <<loads, bids, offers, payments, pending, wallet, log, outbox>>

RejectedOffers(S) == [o \in Offers |-> IF o \in S THEN [offers[o] EXCEPT !.status = "Rejected"]
                                       ELSE offers[o]]

AdminCancelListing(i) ==
    /\ listings[i] = "Active"
    /\ listings' = [listings EXCEPT ![i] = "Cancelled"]
    /\ offers' = RejectedOffers(OffersTo(i, "Pending"))
    /\ UNCHANGED <<loads, bids, payments, pending, wallet, log, outbox>>

CreateOffer(o, i, l, amount) ==
    /\ offers[o].status = NoRow
    /\ listings[i] = "Active"
    /\ loads[l].status = "Active"
    /\ \A c \in OffersTo(i, "Pending") : offers[c].load # l
    /\ offers' = [offers EXCEPT ![o] =
          [status |-> "Pending", listing |-> i, load |-> l, amount |-> amount]]
    /\ UNCHANGED <<loads, bids, listings, payments, pending, wallet, log, outbox>>

CloseOffer(o, status) ==
    /\ offers[o].status = "Pending"
    /\ offers' = [offers EXCEPT ![o].status = status]
    /\ UNCHANGED <<loads, bids, listings, payments, pending, wallet, log, outbox>>

RejectOffer(o) == CloseOffer(o, "Rejected")

WithdrawOffer(o) == CloseOffer(o, "Withdrawn")

\* The agreed price of an offer that names none is the load's price of the moment.
OfferedAmount(o) ==
    IF offers[o].amount = None THEN loads[offers[o].load].price ELSE offers[o].amount

AcceptOffer(o) ==
    /\ offers[o].status = "Pending"
    /\ LET i == offers[o].listing
           l == offers[o].load
       IN  /\ listings[i] = "Active"
           /\ loads[l].status = "Active"
           /\ loads' = Assigned(l, ListingDriver[i])
           /\ listings' = [listings EXCEPT ![i] = "Matched"]
           /\ offers' = [RejectedOffers(OffersTo(i, "Pending")) EXCEPT ![o].status = "Accepted"]
           /\ Hold(l, ListingDriver[i], OfferedAmount(o))
    /\ UNCHANGED <<bids, wallet, outbox>>

-------------------------------------------------------------------------------
(* CancellationService with LoadCancellationRules. *)

CanCustomerCancel(l) ==
    IF AllowCustomerCancelAfterAccept
    THEN loads[l].status \in {"Active", "Assigned"}
    ELSE loads[l].status = "Active" /\ ~HasAcceptedBid(l)

CanAdminCancel(l) ==
    \/ loads[l].status \in {"Active", "Assigned"}
    \/ loads[l].status \in {"OnWay", "Arrived", "Delivered"} /\ AllowCancelAfterTripStart

\* The bids of a load that is cancelled: Accepted ones end Cancelled, Pending
\* ones Rejected.
ClosedBids(l) ==
    [b \in Bids |->
        CASE b \in BidsOn(l, "Accepted") -> [bids[b] EXCEPT !.status = "Cancelled"]
          [] b \in BidsOn(l, "Pending") -> [bids[b] EXCEPT !.status = "Rejected"]
          [] OTHER -> bids[b]]

AcceptedBidAmount(l) ==
    IF BidsOn(l, "Accepted") = {} THEN 0 ELSE bids[CHOOSE b \in BidsOn(l, "Accepted") : TRUE].amount

\* A load that is Cancelled already is answered "already cancelled" and nothing
\* is written; so cancelling is enabled only on the others.
CancelLoad(l, isAdmin) ==
    /\ loads[l].status \notin {NoRow, "Cancelled"}
    /\ IF isAdmin THEN CanAdminCancel(l) ELSE CanCustomerCancel(l)
    /\ loads' = [loads EXCEPT ![l].status = "Cancelled"]
    /\ bids' = ClosedBids(l)
    /\ IF isAdmin /\ loads[l].status = "Assigned" /\ loads[l].driver # None
       THEN RefundEscrow(l, loads[l].driver, AcceptedBidAmount(l))
       ELSE UNCHANGED <<payments, pending, wallet, log>>
    /\ UNCHANGED <<listings, offers, outbox>>

-------------------------------------------------------------------------------
(* AdminController.ReleasePayment and PaymentBackfillJob. *)

\* An administrator may release a Blocked payment whatever the load's status.
AdminRelease(p) ==
    /\ payments[p].status = "Blocked"
    /\ loads[payments[p].load].driver # None
    /\ Release(payments[p].load, loads[payments[p].load].driver)
    /\ UNCHANGED <<loads, bids, listings, offers, outbox>>

BackfillAmount(l) ==
    IF AcceptedBidAmount(l) > 0 THEN AcceptedBidAmount(l) ELSE loads[l].price

\* At every start of the server, for each load in transit without a Blocked
\* payment.
Backfill(l) ==
    /\ loads[l].status \in EscrowStates
    /\ loads[l].driver # None
    /\ BlockedOn(l) = {}
    /\ BackfillAmount(l) > 0
    /\ Hold(l, loads[l].driver, BackfillAmount(l))
    /\ UNCHANGED <<loads, bids, listings, offers, wallet, outbox>>

-------------------------------------------------------------------------------
LoadRequest(l) ==
    \/ \E price \in Amounts \ {0} : CreateLoad(l, price) \/ EditLoad(l, price)
    \/ Pickup(l) \/ Arrive(l) \/ Deliver(l)
    \/ \E isAdmin \in BOOLEAN : CancelLoad(l, isAdmin)

BidRequest(b) ==
    \/ \E l \in Loads, d \in Drivers, amount \in Amounts : SubmitBid(b, l, d, amount)
    \/ CancelBid(b) \/ AcceptBid(b)

ListingRequest(i) == CreateListing(i) \/ CancelListing(i) \/ AdminCancelListing(i)

OfferRequest(o) ==
    \/ \E i \in Listings, l \in Loads, amount \in Amounts \cup {None} : CreateOffer(o, i, l, amount)
    \/ RejectOffer(o) \/ WithdrawOffer(o) \/ AcceptOffer(o)

Next ==
    \/ \E l \in Loads : LoadRequest(l)
    \/ \E b \in Bids : BidRequest(b)
    \/ \E i \in Listings : ListingRequest(i)
    \/ \E o \in Offers : OfferRequest(o)
    \/ \E p \in Payments : AdminRelease(p)
    \/ \E l \in Loads : Backfill(l)

Spec == Init /\ [][Next]_vars

-------------------------------------------------------------------------------
(* What the rows must satisfy between two requests. *)

\* A row that exists has all its columns; one that does not has none.
LoadRecord == [status : {NoRow}, driver : {None}, price : {None}]
              \cup [status : LoadStatus, driver : Drivers \cup {None}, price : Amounts]
BidRecord == [status : {NoRow}]
             \cup [status : BidStatus, load : Loads, driver : Drivers, amount : Amounts]
OfferRecord == [status : {NoRow}]
               \cup [status : OfferStatus, listing : Listings, load : Loads,
                     amount : Amounts \cup {None}]
PaymentRecord == [status : {NoRow}] \cup [status : PaymentStatus, load : Loads, amount : Int]
LogRecord == [type : RowType, user : Users, amount : Int]

TypeOK ==
    /\ loads \in [Loads -> LoadRecord]
    /\ bids \in [Bids -> BidRecord]
    /\ listings \in [Listings -> ListingStatus \cup {NoRow}]
    /\ offers \in [Offers -> OfferRecord]
    /\ payments \in [Payments -> PaymentRecord]
    /\ pending \in [Drivers -> Int]
    /\ wallet \in [Users -> Int]
    /\ log \in [Loads -> Seq(LogRecord)]
    /\ outbox \in [Loads -> Seq({"PickUp", "Delivery"})]

\* The bids and offers a load's assignment can have come from.
AgreementsOn(l) == BidsOn(l, "Accepted")
                   \cup {o \in Offers : offers[o].status = "Accepted" /\ offers[o].load = l}

AgreedDriver(a) == IF a \in Bids THEN bids[a].driver ELSE ListingDriver[offers[a].listing]

\* A load is carried under exactly one agreement, a bid or an offer, and by the
\* driver who made it; a load still on the market has none.
OneAgreement ==
    \A l \in Loads :
        /\ loads[l].status \in {NoRow, "Active"} =>
              AgreementsOn(l) = {} /\ loads[l].driver = None
        /\ loads[l].status \in EscrowStates \cup {"Delivered"} =>
              \E a \in AgreementsOn(l) : AgreementsOn(l) = {a} /\ AgreedDriver(a) = loads[l].driver

\* The customer's money for a load is blocked at most once at a time
\* (HoldPaymentAsync refuses a second Blocked row).
OneEscrow ==
    \A p, q \in Payments :
        /\ payments[p].status = "Blocked"
        /\ payments[q].status = "Blocked"
        /\ payments[p].load = payments[q].load
        => p = q

\* No driver carries a load whose price was never put aside: in transit there is
\* a Blocked payment, or one an administrator released ahead of the delivery.
EscrowedInTransit ==
    \A l \in Loads : loads[l].status \in EscrowStates =>
        \E p \in PaymentsOf(l) : payments[p].status \in {"Blocked", "Released"}

\* A delivered load owes nobody: no payment of it is still Blocked, some payment
\* was released, and the ministry was told of the pick-up and of the delivery,
\* once each and in that order.
DeliveredIsSettled ==
    \A l \in Loads : loads[l].status = "Delivered" =>
        /\ BlockedOn(l) = {}
        /\ \E p \in PaymentsOf(l) : payments[p].status = "Released"
        /\ outbox[l] = <<"PickUp", "Delivery">>

\* The money follows the trip: it is put aside once, it is there while the load is
\* under way, and with the delivery it is paid out, whatever is cancelled, released
\* early or held again by the backfill.
EscrowFollowsTrip == OneEscrow /\ EscrowedInTransit /\ DeliveredIsSettled

\* What the rows of one type add up to.
SumOfRows(rows, type) ==
    SumOver([i \in DOMAIN rows |-> rows[i].amount], {i \in DOMAIN rows : rows[i].type = type})

Total(l, type) == SumOfRows(log[l], type)

Outstanding(l) == Total(l, "Hold") - Total(l, "Release") - Total(l, "HoldReversal")

GivenLoads(d) == {l \in Loads : loads[l].driver = d}

\* The pending balance of a driver is, to the kurus, what the audit log says is
\* still held for the loads he was given, whatever was cancelled, released early
\* or held again on the way, and a load without a Blocked payment holds nothing.
PendingMatchesLedger ==
    /\ \A d \in Drivers :
          pending[d] = SumOver([l \in Loads |-> Outstanding(l)], GivenLoads(d))
    /\ \A l \in Loads : BlockedOn(l) = {} => Outstanding(l) = 0

Charged(l) == SumOver([p \in PaymentsOf(l) |-> payments[p].amount], PaymentsOf(l))

\* Everything the customer was charged for a load is in the books: the driver's
\* net, both commissions and the withholding add up to the payments.
ChargesMatchLedger == \A l \in Loads : Charged(l) = Total(l, "Hold") + Total(l, "Fees")

\* The books balance on both sides: what the drivers are still owed and what the
\* customers were charged is what the rows of the audit log add up to.
BooksBalance == PendingMatchesLedger /\ ChargesMatchLedger

\* What keeps the books balanced: while a payment of a load is Blocked, the load's
\* driver has a hold and the latest of his holds, the one a release or a refund
\* looks up, is all that is outstanding.
BlockedIsHeld ==
    \A l \in Loads : BlockedOn(l) # {} =>
        /\ loads[l].driver \in Drivers
        /\ HoldRows(l, loads[l].driver) # {}
        /\ Outstanding(l) = LatestHold(l, loads[l].driver)

\* What ReleaseHold asks of the books before it pays the driver of a load.
HoldIsCovered(l) ==
    /\ HoldRows(l, loads[l].driver) # {}
    /\ pending[loads[l].driver] >= LatestHold(l, loads[l].driver)

\* The commission and the withholding leave something of every price.
NetsAreOwed == \A amount \in Amounts, corporate \in BOOLEAN : DriverNet(amount, corporate) >= 0

\* While a payment of a load is Blocked its driver can be paid, whatever else was held, released
\* or taken back for him: WalletLedgerService finds the hold and the pending balance covers it.
BlockedCanBePaid == \A l \in Loads : BlockedOn(l) # {} => HoldIsCovered(l)

\* A customer gets money back at most once per load, only for a payment marked
\* Refunded of a load that is Cancelled, and never more than that payment.
RefundedOnce ==
    \A l \in Loads : \A i \in RowsOf(l, "CustomerRefund") :
        /\ RowsOf(l, "CustomerRefund") = {i}
        /\ loads[l].status = "Cancelled"
        /\ \E p \in PaymentsOf(l) : /\ payments[p].status = "Refunded"
                                    /\ log[l][i].amount =< payments[p].amount

\* How far a load has got.
Stage(l) == CASE loads[l].status = NoRow -> 0
              [] loads[l].status = "Active" -> 1
              [] loads[l].status = "Assigned" -> 2
              [] loads[l].status = "OnWay" -> 3
              [] loads[l].status = "Arrived" -> 4
              [] OTHER -> 5

Forward(l) == /\ Stage(l)' >= Stage(l)
              /\ loads[l].status = "Cancelled" => loads'[l].status = "Cancelled"
              /\ loads[l].driver # None => loads'[l].driver = loads[l].driver

\* Cancelled is final, and a load that has a driver keeps him: no request takes
\* a load back to an earlier stage of the trip or hands it on.
ForwardOnly == [][\A l \in Loads : Forward(l)]_vars

\* The ministry's outbox follows the trip step by step: nothing before the pick-up,
\* the pick-up alone while the load is under way.
TripFollowed ==
    \A l \in Loads :
        /\ loads[l].status \in {NoRow, "Active", "Assigned"} => outbox[l] = <<>>
        /\ loads[l].status \in {"OnWay", "Arrived"} => outbox[l] = <<"PickUp">>

\* The inductive invariant behind OneEscrow, EscrowedInTransit, DeliveredIsSettled,
\* OneAgreement and ForwardOnly.
FreightInv == /\ TypeOK
              /\ OneEscrow
              /\ EscrowedInTransit
              /\ DeliveredIsSettled
              /\ OneAgreement
              /\ TripFollowed

-------------------------------------------------------------------------------
(* What the documents say and the requests, even one at a time, do not do.   *)

\* PaymentBackfillJob calls itself idempotent and safe at every start, the system
\* document says a driver is never credited twice: one load pays its driver once.
PaidOnce == \A l \in Loads : Cardinality(RowsOf(l, "Release")) =< 1
===============================================================================
