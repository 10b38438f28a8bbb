---------------------------- MODULE FreightProofs -----------------------------
(***************************************************************************)
(* Theorems of Freight, for any number of loads, drivers, bids, offers and *)
(* payments, any prices and any rates.                                     *)
(***************************************************************************)
EXTENDS Freight, SumsProofs, SequenceTheorems

-------------------------------------------------------------------------------
(* The split of a price. *)

\* Rounding a share of an integer price gives an integer.
LEMMA RoundShareType ==
    ASSUME NEW x \in Int, NEW rate \in Nat
    PROVE  RoundShare(x, rate) \in Int
BY DEF RoundShare, Scale

\* Every part of a split is an integer number of kurus.
LEMMA SettlementType ==
    ASSUME NEW x \in Int, NEW corporate \in BOOLEAN
    PROVE  /\ DriverCommission(x) \in Int
           /\ CustomerCommission(x) \in Int
           /\ Stopaj(x, corporate) \in Int
           /\ DriverNet(x, corporate) \in Int
           /\ CustomerTotal(x) \in Int
           /\ PlatformRevenue(x) \in Int
           /\ Fees(x, corporate) \in Int
           /\ RefundAmount(x) \in Int
<1>1. /\ DriverCommission(x) \in Int
      /\ CustomerCommission(x) \in Int
      /\ Stopaj(x, corporate) \in Int
  BY RoundShareType, RatesAssumption DEF DriverCommission, CustomerCommission, Stopaj
<1>2. GrossRefund(x) \in Int
  BY RatesAssumption DEF GrossRefund
<1>3. RefundAmount(x) \in Int
  BY <1>2, RatesAssumption DEF RefundAmount
<1>. QED
  BY <1>1, <1>3 DEF DriverNet, CustomerTotal, PlatformRevenue, Fees

\* What a customer is charged for a price is a natural number of kurus.
LEMMA CustomerTotalType ==
    ASSUME NEW x \in Nat
    PROVE  CustomerTotal(x) \in Nat
<1>1. x * CustomerRate \in Nat
  BY RatesAssumption
<1>2. CustomerCommission(x) \in Nat
  BY <1>1 DEF CustomerCommission, RoundShare, Scale
<1>. QED
  BY <1>2 DEF CustomerTotal

\* Nothing is lost and nothing is created when a price is split
\* (WalletSettlementCalculator.Calculate): what the customer is charged is what the
\* driver gets, what the platform keeps and what goes to the tax office.
THEOREM SplitIsComplete ==
    ASSUME NEW x \in Int, NEW corporate \in BOOLEAN
    PROVE  CustomerTotal(x) = DriverNet(x, corporate) + Fees(x, corporate)
BY SettlementType DEF DriverNet, CustomerTotal, Fees, PlatformRevenue

\* A refund never exceeds the payment it is made from.
THEOREM RefundIsBounded ==
    ASSUME NEW total \in Nat
    PROVE  RefundAmount(total) \in 0..total
<1>1. GrossRefund(total) \in Nat /\ GrossRefund(total) =< total
  <2>1. total * RefundPercent \in Nat /\ total * RefundPercent =< total * 100
    BY RatesAssumption
  <2>. QED
    BY <2>1 DEF GrossRefund
<1>. QED
  BY <1>1, RatesAssumption DEF RefundAmount

-------------------------------------------------------------------------------
(* Picking the latest row of a log. *)

\* A non-empty set of positions of a sequence has a greatest element.
LEMMA GreatestPosition ==
    ASSUME NEW n \in Nat, NEW S \in SUBSET (1..n), S # {}
    PROVE  \E i \in S : \A j \in S : j =< i
<1>. DEFINE T == {n - i : i \in S}
<1>1. IsWellFoundedOn(OpToRel(<, Nat), Nat)
  BY NatLessThanWellFounded
<1>2. T \subseteq Nat /\ T # {}
  <2>1. \A i \in S : n - i \in Nat
    OBVIOUS
  <2>. QED
    BY <2>1
<1>3. PICK m \in T : \A k \in T : <<k, m>> \notin OpToRel(<, Nat)
  <2>. HIDE DEF T
  <2>. QED
    BY <1>1, <1>2, WFMin
<1>4. PICK i \in S : m = n - i
  BY <1>3
<1>5. \A j \in S : j =< i
  <2>. TAKE j \in S
  <2>1. n - j \in T
    OBVIOUS
  <2>2. <<n - j, n - i>> \notin OpToRel(<, Nat)
    BY <2>1, <1>3, <1>4
  <2>3. ~(n - j < n - i)
    BY <2>1, <2>2, <1>2, <1>4 DEF OpToRel
  <2>. QED
    BY <2>3
<1>. QED
  BY <1>5

\* The amount of the latest hold of a driver is an integer when there is a hold.
LEMMA LatestHoldType ==
    ASSUME TypeOK, NEW l \in Loads, NEW d \in Drivers, HoldRows(l, d) # {}
    PROVE  LatestHold(l, d) \in Int
<1>1. log[l] \in Seq(LogRecord)
  BY DEF TypeOK
<1>2. HoldRows(l, d) \in SUBSET (1..Len(log[l]))
  BY <1>1 DEF HoldRows, RowsOf
<1>3. Len(log[l]) \in Nat
  BY <1>1
<1>4. \E i \in HoldRows(l, d) : \A j \in HoldRows(l, d) : j =< i
  BY <1>2, <1>3, GreatestPosition
<1>. DEFINE i == CHOOSE i \in HoldRows(l, d) : \A j \in HoldRows(l, d) : j =< i
<1>5. i \in HoldRows(l, d)
  BY <1>4
<1>6. log[l][i] \in LogRecord
  BY <1>1, <1>2, <1>5
<1>. QED
  BY <1>6 DEF LatestHold, LogRecord

-------------------------------------------------------------------------------
(* Type correctness. *)

MoneyType == /\ payments \in [Payments -> PaymentRecord]
             /\ pending \in [Drivers -> Int]
             /\ wallet \in [Users -> Int]
             /\ log \in [Loads -> Seq(LogRecord)]

\* A hold keeps the money tables well typed.
LEMMA HoldType ==
    ASSUME TypeOK, NEW l \in Loads, NEW d \in Drivers, NEW amount \in Amounts,
           Hold(l, d, amount), wallet' = wallet
    PROVE  MoneyType'
<1>. DEFINE net == DriverNet(amount, Corporate[d])
            fees == Fees(amount, Corporate[d])
<1>1. amount \in Int /\ Corporate[d] \in BOOLEAN
  BY FreightAssumption
<1>2. net \in Int /\ fees \in Int /\ CustomerTotal(amount) \in Int
  BY <1>1, SettlementType
<1>3. payments' \in [Payments -> PaymentRecord]
  BY <1>2 DEF Hold, TypeOK, PaymentRecord, PaymentStatus
<1>4. pending' \in [Drivers -> Int]
  BY <1>2 DEF Hold, TypeOK
<1>5. log' \in [Loads -> Seq(LogRecord)]
  <2>1. <<Row("Hold", d, net), Row("Fees", d, fees)>> \in Seq(LogRecord)
    BY <1>2 DEF Row, LogRecord, RowType, Users
  <2>2. log[l] \o <<Row("Hold", d, net), Row("Fees", d, fees)>> \in Seq(LogRecord)
    BY <2>1 DEF TypeOK
  <2>. QED
    BY <2>2 DEF Hold, TypeOK
<1>. QED
  BY <1>3, <1>4, <1>5 DEF MoneyType, TypeOK

\* A release keeps the money tables well typed.
LEMMA ReleaseType ==
    ASSUME TypeOK, NEW l \in Loads, NEW d \in Drivers, Release(l, d)
    PROVE  MoneyType'
<1>1. LatestHold(l, d) \in Int
  BY LatestHoldType DEF Release
<1>2. payments' \in [Payments -> PaymentRecord]
  <2>1. PICK p \in BlockedOn(l) : payments' = [payments EXCEPT ![p].status = "Released"]
    BY DEF Release
  <2>2. p \in Payments /\ payments[p] \in PaymentRecord /\ payments[p].status = "Blocked"
    BY DEF BlockedOn, PaymentsOf, TypeOK
  <2>. QED
    BY <2>1, <2>2 DEF TypeOK, PaymentRecord, PaymentStatus, NoRow
<1>3. pending' \in [Drivers -> Int] /\ wallet' \in [Users -> Int]
  BY <1>1 DEF Release, TypeOK, Users
<1>4. log' \in [Loads -> Seq(LogRecord)]
  <2>1. Row("Release", d, LatestHold(l, d)) \in LogRecord
    BY <1>1 DEF Row, LogRecord, RowType, Users
  <2>2. Append(log[l], Row("Release", d, LatestHold(l, d))) \in Seq(LogRecord)
    BY <2>1 DEF TypeOK
  <2>. QED
    BY <2>2 DEF Release, TypeOK
<1>. QED
  BY <1>2, <1>3, <1>4 DEF MoneyType

\* A refund keeps the money tables well typed, whether it pays back or gives up.
LEMMA RefundType ==
    ASSUME TypeOK, NEW l \in Loads, NEW d \in Drivers, NEW bidAmount \in Int,
           RefundEscrow(l, d, bidAmount)
    PROVE  MoneyType'
<1>1. CASE UNCHANGED <<payments, pending, wallet, log>>
  BY <1>1 DEF TypeOK, MoneyType
<1>2. CASE ~UNCHANGED <<payments, pending, wallet, log>>
  <2>1. PICK p \in PaymentsOf(l) :
          /\ payments[p].status = "Blocked"
          /\ payments' = [payments EXCEPT ![p].status = "Refunded"]
          /\ pending' = IF HoldRows(l, d) = {} THEN pending
                        ELSE [pending EXCEPT ![d] = @ - LatestHold(l, d)]
          /\ wallet' = [wallet EXCEPT ![Owner[l]] = @ + RefundAmount(payments[p].amount)]
          /\ log' = [log EXCEPT ![l] = @ \o RefundRows(l, d, p, bidAmount)]
    BY <1>2 DEF RefundEscrow
  <2>2. p \in Payments /\ payments[p] \in PaymentRecord
    BY DEF PaymentsOf, TypeOK
  <2>3. RefundAmount(payments[p].amount) \in Int
    BY <2>1, <2>2, SettlementType DEF PaymentRecord, NoRow
  <2>4. Owner[l] \in Users
    BY FreightAssumption DEF Users
  <2>5. HoldRows(l, d) # {} => LatestHold(l, d) \in Int
    BY LatestHoldType
  <2>6. payments' \in [Payments -> PaymentRecord]
    BY <2>1, <2>2 DEF TypeOK, PaymentRecord, PaymentStatus, NoRow
  <2>7. pending' \in [Drivers -> Int] /\ wallet' \in [Users -> Int]
    BY <2>1, <2>3, <2>4, <2>5 DEF TypeOK
  <2>8. RefundRows(l, d, p, bidAmount) \in Seq(LogRecord)
    <3>1. (IF HoldRows(l, d) = {} THEN <<>>
           ELSE <<Row("HoldReversal", d, LatestHold(l, d))>>) \in Seq(LogRecord)
      <4>1. CASE HoldRows(l, d) = {}
        BY <4>1
      <4>2. CASE HoldRows(l, d) # {}
        <5>1. Row("HoldReversal", d, LatestHold(l, d)) \in LogRecord
          BY <4>2, <2>5 DEF Row, LogRecord, RowType, Users
        <5>. QED
          BY <4>2, <5>1
      <4>. QED
        BY <4>1, <4>2
    <3>2. (IF bidAmount = 0 THEN <<>>
           ELSE <<Row("FeesReversal", d, Fees(bidAmount, Corporate[d]))>>) \in Seq(LogRecord)
      <4>1. Fees(bidAmount, Corporate[d]) \in Int
        BY SettlementType, FreightAssumption
      <4>2. Row("FeesReversal", d, Fees(bidAmount, Corporate[d])) \in LogRecord
        BY <4>1 DEF Row, LogRecord, RowType, Users
      <4>3. CASE bidAmount = 0
        BY <4>3
      <4>4. CASE bidAmount # 0
        BY <4>4, <4>2
      <4>. QED
        BY <4>3, <4>4
    <3>3. <<Row("CustomerRefund", Owner[l], RefundAmount(payments[p].amount))>> \in Seq(LogRecord)
      BY <2>3, <2>4 DEF Row, LogRecord, RowType
    <3>. QED
      BY <3>1, <3>2, <3>3, ConcatProperties DEF RefundRows
  <2>9. log' \in [Loads -> Seq(LogRecord)]
    <3>1. log[l] \o RefundRows(l, d, p, bidAmount) \in Seq(LogRecord)
      BY <2>8, ConcatProperties DEF TypeOK
    <3>. QED
      BY <3>1, <2>1 DEF TypeOK
  <2>. QED
    BY <2>6, <2>7, <2>9 DEF MoneyType
<1>. QED
  BY <1>1, <1>2

\* The price a load is assigned for, whichever way, is one of Amounts.
LEMMA PriceType ==
    ASSUME TypeOK
    PROVE  /\ \A l \in Loads : loads[l].status # NoRow =>
                /\ loads[l].price \in Amounts
                /\ loads[l].driver \in Drivers \cup {None}
           /\ \A o \in Offers : offers[o].status = "Pending" =>
                /\ offers[o].listing \in Listings
                /\ offers[o].load \in Loads
                /\ loads[offers[o].load].status # NoRow => OfferedAmount(o) \in Amounts
           /\ \A b \in Bids : bids[b].status # NoRow =>
                bids[b].load \in Loads /\ bids[b].driver \in Drivers /\ bids[b].amount \in Amounts
<1>1. \A l \in Loads : loads[l].status # NoRow =>
          loads[l].price \in Amounts /\ loads[l].driver \in Drivers \cup {None}
  BY DEF TypeOK, LoadRecord, NoRow
<1>2. \A o \in Offers : offers[o].status = "Pending" =>
          /\ offers[o].listing \in Listings
          /\ offers[o].load \in Loads
          /\ offers[o].amount \in Amounts \cup {None}
  BY DEF TypeOK, OfferRecord, NoRow
<1>3. \A b \in Bids : bids[b].status # NoRow =>
          bids[b].load \in Loads /\ bids[b].driver \in Drivers /\ bids[b].amount \in Amounts
  BY DEF TypeOK, BidRecord, NoRow
<1>. QED
  BY <1>1, <1>2, <1>3 DEF OfferedAmount

\* Prices are whole numbers of kurus.
LEMMA AmountsAreIntegers == \A a \in Amounts : a \in Int
BY FreightAssumption

\* What a refund or a backfill takes for the bid amount is a price, or 0.
LEMMA AcceptedBidAmountType ==
    ASSUME TypeOK, NEW l \in Loads
    PROVE  /\ AcceptedBidAmount(l) \in Int
           /\ AcceptedBidAmount(l) \in Amounts \/ AcceptedBidAmount(l) = 0
<1>1. CASE BidsOn(l, "Accepted") = {}
  BY <1>1 DEF AcceptedBidAmount
<1>2. CASE BidsOn(l, "Accepted") # {}
  <2>1. (CHOOSE b \in BidsOn(l, "Accepted") : TRUE) \in BidsOn(l, "Accepted")
    BY <1>2
  <2>2. AcceptedBidAmount(l) \in Amounts
    BY <1>2, <2>1, PriceType DEF AcceptedBidAmount, BidsOn, NoRow
  <2>. QED
    BY <2>2, AmountsAreIntegers
<1>. QED
  BY <1>1, <1>2

\* The types of the four tables a request leaves alone or changes, and of the money.
RowsType == /\ loads \in [Loads -> LoadRecord]
            /\ bids \in [Bids -> BidRecord]
            /\ listings \in [Listings -> ListingStatus \cup {NoRow}]
            /\ offers \in [Offers -> OfferRecord]
            /\ outbox \in [Loads -> Seq({"PickUp", "Delivery"})]

\* Changing the status of a row that exists, and assigning a load, keep its type.
LEMMA StatusUpdates ==
    /\ \A r \in BidRecord, st \in BidStatus :
          r.status # NoRow => [r EXCEPT !.status = st] \in BidRecord
    /\ \A r \in OfferRecord, st \in OfferStatus :
          r.status # NoRow => /\ [r EXCEPT !.status = st] \in OfferRecord
                              /\ [r EXCEPT !.status = st].status = st
    /\ \A r \in LoadRecord, st \in LoadStatus :
          r.status # NoRow => [r EXCEPT !.status = st] \in LoadRecord
    /\ \A r \in LoadRecord, st \in LoadStatus, d \in Drivers :
          r.status # NoRow => [r EXCEPT !.status = st, !.driver = d] \in LoadRecord
<1>1. \A r \in BidRecord, st \in BidStatus :
          r.status # NoRow => [r EXCEPT !.status = st] \in BidRecord
  BY DEF BidRecord
<1>2. \A r \in OfferRecord, st \in OfferStatus :
          r.status # NoRow => /\ [r EXCEPT !.status = st] \in OfferRecord
                              /\ [r EXCEPT !.status = st].status = st
  BY DEF OfferRecord
<1>3. \A r \in LoadRecord, st \in LoadStatus :
          r.status # NoRow => [r EXCEPT !.status = st] \in LoadRecord
  BY DEF LoadRecord
<1>4. \A r \in LoadRecord, st \in LoadStatus, d \in Drivers :
          r.status # NoRow => [r EXCEPT !.status = st, !.driver = d] \in LoadRecord
  BY DEF LoadRecord
<1>. QED
  BY <1>1, <1>2, <1>3, <1>4

\* Assigning a load to a driver keeps the load table well typed.
LEMMA AssignedType ==
    ASSUME TypeOK, NEW l \in Loads, NEW d \in Drivers, loads[l].status # NoRow
    PROVE  Assigned(l, d) \in [Loads -> LoadRecord]
<1>1. [loads[l] EXCEPT !.status = "Assigned", !.driver = d] \in LoadRecord
  BY StatusUpdates DEF TypeOK, LoadStatus
<1>2. Assigned(l, d) = [loads EXCEPT ![l] = [loads[l] EXCEPT !.status = "Assigned", !.driver = d]]
  BY DEF Assigned, TypeOK
<1>. QED
  BY <1>1, <1>2 DEF TypeOK

\* Writing one event for the ministry keeps the outbox well typed.
LEMMA OutboxType ==
    ASSUME TypeOK, NEW l \in Loads, NEW event \in {"PickUp", "Delivery"}
    PROVE  [outbox EXCEPT ![l] = Append(@, event)] \in [Loads -> Seq({"PickUp", "Delivery"})]
<1>1. Append(outbox[l], event) \in Seq({"PickUp", "Delivery"})
  BY AppendProperties DEF TypeOK
<1>. QED
  BY <1>1 DEF TypeOK

\* Requests on a load preserve the types.
LEMMA LoadRequestType ==
    ASSUME TypeOK, NEW l \in Loads, LoadRequest(l)
    PROVE  TypeOK'
<1>1. ASSUME NEW price \in Amounts \ {0}, CreateLoad(l, price) PROVE TypeOK'
  BY <1>1 DEF CreateLoad, TypeOK, LoadRecord, LoadStatus, NoRow
<1>2. ASSUME NEW price \in Amounts \ {0}, EditLoad(l, price) PROVE TypeOK'
  BY <1>2 DEF EditLoad, TypeOK, LoadRecord, LoadStatus, NoRow
<1>3. CASE Pickup(l)
  <2>1. outbox' \in [Loads -> Seq({"PickUp", "Delivery"})]
    BY <1>3, OutboxType DEF Pickup
  <2>2. loads' \in [Loads -> LoadRecord]
    BY <1>3, StatusUpdates DEF Pickup, TypeOK, LoadStatus, NoRow
  <2>. QED
    BY <1>3, <2>1, <2>2 DEF Pickup, TypeOK
<1>4. CASE Arrive(l)
  BY <1>4 DEF Arrive, TypeOK, LoadRecord, LoadStatus, NoRow
<1>5. CASE Deliver(l)
  <2>1. loads[l].driver \in Drivers
    BY <1>5, PriceType DEF Deliver, NoRow
  <2>2. MoneyType'
    BY <1>5, <2>1, ReleaseType DEF Deliver
  <2>3. RowsType'
    <3>1. outbox' \in [Loads -> Seq({"PickUp", "Delivery"})]
      BY <1>5, OutboxType DEF Deliver
    <3>2. loads' \in [Loads -> LoadRecord]
      BY <1>5, StatusUpdates DEF Deliver, TypeOK, LoadStatus, NoRow
    <3>. QED
      BY <1>5, <3>1, <3>2 DEF Deliver, TypeOK, RowsType
  <2>. QED
    BY <2>2, <2>3 DEF TypeOK, RowsType, MoneyType
<1>6. ASSUME NEW isAdmin \in BOOLEAN, CancelLoad(l, isAdmin) PROVE TypeOK'
  <2>1. loads' \in [Loads -> LoadRecord]
    BY <1>6 DEF CancelLoad, TypeOK, LoadRecord, LoadStatus, NoRow
  <2>2. bids' \in [Bids -> BidRecord]
    BY <1>6, StatusUpdates DEF CancelLoad, ClosedBids, BidsOn, TypeOK, BidStatus, NoRow
  <2>3. RowsType'
    BY <1>6, <2>1, <2>2 DEF CancelLoad, TypeOK, RowsType
  <2>4. MoneyType'
    <3>1. CASE UNCHANGED <<payments, pending, wallet, log>>
      BY <3>1 DEF TypeOK, MoneyType
    <3>2. CASE /\ loads[l].status = "Assigned" /\ loads[l].driver # None
               /\ RefundEscrow(l, loads[l].driver, AcceptedBidAmount(l))
      <4>1. loads[l].driver \in Drivers
        BY <3>2, PriceType DEF NoRow
      <4>2. AcceptedBidAmount(l) \in Int
        BY AcceptedBidAmountType
      <4>. QED
        BY <3>2, <4>1, <4>2, RefundType
    <3>. QED
      BY <1>6, <3>1, <3>2 DEF CancelLoad
  <2>. QED
    BY <2>3, <2>4 DEF TypeOK, RowsType, MoneyType
<1>. QED
  BY <1>1, <1>2, <1>3, <1>4, <1>5, <1>6 DEF LoadRequest

\* Requests on a bid preserve the types.
LEMMA BidRequestType ==
    ASSUME TypeOK, NEW b \in Bids, BidRequest(b)
    PROVE  TypeOK'
<1>1. ASSUME NEW l \in Loads, NEW d \in Drivers, NEW amount \in Amounts,
             SubmitBid(b, l, d, amount)
      PROVE  TypeOK'
  BY <1>1 DEF SubmitBid, TypeOK, BidRecord, BidStatus, NoRow
<1>2. CASE CancelBid(b)
  BY <1>2 DEF CancelBid, TypeOK, BidRecord, BidStatus, NoRow
<1>3. CASE AcceptBid(b)
  <2>. DEFINE l == bids[b].load
  <2>1. l \in Loads /\ bids[b].driver \in Drivers /\ bids[b].amount \in Amounts
    BY <1>3, PriceType DEF AcceptBid, NoRow
  <2>2. MoneyType'
    BY <1>3, <2>1, HoldType DEF AcceptBid
  <2>3. loads' \in [Loads -> LoadRecord]
    BY <1>3, <2>1, AssignedType DEF AcceptBid, NoRow
  <2>4. bids' \in [Bids -> BidRecord]
    BY <1>3, StatusUpdates DEF AcceptBid, BidsOn, TypeOK, BidStatus, NoRow
  <2>5. RowsType'
    BY <1>3, <2>3, <2>4 DEF AcceptBid, TypeOK, RowsType
  <2>. QED
    BY <2>2, <2>5 DEF TypeOK, RowsType, MoneyType
<1>. QED
  BY <1>1, <1>2, <1>3 DEF BidRequest

\* Requests on a listing preserve the types.
LEMMA ListingRequestType ==
    ASSUME TypeOK, NEW i \in Listings, ListingRequest(i)
    PROVE  TypeOK'
<1>1. CASE CreateListing(i)
  BY <1>1 DEF CreateListing, TypeOK, ListingStatus
<1>2. CASE CancelListing(i)
  BY <1>2 DEF CancelListing, TypeOK, ListingStatus
<1>3. CASE AdminCancelListing(i)
  <2>1. listings' \in [Listings -> ListingStatus \cup {NoRow}]
    BY <1>3 DEF AdminCancelListing, TypeOK, ListingStatus
  <2>2. offers' \in [Offers -> OfferRecord]
    BY <1>3 DEF AdminCancelListing, RejectedOffers, OffersTo, TypeOK, OfferRecord, OfferStatus, NoRow
  <2>. QED
    BY <1>3, <2>1, <2>2 DEF AdminCancelListing, TypeOK
<1>. QED
  BY <1>1, <1>2, <1>3 DEF ListingRequest

\* Requests on an offer preserve the types.
LEMMA OfferRequestType ==
    ASSUME TypeOK, NEW o \in Offers, OfferRequest(o)
    PROVE  TypeOK'
<1>1. ASSUME NEW i \in Listings, NEW l \in Loads, NEW amount \in Amounts \cup {None},
             CreateOffer(o, i, l, amount)
      PROVE  TypeOK'
  BY <1>1 DEF CreateOffer, TypeOK, OfferRecord, OfferStatus, NoRow
<1>2. CASE RejectOffer(o) \/ WithdrawOffer(o)
  <2>1. PICK st \in OfferStatus : CloseOffer(o, st)
    BY <1>2 DEF RejectOffer, WithdrawOffer, OfferStatus
  <2>2. [offers[o] EXCEPT !.status = st] \in OfferRecord
    BY <2>1, StatusUpdates DEF CloseOffer, TypeOK, NoRow
  <2>3. offers' \in [Offers -> OfferRecord]
    BY <2>1, <2>2 DEF CloseOffer, TypeOK
  <2>. QED
    BY <2>1, <2>3 DEF CloseOffer, TypeOK
<1>3. CASE AcceptOffer(o)
  <2>. DEFINE i == offers[o].listing
              l == offers[o].load
  <2>1. i \in Listings /\ l \in Loads /\ OfferedAmount(o) \in Amounts
    BY <1>3, PriceType DEF AcceptOffer, NoRow
  <2>2. ListingDriver[i] \in Drivers
    BY <2>1, FreightAssumption
  <2>3. MoneyType'
    BY <1>3, <2>1, <2>2, HoldType DEF AcceptOffer
  <2>4. loads' \in [Loads -> LoadRecord]
    BY <1>3, <2>1, <2>2, AssignedType DEF AcceptOffer, NoRow
  <2>5. offers' \in [Offers -> OfferRecord]
    <3>1. RejectedOffers(OffersTo(i, "Pending")) \in [Offers -> OfferRecord]
      BY StatusUpdates DEF RejectedOffers, OffersTo, TypeOK, OfferStatus, NoRow
    <3>2. RejectedOffers(OffersTo(i, "Pending"))[o].status # NoRow
      <4>1. [offers[o] EXCEPT !.status = "Rejected"].status = "Rejected"
        BY <1>3, StatusUpdates DEF AcceptOffer, TypeOK, OfferStatus, NoRow
      <4>. QED
        BY <1>3, <4>1 DEF AcceptOffer, RejectedOffers, NoRow
    <3>. QED
      BY <1>3, <3>1, <3>2, StatusUpdates DEF AcceptOffer, OfferStatus
  <2>6. listings' \in [Listings -> ListingStatus \cup {NoRow}]
    BY <1>3 DEF AcceptOffer, TypeOK, ListingStatus
  <2>7. RowsType'
    BY <1>3, <2>4, <2>5, <2>6 DEF AcceptOffer, TypeOK, RowsType
  <2>. QED
    BY <2>3, <2>7 DEF TypeOK, RowsType, MoneyType
<1>. QED
  BY <1>1, <1>2, <1>3 DEF OfferRequest

\* The administrator's release preserves the types.
LEMMA AdminReleaseType ==
    ASSUME TypeOK, NEW p \in Payments, AdminRelease(p)
    PROVE  TypeOK'
<1>1. payments[p].load \in Loads
  BY DEF AdminRelease, TypeOK, PaymentRecord, NoRow
<1>2. loads[payments[p].load].driver \in Drivers
  BY <1>1 DEF AdminRelease, TypeOK, LoadRecord
<1>3. MoneyType'
  BY <1>1, <1>2, ReleaseType DEF AdminRelease
<1>4. RowsType'
  BY DEF AdminRelease, TypeOK, RowsType
<1>. QED
  BY <1>3, <1>4 DEF TypeOK, RowsType, MoneyType

\* The backfill of a missing escrow preserves the types.
LEMMA BackfillType ==
    ASSUME TypeOK, NEW l \in Loads, Backfill(l)
    PROVE  TypeOK'
<1>1. loads[l].driver \in Drivers
  BY PriceType DEF Backfill, EscrowStates, NoRow
<1>2. BackfillAmount(l) \in Amounts
  BY PriceType, AcceptedBidAmountType DEF Backfill, BackfillAmount, EscrowStates, NoRow
<1>3. MoneyType'
  BY <1>1, <1>2, HoldType DEF Backfill
<1>4. RowsType'
  BY DEF Backfill, TypeOK, RowsType
<1>. QED
  BY <1>3, <1>4 DEF TypeOK, RowsType, MoneyType

\* The empty database is well typed.
LEMMA InitType == Init => TypeOK
BY DEF Init, TypeOK, LoadRecord, BidRecord, OfferRecord, PaymentRecord, NoRow

\* Every request preserves the types.
LEMMA NextType == TypeOK /\ [Next]_vars => TypeOK'
<1>. SUFFICES ASSUME TypeOK, [Next]_vars PROVE TypeOK'
  OBVIOUS
<1>1. CASE Next
  BY <1>1, LoadRequestType, BidRequestType, ListingRequestType, OfferRequestType,
     AdminReleaseType, BackfillType DEF Next
<1>2. CASE UNCHANGED vars
  BY <1>2 DEF vars, TypeOK
<1>. QED
  BY <1>1, <1>2

\* Every table keeps its types, in particular no sum is ever taken of an amount that
\* is missing: an offer without an amount falls back on a load that has a price, and
\* a release finds the hold it reverses.
THEOREM TypeCorrect == Spec => []TypeOK
BY InitType, NextType, PTL DEF Spec

-------------------------------------------------------------------------------
(* What a step does to one load and to the payments. *)

\* The seven things that can happen to a load's row and its outbox in one request.
Created(l) == /\ loads[l].status = NoRow
              /\ loads'[l].status = "Active"
              /\ loads'[l].driver = None
              /\ outbox'[l] = outbox[l]
Moved(l, from, to) == /\ loads[l].status = from
                      /\ loads'[l].status = to
                      /\ loads'[l].driver = loads[l].driver
GivenTo(l, d) == /\ loads[l].status = "Active"
                 /\ loads'[l].status = "Assigned"
                 /\ loads'[l].driver = d
                 /\ outbox'[l] = outbox[l]
                 /\ \E p \in Payments : /\ payments'[p].status = "Blocked"
                                        /\ payments'[p].load = l
Settled(l) == /\ outbox'[l] = Append(outbox[l], "Delivery")
              /\ \E p \in BlockedOn(l) : payments' = [payments EXCEPT ![p].status = "Released"]

LoadMoves(l) ==
    \/ loads'[l] = loads[l] /\ outbox'[l] = outbox[l]
    \/ Created(l)
    \/ Moved(l, "Active", "Active") /\ outbox'[l] = outbox[l]
    \/ \E d \in Drivers : GivenTo(l, d)
    \/ Moved(l, "Assigned", "OnWay") /\ outbox'[l] = Append(outbox[l], "PickUp")
    \/ Moved(l, "OnWay", "Arrived") /\ outbox'[l] = outbox[l]
    \/ \E from \in {"OnWay", "Arrived"} : Moved(l, from, "Delivered") /\ Settled(l)
    \/ /\ \E from \in LoadStatus \ {"Cancelled"} : Moved(l, from, "Cancelled")
       /\ outbox'[l] = outbox[l]

PaymentMoves ==
    \/ payments' = payments
    \/ \E p \in Payments, l \in Loads, total \in Nat :
          /\ payments[p].status = NoRow
          /\ BlockedOn(l) = {}
          /\ loads'[l].status \in EscrowStates
          /\ payments' = [payments EXCEPT ![p] =
                [status |-> "Blocked", load |-> l, amount |-> total]]
    \/ \E p \in Payments :
          /\ payments[p].status = "Blocked"
          /\ payments' = [payments EXCEPT ![p].status = "Released"]
    \/ \E p \in Payments :
          /\ payments[p].status = "Blocked"
          /\ loads'[payments[p].load].status = "Cancelled"
          /\ payments' = [payments EXCEPT ![p].status = "Refunded"]

\* A hold inserts one Blocked payment of a load that had none.
LEMMA HoldStep ==
    ASSUME TypeOK, NEW l \in Loads, NEW d \in Drivers, NEW amount \in Amounts, Hold(l, d, amount)
    PROVE  \E p \in Payments, total \in Nat :
              /\ payments[p].status = NoRow
              /\ BlockedOn(l) = {}
              /\ payments' = [payments EXCEPT ![p] =
                    [status |-> "Blocked", load |-> l, amount |-> total]]
              /\ payments'[p].status = "Blocked" /\ payments'[p].load = l
<1>1. CustomerTotal(amount) \in Nat
  BY FreightAssumption, CustomerTotalType
<1>2. PICK p \in Payments :
        /\ payments[p].status = NoRow
        /\ payments' = [payments EXCEPT ![p] =
              [status |-> "Blocked", load |-> l, amount |-> CustomerTotal(amount)]]
  BY DEF Hold
<1>3. payments'[p] = [status |-> "Blocked", load |-> l, amount |-> CustomerTotal(amount)]
  BY <1>2 DEF TypeOK
<1>4. payments'[p].status = "Blocked" /\ payments'[p].load = l
  BY <1>3
<1>5. BlockedOn(l) = {}
  BY DEF Hold
<1>. WITNESS p \in Payments, CustomerTotal(amount) \in Nat
<1>. QED
  BY <1>2, <1>4, <1>5

\* A release takes one payment of the load from Blocked to Released.
LEMMA ReleaseStep ==
    ASSUME TypeOK, NEW l \in Loads, NEW d \in Drivers, Release(l, d)
    PROVE  \E p \in Payments :
              /\ p \in BlockedOn(l)
              /\ payments[p].status = "Blocked"
              /\ payments' = [payments EXCEPT ![p].status = "Released"]
BY DEF Release, BlockedOn, PaymentsOf

\* A refund takes at most one payment of the load, from Blocked to Refunded.
LEMMA RefundStep ==
    ASSUME TypeOK, NEW l \in Loads, NEW d \in Drivers, NEW bidAmount \in Int,
           RefundEscrow(l, d, bidAmount)
    PROVE  \/ payments' = payments
           \/ \E p \in Payments :
                 /\ payments[p].status = "Blocked"
                 /\ payments[p].load = l
                 /\ payments' = [payments EXCEPT ![p].status = "Refunded"]
BY DEF RefundEscrow, PaymentsOf

\* Assigning an Active load and holding its price moves that load as LoadMoves says,
\* and no other.
LEMMA AssignedMove ==
    ASSUME TypeOK, NEW k \in Loads, NEW d \in Drivers, NEW amount \in Amounts,
           loads[k].status = "Active", loads' = Assigned(k, d), Hold(k, d, amount), outbox' = outbox,
           NEW l \in Loads
    PROVE  LoadMoves(l)
<1>1. CASE l # k
  <2>1. loads'[l] = loads[l]
    BY <1>1 DEF Assigned, TypeOK
  <2>. QED
    BY <2>1 DEF LoadMoves
<1>2. CASE l = k
  <2>1. loads[l] \in LoadRecord /\ loads[l].status # NoRow
    BY <1>2 DEF TypeOK, NoRow
  <2>2. loads'[l] = [loads[l] EXCEPT !.status = "Assigned", !.driver = d]
    BY <1>2 DEF Assigned, TypeOK
  <2>3. loads'[l].status = "Assigned" /\ loads'[l].driver = d
    BY <2>1, <2>2 DEF LoadRecord
  <2>4. \E p \in Payments : payments'[p].status = "Blocked" /\ payments'[p].load = l
    BY <1>2, HoldStep
  <2>5. GivenTo(l, d)
    BY <1>2, <2>3, <2>4 DEF GivenTo
  <2>. QED
    BY <2>5 DEF LoadMoves
<1>. QED
  BY <1>1, <1>2

\* What each request does to a load's row.
LEMMA LoadStep ==
    ASSUME TypeOK, Next, NEW l \in Loads
    PROVE  LoadMoves(l)
<1>1. CASE loads' = loads /\ outbox' = outbox
  BY <1>1 DEF LoadMoves
<1>2. ASSUME NEW k \in Loads, LoadRequest(k) PROVE LoadMoves(l)
  <2>0. loads[l] \in LoadRecord /\ outbox[l] \in Seq({"PickUp", "Delivery"})
    BY DEF TypeOK
  <2>1. ASSUME NEW price \in Amounts \ {0}, CreateLoad(k, price) PROVE LoadMoves(l)
    <3>1. l # k => loads'[l] = loads[l] /\ outbox'[l] = outbox[l]
      BY <2>1 DEF CreateLoad, TypeOK
    <3>2. l = k => Created(l)
      BY <2>1 DEF CreateLoad, TypeOK, Created
    <3>. QED
      BY <3>1, <3>2 DEF LoadMoves
  <2>2. ASSUME NEW price \in Amounts \ {0}, EditLoad(k, price) PROVE LoadMoves(l)
    <3>1. l # k => loads'[l] = loads[l] /\ outbox'[l] = outbox[l]
      BY <2>2 DEF EditLoad, TypeOK
    <3>2. l = k => Moved(l, "Active", "Active") /\ outbox'[l] = outbox[l]
      BY <2>0, <2>2 DEF EditLoad, TypeOK, Moved, LoadRecord, NoRow
    <3>. QED
      BY <3>1, <3>2 DEF LoadMoves
  <2>3. CASE Pickup(k)
    <3>1. l # k => loads'[l] = loads[l] /\ outbox'[l] = outbox[l]
      BY <2>3 DEF Pickup, TypeOK
    <3>2. l = k => Moved(l, "Assigned", "OnWay") /\ outbox'[l] = Append(outbox[l], "PickUp")
      BY <2>0, <2>3 DEF Pickup, TypeOK, Moved, LoadRecord, NoRow
    <3>. QED
      BY <3>1, <3>2 DEF LoadMoves
  <2>4. CASE Arrive(k)
    <3>1. l # k => loads'[l] = loads[l] /\ outbox'[l] = outbox[l]
      BY <2>4 DEF Arrive, TypeOK
    <3>2. l = k => Moved(l, "OnWay", "Arrived") /\ outbox'[l] = outbox[l]
      BY <2>0, <2>4 DEF Arrive, TypeOK, Moved, LoadRecord, NoRow
    <3>. QED
      BY <3>1, <3>2 DEF LoadMoves
  <2>5. CASE Deliver(k)
    <3>1. l # k => loads'[l] = loads[l] /\ outbox'[l] = outbox[l]
      BY <2>5 DEF Deliver, TypeOK
    <3>2. l = k => \E from \in {"OnWay", "Arrived"} : Moved(l, from, "Delivered")
      BY <2>0, <2>5 DEF Deliver, TypeOK, Moved, LoadRecord, NoRow
    <3>3. l = k => Settled(l)
      <4>1. loads[k].driver \in Drivers
        BY <2>5, PriceType DEF Deliver, NoRow
      <4>2. \E p \in BlockedOn(k) : payments' = [payments EXCEPT ![p].status = "Released"]
        BY <2>5, <4>1, ReleaseStep DEF Deliver
      <4>. QED
        BY <2>5, <4>2 DEF Deliver, Settled, TypeOK
    <3>. QED
      BY <3>1, <3>2, <3>3 DEF LoadMoves
  <2>6. ASSUME NEW isAdmin \in BOOLEAN, CancelLoad(k, isAdmin) PROVE LoadMoves(l)
    <3>1. l # k => loads'[l] = loads[l] /\ outbox'[l] = outbox[l]
      BY <2>6 DEF CancelLoad, TypeOK
    <3>2. l = k => /\ \E from \in LoadStatus \ {"Cancelled"} : Moved(l, from, "Cancelled")
                   /\ outbox'[l] = outbox[l]
      BY <2>0, <2>6 DEF CancelLoad, TypeOK, Moved, LoadRecord, NoRow
    <3>. QED
      BY <3>1, <3>2 DEF LoadMoves
  <2>. QED
    BY <1>2, <2>1, <2>2, <2>3, <2>4, <2>5, <2>6 DEF LoadRequest
<1>3. ASSUME NEW b \in Bids, BidRequest(b) PROVE LoadMoves(l)
  <2>1. CASE AcceptBid(b)
    BY <2>1, PriceType, AssignedMove DEF AcceptBid, NoRow
  <2>. QED
    BY <1>1, <1>3, <2>1 DEF BidRequest, SubmitBid, CancelBid
<1>4. ASSUME NEW i \in Listings, ListingRequest(i) PROVE LoadMoves(l)
  BY <1>1, <1>4 DEF ListingRequest, CreateListing, CancelListing, AdminCancelListing
<1>5. ASSUME NEW o \in Offers, OfferRequest(o) PROVE LoadMoves(l)
  <2>1. CASE AcceptOffer(o)
    <3>1. ListingDriver[offers[o].listing] \in Drivers
      BY <2>1, PriceType, FreightAssumption DEF AcceptOffer
    <3>. QED
      BY <2>1, <3>1, PriceType, AssignedMove DEF AcceptOffer, NoRow
  <2>. QED
    BY <1>1, <1>5, <2>1 DEF OfferRequest, CreateOffer, RejectOffer, WithdrawOffer, CloseOffer
<1>6. ASSUME NEW p \in Payments, AdminRelease(p) PROVE LoadMoves(l)
  BY <1>1, <1>6 DEF AdminRelease
<1>7. ASSUME NEW k \in Loads, Backfill(k) PROVE LoadMoves(l)
  BY <1>1, <1>7 DEF Backfill
<1>. QED
  BY <1>2, <1>3, <1>4, <1>5, <1>6, <1>7 DEF Next

\* What each request does to the payments.
LEMMA PaymentStep ==
    ASSUME TypeOK, Next
    PROVE  PaymentMoves
<1>1. CASE payments' = payments
  BY <1>1 DEF PaymentMoves
<1>2. ASSUME NEW k \in Loads, NEW d \in Drivers, NEW amount \in Amounts, Hold(k, d, amount),
             loads'[k].status \in EscrowStates
      PROVE  PaymentMoves
  BY <1>2, HoldStep DEF PaymentMoves
<1>3. ASSUME NEW k \in Loads, NEW d \in Drivers, Release(k, d) PROVE PaymentMoves
  BY <1>3, ReleaseStep DEF PaymentMoves
<1>4. ASSUME NEW k \in Loads, NEW d \in Drivers, NEW amount \in Amounts,
             loads[k].status = "Active", loads' = Assigned(k, d), Hold(k, d, amount)
      PROVE  PaymentMoves
  <2>1. loads[k] \in LoadRecord /\ loads[k].status # NoRow
    BY <1>4 DEF TypeOK, NoRow
  <2>2. loads'[k] = [loads[k] EXCEPT !.status = "Assigned", !.driver = d]
    BY <1>4 DEF Assigned, TypeOK
  <2>3. loads'[k].status = "Assigned"
    BY <2>1, <2>2 DEF LoadRecord
  <2>. QED
    BY <1>2, <1>4, <2>3 DEF EscrowStates
<1>5. ASSUME NEW k \in Loads, LoadRequest(k) PROVE PaymentMoves
  <2>1. CASE Deliver(k)
    BY <2>1, <1>3, PriceType DEF Deliver, NoRow
  <2>2. ASSUME NEW isAdmin \in BOOLEAN, CancelLoad(k, isAdmin) PROVE PaymentMoves
    <3>1. CASE /\ loads[k].status = "Assigned" /\ loads[k].driver # None
               /\ RefundEscrow(k, loads[k].driver, AcceptedBidAmount(k))
      <4>1. loads[k].driver \in Drivers
        BY <3>1, PriceType DEF NoRow
      <4>2. AcceptedBidAmount(k) \in Int
        BY AcceptedBidAmountType
      <4>3. loads[k] \in LoadRecord /\ loads[k].status # NoRow
        BY <3>1 DEF TypeOK, NoRow
      <4>4. loads'[k].status = "Cancelled"
        BY <2>2, <4>3 DEF CancelLoad, TypeOK, LoadRecord
      <4>5. CASE payments' # payments
        <5>1. PICK p \in Payments :
                /\ payments[p].status = "Blocked"
                /\ payments[p].load = k
                /\ payments' = [payments EXCEPT ![p].status = "Refunded"]
          BY <3>1, <4>1, <4>2, <4>5, RefundStep
        <5>. QED
          BY <4>4, <5>1 DEF PaymentMoves
      <4>. QED
        BY <1>1, <4>5
    <3>. QED
      BY <1>1, <2>2, <3>1 DEF CancelLoad
  <2>. QED
    BY <1>1, <1>5, <2>1, <2>2 DEF LoadRequest, CreateLoad, EditLoad, Pickup, Arrive
<1>6. ASSUME NEW b \in Bids, BidRequest(b) PROVE PaymentMoves
  <2>1. CASE AcceptBid(b)
    BY <2>1, <1>4, PriceType DEF AcceptBid, NoRow
  <2>. QED
    BY <1>1, <1>6, <2>1 DEF BidRequest, SubmitBid, CancelBid
<1>7. ASSUME NEW i \in Listings, ListingRequest(i) PROVE PaymentMoves
  BY <1>1, <1>7 DEF ListingRequest, CreateListing, CancelListing, AdminCancelListing
<1>8. ASSUME NEW o \in Offers, OfferRequest(o) PROVE PaymentMoves
  <2>1. CASE AcceptOffer(o)
    <3>1. ListingDriver[offers[o].listing] \in Drivers
      BY <2>1, PriceType, FreightAssumption DEF AcceptOffer
    <3>. QED
      BY <2>1, <3>1, <1>4, PriceType DEF AcceptOffer, NoRow
  <2>. QED
    BY <1>1, <1>8, <2>1 DEF OfferRequest, CreateOffer, RejectOffer, WithdrawOffer, CloseOffer
<1>9. ASSUME NEW p \in Payments, AdminRelease(p) PROVE PaymentMoves
  <2>1. payments[p].load \in Loads
    BY <1>9 DEF AdminRelease, TypeOK, PaymentRecord, NoRow
  <2>2. loads[payments[p].load].driver \in Drivers
    BY <1>9, <2>1 DEF AdminRelease, TypeOK, LoadRecord
  <2>. QED
    BY <1>3, <1>9, <2>1, <2>2 DEF AdminRelease
<1>10. ASSUME NEW k \in Loads, Backfill(k) PROVE PaymentMoves
  <2>1. loads[k].driver \in Drivers
    BY <1>10, PriceType DEF Backfill, EscrowStates, NoRow
  <2>2. BackfillAmount(k) \in Amounts
    BY <1>10, PriceType, AcceptedBidAmountType DEF Backfill, BackfillAmount, EscrowStates, NoRow
  <2>. QED
    BY <1>2, <1>10, <2>1, <2>2 DEF Backfill
<1>. QED
  BY <1>5, <1>6, <1>7, <1>8, <1>9, <1>10 DEF Next

-------------------------------------------------------------------------------
(* The escrow. *)

\* A payment keeps its load, and one that is Blocked or Released stays so unless its
\* load is cancelled by the step.
LEMMA PaymentsPersist ==
    ASSUME TypeOK, PaymentMoves, NEW q \in Payments, payments[q].status \in {"Blocked", "Released"}
    PROVE  /\ payments'[q].load = payments[q].load
           /\ \/ payments'[q].status \in {"Blocked", "Released"}
              \/ loads'[payments[q].load].status = "Cancelled"
<1>1. payments[q] \in PaymentRecord /\ payments[q].status # NoRow
  BY DEF TypeOK, NoRow
<1>2. CASE payments' = payments
  BY <1>2
<1>3. ASSUME NEW p \in Payments, payments[p].status = NoRow, p # q, NEW r,
             payments' = [payments EXCEPT ![p] = r]
      PROVE  payments'[q] = payments[q]
  BY <1>3 DEF TypeOK
<1>4. ASSUME NEW p \in Payments, NEW st \in PaymentStatus,
             payments' = [payments EXCEPT ![p].status = st]
      PROVE  /\ payments'[q].load = payments[q].load
             /\ payments'[q].status = IF p = q THEN st ELSE payments[q].status
  BY <1>1, <1>4 DEF TypeOK, PaymentRecord
<1>. QED
  BY <1>1, <1>2, <1>3, <1>4 DEF PaymentMoves, PaymentStatus

\* HoldPaymentAsync inserts a Blocked payment only where there is none, and nothing
\* else makes one.
LEMMA OneEscrowStep ==
    ASSUME TypeOK, OneEscrow, PaymentMoves
    PROVE  OneEscrow'
<1>1. CASE payments' = payments
  BY <1>1 DEF OneEscrow
<1>2. ASSUME NEW p \in Payments, NEW l \in Loads, NEW total \in Nat,
             payments[p].status = NoRow, BlockedOn(l) = {},
             payments' = [payments EXCEPT ![p] =
                [status |-> "Blocked", load |-> l, amount |-> total]]
      PROVE  OneEscrow'
  <2>1. \A q \in Payments : q # p => payments'[q] = payments[q]
    BY <1>2 DEF TypeOK
  <2>2. payments'[p].load = l
    BY <1>2 DEF TypeOK
  <2>3. \A q \in Payments : ~(payments[q].status = "Blocked" /\ payments[q].load = l)
    BY <1>2 DEF BlockedOn, PaymentsOf, NoRow
  <2>. QED
    BY <2>1, <2>2, <2>3 DEF OneEscrow
<1>3. ASSUME NEW p \in Payments, NEW st \in {"Released", "Refunded"},
             payments[p].status = "Blocked", payments' = [payments EXCEPT ![p].status = st]
      PROVE  OneEscrow'
  <2>1. \A q \in Payments : q # p => payments'[q] = payments[q]
    BY <1>3 DEF TypeOK
  <2>2. payments'[p].status = st
    BY <1>3 DEF TypeOK, PaymentRecord, NoRow
  <2>. QED
    BY <2>1, <2>2 DEF OneEscrow
<1>. QED
  BY <1>1, <1>2, <1>3 DEF PaymentMoves

\* A load in transit stays covered by a payment: the step lemma of EscrowedInTransit.
LEMMA EscrowedInTransitStep ==
    ASSUME TypeOK, EscrowedInTransit, PaymentMoves, \A l \in Loads : LoadMoves(l)
    PROVE  EscrowedInTransit'
<1>. SUFFICES ASSUME NEW l \in Loads, loads'[l].status \in EscrowStates
              PROVE  \E p \in Payments : /\ payments'[p].status \in {"Blocked", "Released"}
                                        /\ payments'[p].load = l
  BY DEF EscrowedInTransit, PaymentsOf, NoRow
<1>1. CASE \E d \in Drivers : GivenTo(l, d)
  BY <1>1 DEF GivenTo
<1>2. CASE loads[l].status \in EscrowStates
  <2>1. PICK q \in Payments : /\ payments[q].status \in {"Blocked", "Released"}
                              /\ payments[q].load = l
    BY <1>2 DEF EscrowedInTransit, PaymentsOf
  <2>2. payments'[q].load = l /\ payments'[q].status \in {"Blocked", "Released"}
    BY <2>1, PaymentsPersist DEF EscrowStates
  <2>. QED
    BY <2>2
<1>. QED
  BY <1>1, <1>2 DEF LoadMoves, Created, Moved, EscrowStates

\* The outbox keeps following the trip: the step lemma of TripFollowed.
LEMMA TripFollowedStep ==
    ASSUME TypeOK, TripFollowed, \A l \in Loads : LoadMoves(l)
    PROVE  TripFollowed'
<1>. SUFFICES ASSUME NEW l \in Loads
              PROVE  /\ loads'[l].status \in {NoRow, "Active", "Assigned"} => outbox'[l] = <<>>
                     /\ loads'[l].status \in {"OnWay", "Arrived"} => outbox'[l] = <<"PickUp">>
  BY DEF TripFollowed
<1>1. Append(<<>>, "PickUp") = <<"PickUp">>
  OBVIOUS
<1>. QED
  BY <1>1 DEF LoadMoves, Created, Moved, GivenTo, Settled, TripFollowed, NoRow

\* The two events of a finished trip.
LEMMA BothEvents == Append(<<"PickUp">>, "Delivery") = <<"PickUp", "Delivery">>
<1>. DEFINE E == {"PickUp", "Delivery"}
            t == Append(<<"PickUp">>, "Delivery")
            u == <<"PickUp", "Delivery">>
<1>1. <<"PickUp">> \in Seq(E) /\ Len(<<"PickUp">>) = 1 /\ <<"PickUp">>[1] = "PickUp"
  OBVIOUS
<1>2. t \in Seq(E) /\ Len(t) = 2 /\ t[1] = "PickUp" /\ t[2] = "Delivery"
  BY <1>1, AppendProperties
<1>3. u \in Seq(E) /\ Len(u) = 2 /\ u[1] = "PickUp" /\ u[2] = "Delivery"
  OBVIOUS
<1>4. \A i \in 1..Len(t) : t[i] = u[i]
  BY <1>2, <1>3
<1>. QED
  BY <1>2, <1>3, <1>4, SeqEqual

\* A delivered load stays settled: the step lemma of DeliveredIsSettled.
LEMMA DeliveredIsSettledStep ==
    ASSUME TypeOK, OneEscrow, TripFollowed, DeliveredIsSettled, PaymentMoves,
           \A l \in Loads : LoadMoves(l)
    PROVE  DeliveredIsSettled'
<1>. SUFFICES ASSUME NEW l \in Loads, loads'[l].status = "Delivered"
              PROVE  /\ \A p \in Payments : ~(payments'[p].status = "Blocked" /\ payments'[p].load = l)
                     /\ \E p \in Payments : payments'[p].status = "Released" /\ payments'[p].load = l
                     /\ outbox'[l] = <<"PickUp", "Delivery">>
  BY DEF DeliveredIsSettled, BlockedOn, PaymentsOf, NoRow
<1>1. CASE \E from \in {"OnWay", "Arrived"} : Moved(l, from, "Delivered") /\ Settled(l)
  <2>1. outbox[l] = <<"PickUp">>
    BY <1>1 DEF Moved, TripFollowed
  <2>2. outbox'[l] = <<"PickUp", "Delivery">>
    BY <1>1, <2>1, BothEvents DEF Settled
  <2>3. PICK p \in BlockedOn(l) : payments' = [payments EXCEPT ![p].status = "Released"]
    BY <1>1 DEF Settled
  <2>4. /\ p \in Payments /\ payments[p] \in PaymentRecord
        /\ payments[p].status = "Blocked" /\ payments[p].load = l
    BY <2>3 DEF BlockedOn, PaymentsOf, TypeOK
  <2>5. payments'[p].status = "Released" /\ payments'[p].load = l
    BY <2>3, <2>4 DEF TypeOK, PaymentRecord, NoRow
  <2>6. \A q \in Payments : q # p => payments'[q] = payments[q]
    BY <2>3 DEF TypeOK
  <2>. QED
    BY <2>2, <2>4, <2>5, <2>6 DEF OneEscrow
<1>2. CASE loads'[l] = loads[l] /\ outbox'[l] = outbox[l]
  <2>1. PICK q \in Payments : payments[q].status = "Released" /\ payments[q].load = l
    BY <1>2 DEF DeliveredIsSettled, PaymentsOf
  <2>2. \A p \in Payments : ~(payments[p].status = "Blocked" /\ payments[p].load = l)
    BY <1>2 DEF DeliveredIsSettled, BlockedOn, PaymentsOf, NoRow
  <2>3. CASE payments' = payments
    BY <1>2, <2>1, <2>2, <2>3 DEF DeliveredIsSettled
  <2>4. ASSUME NEW p \in Payments, NEW k \in Loads, NEW total \in Nat,
               payments[p].status = NoRow, loads'[k].status \in EscrowStates,
               payments' = [payments EXCEPT ![p] =
                  [status |-> "Blocked", load |-> k, amount |-> total]]
        PROVE  /\ \A r \in Payments : ~(payments'[r].status = "Blocked" /\ payments'[r].load = l)
               /\ \E r \in Payments : payments'[r].status = "Released" /\ payments'[r].load = l
    <3>1. \A r \in Payments : r # p => payments'[r] = payments[r]
      BY <2>4 DEF TypeOK
    <3>2. payments'[p].load = k /\ k # l
      BY <2>4 DEF TypeOK, EscrowStates
    <3>3. q # p
      BY <2>1, <2>4 DEF NoRow
    <3>. QED
      BY <2>1, <2>2, <3>1, <3>2, <3>3
  <2>5. ASSUME NEW p \in Payments, NEW st \in PaymentStatus \ {"Blocked"},
               payments[p].status = "Blocked", payments' = [payments EXCEPT ![p].status = st]
        PROVE  /\ \A r \in Payments : ~(payments'[r].status = "Blocked" /\ payments'[r].load = l)
               /\ \E r \in Payments : payments'[r].status = "Released" /\ payments'[r].load = l
    <3>1. \A r \in Payments : r # p => payments'[r] = payments[r]
      BY <2>5 DEF TypeOK
    <3>2. payments'[p].status # "Blocked"
      BY <2>5 DEF TypeOK, PaymentRecord, NoRow
    <3>. QED
      BY <2>1, <2>2, <2>5, <3>1, <3>2
  <2>. QED
    BY <1>2, <2>3, <2>4, <2>5 DEF PaymentMoves, PaymentStatus, DeliveredIsSettled
<1>. QED
  BY <1>1, <1>2 DEF LoadMoves, Created, Moved, GivenTo

-------------------------------------------------------------------------------
(* The agreement. *)

\* A step leaves a load's agreements alone without assigning it, or assigns it to
\* the driver of one new agreement, or cancels it.
AgreementMoves(l) ==
    \/ /\ AgreementsOn(l)' = AgreementsOn(l)
       /\ \A a \in AgreementsOn(l) : AgreedDriver(a)' = AgreedDriver(a)
       /\ loads'[l].status = "Assigned" => loads[l].status = "Assigned"
    \/ \E a \in Bids \cup Offers :
          /\ loads[l].status = "Active"
          /\ loads'[l].status = "Assigned"
          /\ AgreementsOn(l)' = AgreementsOn(l) \cup {a}
          /\ AgreedDriver(a)' = loads'[l].driver
    \/ loads'[l].status = "Cancelled"

\* Bids and offers that keep their Accepted rows keep a load's agreements.
SameBids == \A b \in Bids : \/ bids'[b] = bids[b]
                            \/ bids[b].status # "Accepted" /\ bids'[b].status # "Accepted"
SameOffers == \A o \in Offers : \/ offers'[o] = offers[o]
                                \/ offers[o].status # "Accepted" /\ offers'[o].status # "Accepted"
NotAssigned(l) == loads'[l].status = "Assigned" => loads[l].status = "Assigned"

\* A step that keeps bids and offers and assigns no load keeps the agreements.
LEMMA SameAgreements ==
    ASSUME TypeOK, NEW l \in Loads, SameBids, SameOffers, NotAssigned(l)
    PROVE  AgreementMoves(l)
<1>1. AgreementsOn(l)' = AgreementsOn(l)
  BY DEF AgreementsOn, BidsOn, SameBids, SameOffers
<1>2. \A a \in AgreementsOn(l) : AgreedDriver(a)' = AgreedDriver(a)
  BY FreightAssumption DEF AgreementsOn, BidsOn, AgreedDriver, SameBids, SameOffers
<1>. QED
  BY <1>1, <1>2 DEF AgreementMoves, NotAssigned

\* The rows an accepted bid and an accepted offer leave behind.
LEMMA AcceptBidRows ==
    ASSUME TypeOK, NEW b \in Bids, AcceptBid(b)
    PROVE  /\ bids'[b].status = "Accepted"
           /\ bids'[b].load = bids[b].load
           /\ bids'[b].driver = bids[b].driver
           /\ \A c \in Bids \ {b} :
                 \/ bids'[c] = bids[c]
                 \/ bids[c].status = "Pending" /\ bids'[c].status = "Rejected"
<1>1. \A c \in Bids : bids[c] \in BidRecord
  BY DEF TypeOK
<1>2. bids'[b] = [bids[b] EXCEPT !.status = "Accepted"]
  BY DEF AcceptBid
<1>3. \A c \in Bids \ {b} :
          bids'[c] = bids[c] \/ (bids[c].status = "Pending"
                                 /\ bids'[c] = [bids[c] EXCEPT !.status = "Rejected"])
  BY DEF AcceptBid, BidsOn
<1>4. bids[b].status = "Pending"
  BY DEF AcceptBid
<1>5. \A c \in Bids \ {b} : bids[c].status = "Pending"
          => [bids[c] EXCEPT !.status = "Rejected"].status = "Rejected"
  BY <1>1 DEF BidRecord, NoRow
<1>6. bids'[b].status = "Accepted" /\ bids'[b].load = bids[b].load
      /\ bids'[b].driver = bids[b].driver
  BY <1>1, <1>2, <1>4 DEF BidRecord, NoRow
<1>. QED
  BY <1>3, <1>5, <1>6

\* Rejecting a set of offers changes their statuses and nothing else.
LEMMA RejectedOffersRows ==
    ASSUME TypeOK, NEW i
    PROVE  \A c \in Offers :
             \/ RejectedOffers(OffersTo(i, "Pending"))[c] = offers[c]
             \/ /\ offers[c].status = "Pending"
                /\ RejectedOffers(OffersTo(i, "Pending"))[c].status = "Rejected"
<1>1. \A c \in Offers : offers[c] \in OfferRecord
  BY DEF TypeOK
<1>2. \A c \in Offers : offers[c].status = "Pending"
          => [offers[c] EXCEPT !.status = "Rejected"].status = "Rejected"
  BY <1>1 DEF OfferRecord, NoRow
<1>. QED
  BY <1>2 DEF RejectedOffers, OffersTo

\* Accepting an offer makes it Accepted and at most rejects other pending ones.
LEMMA AcceptOfferRows ==
    ASSUME TypeOK, NEW o \in Offers, AcceptOffer(o)
    PROVE  /\ offers'[o].status = "Accepted"
           /\ offers'[o].load = offers[o].load
           /\ offers'[o].listing = offers[o].listing
           /\ \A c \in Offers \ {o} :
                 \/ offers'[c] = offers[c]
                 \/ offers[c].status = "Pending" /\ offers'[c].status = "Rejected"
<1>. DEFINE i == offers[o].listing
            rejected == RejectedOffers(OffersTo(i, "Pending"))
<1>1. offers' = [rejected EXCEPT ![o].status = "Accepted"] /\ DOMAIN rejected = Offers
  BY DEF AcceptOffer, RejectedOffers
<1>2. offers[o] \in OfferRecord /\ offers[o].status = "Pending"
  BY DEF AcceptOffer, TypeOK
<1>3. rejected[o] \in OfferRecord /\ rejected[o].status # NoRow
      /\ rejected[o].load = offers[o].load /\ rejected[o].listing = offers[o].listing
  BY <1>2 DEF RejectedOffers, OfferRecord, OfferStatus, NoRow
<1>4. offers'[o].status = "Accepted" /\ offers'[o].load = offers[o].load
      /\ offers'[o].listing = offers[o].listing
  BY <1>1, <1>3 DEF OfferRecord
<1>5. \A c \in Offers \ {o} : offers'[c] = rejected[c]
  BY <1>1
<1>. QED
  BY <1>4, <1>5, RejectedOffersRows

\* The new agreement of an assigned load.
LEMMA NewAgreement ==
    ASSUME TypeOK, NEW k \in Loads, NEW d \in Drivers, NEW a \in Bids \cup Offers,
           loads[k].status = "Active", loads' = Assigned(k, d),
           \A l \in Loads : AgreementsOn(l)' = IF l = k THEN AgreementsOn(l) \cup {a}
                                                ELSE AgreementsOn(l),
           \A l \in Loads : \A c \in AgreementsOn(l) : AgreedDriver(c)' = AgreedDriver(c),
           AgreedDriver(a)' = d,
           NEW l \in Loads
    PROVE  AgreementMoves(l)
<1>1. loads[k] \in LoadRecord /\ loads[k].status # NoRow
  BY DEF TypeOK, NoRow
<1>2. loads'[k].status = "Assigned" /\ loads'[k].driver = d
  BY <1>1 DEF Assigned, TypeOK, LoadRecord
<1>3. l # k => loads'[l] = loads[l]
  BY DEF Assigned, TypeOK
<1>. QED
  BY <1>2, <1>3 DEF AgreementMoves

\* What each request does to the agreements of a load.
LEMMA AgreementStep ==
    ASSUME TypeOK, Next, NEW l \in Loads
    PROVE  AgreementMoves(l)
<1>1. CASE bids' = bids /\ offers' = offers /\ NotAssigned(l)
  <2>1. SameBids /\ SameOffers
    BY <1>1 DEF SameBids, SameOffers
  <2>. QED
    BY <1>1, <2>1, SameAgreements
<1>0. loads' = loads => NotAssigned(l)
  BY DEF NotAssigned
<1>2. ASSUME NEW k \in Loads, LoadRequest(k) PROVE AgreementMoves(l)
  <2>1. ASSUME NEW price \in Amounts \ {0}, CreateLoad(k, price) \/ EditLoad(k, price)
        PROVE  AgreementMoves(l)
    <3>1. loads[l] \in LoadRecord
      BY DEF TypeOK
    <3>2. NotAssigned(l)
      <4>1. CASE CreateLoad(k, price)
        BY <4>1 DEF CreateLoad, TypeOK, NotAssigned
      <4>2. CASE EditLoad(k, price)
        BY <3>1, <4>2 DEF EditLoad, TypeOK, LoadRecord, NotAssigned, NoRow
      <4>. QED
        BY <2>1, <4>1, <4>2
    <3>. QED
      BY <1>1, <2>1, <3>2 DEF CreateLoad, EditLoad
  <2>2. CASE Pickup(k) \/ Arrive(k) \/ Deliver(k)
    <3>1. loads[l] \in LoadRecord
      BY DEF TypeOK
    <3>2. NotAssigned(l)
      BY <2>2, <3>1 DEF Pickup, Arrive, Deliver, TypeOK, LoadRecord, NotAssigned, NoRow
    <3>. QED
      BY <1>1, <2>2, <3>2 DEF Pickup, Arrive, Deliver
  <2>3. ASSUME NEW isAdmin \in BOOLEAN, CancelLoad(k, isAdmin) PROVE AgreementMoves(l)
    <3>1. loads[l] \in LoadRecord
      BY DEF TypeOK
    <3>2. CASE l = k
      <4>1. loads'[l].status = "Cancelled"
        BY <2>3, <3>1, <3>2 DEF CancelLoad, TypeOK, LoadRecord, NoRow
      <4>. QED
        BY <4>1 DEF AgreementMoves
    <3>3. CASE l # k
      <4>1. \A b \in BidsOn(l, "Accepted") : bids'[b] = bids[b]
        BY <2>3, <3>3 DEF CancelLoad, ClosedBids, BidsOn
      <4>2. \A b \in Bids : \/ bids'[b] = bids[b]
                            \/ b \in BidsOn(k, "Accepted") \cup BidsOn(k, "Pending")
        BY <2>3 DEF CancelLoad, ClosedBids
      <4>3. \A b \in BidsOn(k, "Accepted") \cup BidsOn(k, "Pending") :
               bids'[b].status # "Accepted" /\ bids[b].load = k /\ bids'[b].load = k
        <5>1. \A b \in Bids : bids[b] \in BidRecord
          BY DEF TypeOK
        <5>. QED
          BY <2>3, <5>1 DEF CancelLoad, ClosedBids, BidsOn, BidRecord, NoRow
      <4>4. AgreementsOn(l)' = AgreementsOn(l)
        BY <2>3, <3>3, <4>2, <4>3 DEF AgreementsOn, BidsOn, CancelLoad
      <4>5. \A a \in AgreementsOn(l) : AgreedDriver(a)' = AgreedDriver(a)
        BY <2>3, <4>1, FreightAssumption DEF AgreementsOn, BidsOn, AgreedDriver, CancelLoad
      <4>6. loads'[l] = loads[l]
        BY <2>3, <3>3 DEF CancelLoad, TypeOK
      <4>. QED
        BY <4>4, <4>5, <4>6 DEF AgreementMoves
    <3>. QED
      BY <3>2, <3>3
  <2>. QED
    BY <1>2, <2>1, <2>2, <2>3 DEF LoadRequest
<1>3. ASSUME NEW b \in Bids, BidRequest(b) PROVE AgreementMoves(l)
  <2>1. CASE AcceptBid(b)
    <3>. DEFINE k == bids[b].load
    <3>1. k \in Loads /\ bids[b].driver \in Drivers
      BY <2>1, PriceType DEF AcceptBid, NoRow
    <3>2. offers' = offers /\ bids[b].status = "Pending"
      BY <2>1 DEF AcceptBid
    <3>3. \A m \in Loads : AgreementsOn(m)' = IF m = k THEN AgreementsOn(m) \cup {b}
                                              ELSE AgreementsOn(m)
      BY <2>1, <3>2, AcceptBidRows DEF AgreementsOn, BidsOn
    <3>4. \A m \in Loads : \A c \in AgreementsOn(m) : AgreedDriver(c)' = AgreedDriver(c)
      BY <2>1, <3>2, AcceptBidRows, FreightAssumption DEF AgreementsOn, BidsOn, AgreedDriver
    <3>5. AgreedDriver(b)' = bids[b].driver
      BY <2>1, AcceptBidRows DEF AgreedDriver
    <3>6. loads[k].status = "Active" /\ loads' = Assigned(k, bids[b].driver)
      BY <2>1 DEF AcceptBid
    <3>. QED
      BY <3>1, <3>3, <3>4, <3>5, <3>6, NewAgreement
  <2>2. CASE CancelBid(b)
    <3>1. bids[b] \in BidRecord
      BY DEF TypeOK
    <3>2. bids'[b].status # "Accepted"
      BY <2>2, <3>1 DEF CancelBid, TypeOK, BidRecord, NoRow
    <3>3. SameBids /\ SameOffers
      BY <2>2, <3>2 DEF CancelBid, TypeOK, SameBids, SameOffers
    <3>. QED
      BY <1>0, <2>2, <3>3, SameAgreements DEF CancelBid
  <2>3. ASSUME NEW k \in Loads, NEW d \in Drivers, NEW amount \in Amounts,
               SubmitBid(b, k, d, amount)
        PROVE  AgreementMoves(l)
    <3>1. bids'[b].status # "Accepted" /\ bids[b].status # "Accepted"
      BY <2>3 DEF SubmitBid, TypeOK, NoRow
    <3>3. SameBids /\ SameOffers
      BY <2>3, <3>1 DEF SubmitBid, TypeOK, SameBids, SameOffers
    <3>. QED
      BY <1>0, <2>3, <3>3, SameAgreements DEF SubmitBid
  <2>. QED
    BY <1>3, <2>1, <2>2, <2>3 DEF BidRequest
<1>4. ASSUME NEW i \in Listings, ListingRequest(i) PROVE AgreementMoves(l)
  <2>1. CASE AdminCancelListing(i)
    <3>1. SameBids /\ SameOffers
      BY <2>1, RejectedOffersRows DEF AdminCancelListing, SameBids, SameOffers
    <3>. QED
      BY <1>0, <2>1, <3>1, SameAgreements DEF AdminCancelListing
  <2>. QED
    BY <1>0, <1>1, <1>4, <2>1 DEF ListingRequest, CreateListing, CancelListing
<1>5. ASSUME NEW o \in Offers, OfferRequest(o) PROVE AgreementMoves(l)
  <2>1. CASE AcceptOffer(o)
    <3>. DEFINE k == offers[o].load
                d == ListingDriver[offers[o].listing]
    <3>1. k \in Loads /\ d \in Drivers
      BY <2>1, PriceType, FreightAssumption DEF AcceptOffer
    <3>2. bids' = bids /\ offers[o].status = "Pending"
      BY <2>1 DEF AcceptOffer
    <3>3. \A m \in Loads : AgreementsOn(m)' = IF m = k THEN AgreementsOn(m) \cup {o}
                                              ELSE AgreementsOn(m)
      BY <2>1, <3>2, AcceptOfferRows DEF AgreementsOn, BidsOn
    <3>4. \A m \in Loads : \A c \in AgreementsOn(m) : AgreedDriver(c)' = AgreedDriver(c)
      BY <2>1, <3>2, AcceptOfferRows, FreightAssumption DEF AgreementsOn, BidsOn, AgreedDriver
    <3>5. AgreedDriver(o)' = d
      BY <2>1, AcceptOfferRows, FreightAssumption DEF AgreedDriver
    <3>6. loads[k].status = "Active" /\ loads' = Assigned(k, d)
      BY <2>1 DEF AcceptOffer
    <3>. QED
      BY <3>1, <3>3, <3>4, <3>5, <3>6, NewAgreement
  <2>2. ASSUME NEW st \in {"Rejected", "Withdrawn"}, CloseOffer(o, st) PROVE AgreementMoves(l)
    <3>1. offers[o] \in OfferRecord
      BY DEF TypeOK
    <3>2. offers'[o].status # "Accepted"
      BY <2>2, <3>1 DEF CloseOffer, TypeOK, OfferRecord, NoRow
    <3>3. SameBids /\ SameOffers
      BY <2>2, <3>2 DEF CloseOffer, TypeOK, SameBids, SameOffers
    <3>. QED
      BY <1>0, <2>2, <3>3, SameAgreements DEF CloseOffer
  <2>3. ASSUME NEW i \in Listings, NEW k \in Loads, NEW amount \in Amounts \cup {None},
               CreateOffer(o, i, k, amount)
        PROVE  AgreementMoves(l)
    <3>1. offers'[o].status # "Accepted" /\ offers[o].status # "Accepted"
      BY <2>3 DEF CreateOffer, TypeOK, NoRow
    <3>3. SameBids /\ SameOffers
      BY <2>3, <3>1 DEF CreateOffer, TypeOK, SameBids, SameOffers
    <3>. QED
      BY <1>0, <2>3, <3>3, SameAgreements DEF CreateOffer
  <2>. QED
    BY <1>5, <2>1, <2>2, <2>3 DEF OfferRequest, RejectOffer, WithdrawOffer
<1>6. ASSUME NEW p \in Payments, AdminRelease(p) PROVE AgreementMoves(l)
  BY <1>0, <1>1, <1>6 DEF AdminRelease
<1>7. ASSUME NEW k \in Loads, Backfill(k) PROVE AgreementMoves(l)
  BY <1>0, <1>1, <1>7 DEF Backfill
<1>. QED
  BY <1>2, <1>3, <1>4, <1>5, <1>6, <1>7 DEF Next

\* A load keeps one agreement: the step lemma of OneAgreement.
LEMMA OneAgreementStep ==
    ASSUME TypeOK, TypeOK', OneAgreement,
           \A l \in Loads : LoadMoves(l) /\ AgreementMoves(l)
    PROVE  OneAgreement'
<1>. SUFFICES ASSUME NEW l \in Loads
              PROVE  /\ loads'[l].status \in {NoRow, "Active"} =>
                           AgreementsOn(l)' = {} /\ loads'[l].driver = None
                     /\ loads'[l].status \in EscrowStates \cup {"Delivered"} =>
                           \E a \in AgreementsOn(l)' :
                              AgreementsOn(l)' = {a} /\ AgreedDriver(a)' = loads'[l].driver
  BY DEF OneAgreement
<1>1. LoadMoves(l) /\ AgreementMoves(l)
  OBVIOUS
<1>2. CASE loads'[l].status = "Cancelled"
  BY <1>2 DEF NoRow, EscrowStates
<1>3. CASE \E a \in Bids \cup Offers :
             /\ loads[l].status = "Active"
             /\ loads'[l].status = "Assigned"
             /\ AgreementsOn(l)' = AgreementsOn(l) \cup {a}
             /\ AgreedDriver(a)' = loads'[l].driver
  BY <1>3 DEF OneAgreement, NoRow
<1>4. CASE /\ AgreementsOn(l)' = AgreementsOn(l)
           /\ \A a \in AgreementsOn(l) : AgreedDriver(a)' = AgreedDriver(a)
           /\ loads'[l].status = "Assigned" => loads[l].status = "Assigned"
           /\ loads'[l].status # "Cancelled"
  <2>1. loads[l] \in LoadRecord
    BY DEF TypeOK
  <2>2. loads'[l].status \in {NoRow, "Active"} =>
           loads[l].status \in {NoRow, "Active"} /\ loads'[l].driver = None
    BY <1>1, <1>4 DEF LoadMoves, Created, Moved, GivenTo, OneAgreement, NoRow
  <2>3. loads'[l].status \in EscrowStates \cup {"Delivered"} =>
           /\ loads[l].status \in EscrowStates \cup {"Delivered"}
           /\ loads'[l].driver = loads[l].driver
    BY <1>1, <1>4 DEF LoadMoves, Created, Moved, GivenTo, EscrowStates, NoRow
  <2>4. CASE loads'[l].status \in {NoRow, "Active"}
    BY <1>4, <2>2, <2>4 DEF OneAgreement, EscrowStates, NoRow
  <2>5. CASE loads'[l].status \in EscrowStates \cup {"Delivered"}
    <3>1. PICK a \in AgreementsOn(l) :
             AgreementsOn(l) = {a} /\ AgreedDriver(a) = loads[l].driver
      BY <2>3, <2>5 DEF OneAgreement
    <3>. QED
      BY <1>4, <2>3, <2>5, <3>1 DEF EscrowStates, NoRow
  <2>. QED
    BY <2>4, <2>5
<1>. QED
  BY <1>1, <1>2, <1>3, <1>4 DEF AgreementMoves

-------------------------------------------------------------------------------
(* Refunds. *)

\* The refunds among some rows of the log.
Refunds(rows) == {i \in DOMAIN rows : rows[i].type = "CustomerRefund"}

\* The refunds of two pieces of a log are those of the pieces, the second's moved up.
LEMMA RefundsOfConcat ==
    ASSUME NEW s \in Seq(LogRecord), NEW t \in Seq(LogRecord)
    PROVE  /\ Refunds(s \o t) = Refunds(s) \cup {Len(s) + j : j \in Refunds(t)}
           /\ \A i \in Refunds(s) : (s \o t)[i] = s[i]
           /\ \A j \in Refunds(t) : (s \o t)[Len(s) + j] = t[j]
<1>1. /\ s \o t \in Seq(LogRecord) /\ Len(s \o t) = Len(s) + Len(t)
      /\ \A i \in 1 .. Len(s) + Len(t) : (s \o t)[i] = IF i <= Len(s) THEN s[i] ELSE t[i - Len(s)]
  BY ConcatProperties
<1>2. /\ DOMAIN s = 1 .. Len(s) /\ DOMAIN t = 1 .. Len(t) /\ DOMAIN (s \o t) = 1 .. Len(s) + Len(t)
      /\ Len(s) \in Nat /\ Len(t) \in Nat
  BY <1>1
<1>3. \A i \in DOMAIN s : i \in DOMAIN (s \o t) /\ (s \o t)[i] = s[i]
  BY <1>1, <1>2
<1>4. \A j \in DOMAIN t : Len(s) + j \in DOMAIN (s \o t) /\ (s \o t)[Len(s) + j] = t[j]
  BY <1>1, <1>2
<1>5. \A i \in DOMAIN (s \o t) : i \in DOMAIN s \/ \E j \in DOMAIN t : i = Len(s) + j
  <2>. SUFFICES ASSUME NEW i \in DOMAIN (s \o t), i \notin DOMAIN s
                PROVE  \E j \in DOMAIN t : i = Len(s) + j
    OBVIOUS
  <2>1. i - Len(s) \in DOMAIN t /\ i = Len(s) + (i - Len(s))
    BY <1>2
  <2>. QED
    BY <2>1
<1>. QED
  BY <1>3, <1>4, <1>5 DEF Refunds

LEMMA RefundsOfOne ==
    ASSUME NEW row \in LogRecord
    PROVE  /\ <<row>> \in Seq(LogRecord) /\ <<row>>[1] = row
           /\ row.type = "CustomerRefund" => Refunds(<<row>>) = {1}
           /\ row.type # "CustomerRefund" => Refunds(<<row>>) = {}
<1>1. <<row>> \in Seq(LogRecord) /\ DOMAIN <<row>> = {1} /\ <<row>>[1] = row
  OBVIOUS
<1>. QED
  BY <1>1 DEF Refunds

LEMMA RefundsOfNone == <<>> \in Seq(LogRecord) /\ Refunds(<<>>) = {}
BY DEF Refunds

\* What one request appends to the log of a load: rows without a refund, or rows with one, of a
\* payment that turns from Blocked to Refunded while the load is cancelled.
Appends(l, rows) == rows \in Seq(LogRecord) /\ log'[l] = log[l] \o rows
Refunded(l, p, amount) ==
    /\ loads[l].status # "Cancelled" /\ loads'[l].status = "Cancelled"
    /\ payments[p].status = "Blocked" /\ payments[p].load = l
    /\ payments' = [payments EXCEPT ![p].status = "Refunded"]
    /\ amount = RefundAmount(payments[p].amount)

LogMoves(l) ==
    \/ log'[l] = log[l]
    \/ \E rows \in Seq(LogRecord) : Appends(l, rows) /\ Refunds(rows) = {}
    \/ \E rows \in Seq(LogRecord), k \in Nat, p \in Payments :
           Appends(l, rows) /\ Refunds(rows) = {k} /\ Refunded(l, p, rows[k].amount)

\* A hold and a release write no refund.
LEMMA HoldLog ==
    ASSUME TypeOK, NEW k \in Loads, NEW d \in Drivers, NEW amount \in Amounts, Hold(k, d, amount),
           NEW l \in Loads
    PROVE  LogMoves(l)
<1>. DEFINE a == Row("Hold", d, DriverNet(amount, Corporate[d]))
            b == Row("Fees", d, Fees(amount, Corporate[d]))
<1>1. DriverNet(amount, Corporate[d]) \in Int /\ Fees(amount, Corporate[d]) \in Int
  BY AmountsAreIntegers, SettlementType, FreightAssumption
<1>2. /\ a \in LogRecord /\ a.type # "CustomerRefund"
      /\ b \in LogRecord /\ b.type # "CustomerRefund"
  BY <1>1 DEF Row, LogRecord, RowType, Users
<1>3. <<a, b>> \in Seq(LogRecord) /\ Refunds(<<a, b>>) = {}
  BY <1>2 DEF Refunds
<1>4. log'[k] = log[k] \o <<a, b>> /\ (l # k => log'[l] = log[l])
  BY DEF Hold, TypeOK
<1>. QED
  BY <1>3, <1>4 DEF LogMoves, Appends

LEMMA ReleaseLog ==
    ASSUME TypeOK, NEW k \in Loads, NEW d \in Drivers, Release(k, d), NEW l \in Loads
    PROVE  LogMoves(l)
<1>. DEFINE a == Row("Release", d, LatestHold(k, d))
<1>1. LatestHold(k, d) \in Int
  BY LatestHoldType DEF Release
<1>2. a \in LogRecord /\ a.type # "CustomerRefund"
  BY <1>1 DEF Row, LogRecord, RowType, Users
<1>3. <<a>> \in Seq(LogRecord) /\ Refunds(<<a>>) = {}
  BY <1>2, RefundsOfOne
<1>4. log'[k] = Append(log[k], a) /\ (l # k => log'[l] = log[l])
  BY DEF Release, TypeOK
<1>5. Append(log[k], a) = log[k] \o <<a>>
  BY <1>2, AppendIsConcat DEF TypeOK
<1>. QED
  BY <1>3, <1>4, <1>5 DEF LogMoves, Appends

\* There is one refund among some rows, of a given amount.
OneRefund(rows, amount) == \E i \in Nat : Refunds(rows) = {i} /\ rows[i].amount = amount

\* The rows of a refund have one refund among them, of what RefundAmount says.
LEMMA OneRefundRow ==
    ASSUME TypeOK, NEW l \in Loads, NEW d \in Drivers, NEW p \in PaymentsOf(l), NEW bidAmount \in Int
    PROVE  /\ RefundRows(l, d, p, bidAmount) \in Seq(LogRecord)
           /\ OneRefund(RefundRows(l, d, p, bidAmount), RefundAmount(payments[p].amount))
<1>. DEFINE a == IF HoldRows(l, d) = {} THEN <<>> ELSE <<Row("HoldReversal", d, LatestHold(l, d))>>
            b == IF bidAmount = 0 THEN <<>>
                 ELSE <<Row("FeesReversal", d, Fees(bidAmount, Corporate[d]))>>
            row == Row("CustomerRefund", Owner[l], RefundAmount(payments[p].amount))
<1>1. a \in Seq(LogRecord) /\ Refunds(a) = {}
  <2>1. CASE HoldRows(l, d) = {}
    BY <2>1, RefundsOfNone
  <2>2. CASE HoldRows(l, d) # {}
    <3>1. /\ Row("HoldReversal", d, LatestHold(l, d)) \in LogRecord
          /\ Row("HoldReversal", d, LatestHold(l, d)).type # "CustomerRefund"
      BY <2>2, LatestHoldType DEF Row, LogRecord, RowType, Users
    <3>. QED
      BY <2>2, <3>1, RefundsOfOne
  <2>. QED
    BY <2>1, <2>2
<1>2. b \in Seq(LogRecord) /\ Refunds(b) = {}
  <2>1. CASE bidAmount = 0
    BY <2>1, RefundsOfNone
  <2>2. CASE bidAmount # 0
    <3>1. Fees(bidAmount, Corporate[d]) \in Int
      BY SettlementType, FreightAssumption
    <3>2. /\ Row("FeesReversal", d, Fees(bidAmount, Corporate[d])) \in LogRecord
          /\ Row("FeesReversal", d, Fees(bidAmount, Corporate[d])).type # "CustomerRefund"
      BY <3>1 DEF Row, LogRecord, RowType, Users
    <3>. QED
      BY <2>2, <3>2, RefundsOfOne
  <2>. QED
    BY <2>1, <2>2
<1>3. /\ row \in LogRecord /\ row.type = "CustomerRefund"
      /\ row.amount = RefundAmount(payments[p].amount)
  <2>1. payments[p] \in PaymentRecord /\ payments[p].status # NoRow
    BY DEF PaymentsOf, TypeOK
  <2>2. RefundAmount(payments[p].amount) \in Int
    BY <2>1, SettlementType DEF PaymentRecord
  <2>. QED
    BY <2>2, FreightAssumption DEF Row, LogRecord, RowType, Users
<1>4. <<row>> \in Seq(LogRecord) /\ <<row>>[1] = row /\ Refunds(<<row>>) = {1}
  BY <1>3, RefundsOfOne
<1>. HIDE DEF a, b, row
<1>5. a \o b \in Seq(LogRecord) /\ Refunds(a \o b) = {}
  <2>1. a \o b \in Seq(LogRecord)
    BY <1>1, <1>2, ConcatProperties
  <2>2. Refunds(a \o b) = Refunds(a) \cup {Len(a) + j : j \in Refunds(b)}
    BY <1>1, <1>2, RefundsOfConcat
  <2>. QED
    BY <1>1, <1>2, <2>1, <2>2
<1>. DEFINE k == Len(a \o b) + 1
<1>6. k \in Nat /\ (a \o b) \o <<row>> \in Seq(LogRecord)
  BY <1>4, <1>5, ConcatProperties
<1>7. Refunds((a \o b) \o <<row>>) = {k} /\ ((a \o b) \o <<row>>)[k] = row
  <2>. DEFINE s == a \o b
              t == <<row>>
  <2>1. s \in Seq(LogRecord) /\ Refunds(s) = {} /\ t \in Seq(LogRecord) /\ Refunds(t) = {1} /\ t[1] = row
    BY <1>4, <1>5
  <2>. HIDE DEF s, t
  <2>2. /\ Refunds(s \o t) = Refunds(s) \cup {Len(s) + j : j \in Refunds(t)}
        /\ \A j \in Refunds(t) : (s \o t)[Len(s) + j] = t[j]
    BY <2>1, RefundsOfConcat
  <2>3. Refunds(s \o t) = {Len(s) + 1} /\ (s \o t)[Len(s) + 1] = row
    BY <2>1, <2>2
  <2>. QED
    BY <2>3 DEF s, t
<1>8. RefundRows(l, d, p, bidAmount) = (a \o b) \o <<row>>
  BY DEF RefundRows, a, b, row
<1>. QED
  BY <1>3, <1>6, <1>7, <1>8 DEF OneRefund

LEMMA CancelLog ==
    ASSUME TypeOK, NEW k \in Loads, NEW isAdmin \in BOOLEAN, CancelLoad(k, isAdmin), NEW l \in Loads
    PROVE  LogMoves(l)
<1>1. CASE log' = log
  BY <1>1 DEF LogMoves
<1>2. CASE log' # log
  <2>. DEFINE d == loads[k].driver
              n == AcceptedBidAmount(k)
  <2>1. RefundEscrow(k, d, n) /\ loads[k].status = "Assigned" /\ d # None
    BY <1>2 DEF CancelLoad
  <2>2. d \in Drivers /\ n \in Int
    BY <2>1, PriceType, AcceptedBidAmountType DEF NoRow
  <2>3. PICK p \in PaymentsOf(k) :
          /\ payments[p].status = "Blocked"
          /\ payments' = [payments EXCEPT ![p].status = "Refunded"]
          /\ log' = [log EXCEPT ![k] = @ \o RefundRows(k, d, p, n)]
    BY <1>2, <2>1 DEF RefundEscrow
  <2>. HIDE DEF d, n
  <2>4. PICK rows \in Seq(LogRecord), i \in Nat :
          /\ rows = RefundRows(k, d, p, n)
          /\ Refunds(rows) = {i}
          /\ rows[i].amount = RefundAmount(payments[p].amount)
    <3>1. p \in PaymentsOf(k)
      BY <2>3
    <3>2. RefundRows(k, d, p, n) \in Seq(LogRecord)
      BY <2>2, <3>1, OneRefundRow
    <3>3. OneRefund(RefundRows(k, d, p, n), RefundAmount(payments[p].amount))
      BY <2>2, <3>1, OneRefundRow
    <3>. QED
      BY <3>2, <3>3 DEF OneRefund
  <2>5. Appends(k, rows) /\ (l # k => log'[l] = log[l])
    BY <2>3, <2>4 DEF Appends, TypeOK
  <2>6. loads'[k].status = "Cancelled"
    <3>1. loads[k] \in LoadRecord
      BY DEF TypeOK
    <3>. QED
      BY <2>1, <3>1 DEF CancelLoad, TypeOK, LoadRecord
  <2>7. p \in Payments /\ Refunded(k, p, rows[i].amount)
    BY <2>1, <2>3, <2>4, <2>6 DEF Refunded, PaymentsOf, d, n
  <2>. QED
    BY <2>4, <2>5, <2>7 DEF LogMoves
<1>. QED
  BY <1>1, <1>2

\* What each request appends to the log of a load.
LEMMA LogStep ==
    ASSUME TypeOK, Next, NEW l \in Loads
    PROVE  LogMoves(l)
<1>1. CASE log' = log
  BY <1>1 DEF LogMoves
<1>2. ASSUME NEW k \in Loads, LoadRequest(k) PROVE LogMoves(l)
  <2>1. CASE Deliver(k)
    BY <2>1, ReleaseLog, PriceType DEF Deliver, NoRow
  <2>. QED
    BY <1>1, <1>2, <2>1, CancelLog DEF LoadRequest, CreateLoad, EditLoad, Pickup, Arrive
<1>3. ASSUME NEW b \in Bids, BidRequest(b) PROVE LogMoves(l)
  <2>1. CASE AcceptBid(b)
    BY <2>1, HoldLog, PriceType DEF AcceptBid, NoRow
  <2>. QED
    BY <1>1, <1>3, <2>1 DEF BidRequest, SubmitBid, CancelBid
<1>4. ASSUME NEW i \in Listings, ListingRequest(i) PROVE LogMoves(l)
  BY <1>1, <1>4 DEF ListingRequest, CreateListing, CancelListing, AdminCancelListing
<1>5. ASSUME NEW o \in Offers, OfferRequest(o) PROVE LogMoves(l)
  <2>1. CASE AcceptOffer(o)
    <3>1. ListingDriver[offers[o].listing] \in Drivers
      BY <2>1, PriceType, FreightAssumption DEF AcceptOffer
    <3>. QED
      BY <2>1, <3>1, HoldLog, PriceType DEF AcceptOffer, NoRow
  <2>. QED
    BY <1>1, <1>5, <2>1 DEF OfferRequest, CreateOffer, RejectOffer, WithdrawOffer, CloseOffer
<1>6. ASSUME NEW p \in Payments, AdminRelease(p) PROVE LogMoves(l)
  <2>1. payments[p].load \in Loads
    BY <1>6 DEF AdminRelease, TypeOK, PaymentRecord, NoRow
  <2>2. loads[payments[p].load].driver \in Drivers
    BY <1>6, <2>1 DEF AdminRelease, TypeOK, LoadRecord
  <2>. QED
    BY <1>6, <2>1, <2>2, ReleaseLog DEF AdminRelease
<1>7. ASSUME NEW k \in Loads, Backfill(k) PROVE LogMoves(l)
  <2>1. loads[k].driver \in Drivers
    BY <1>7, PriceType DEF Backfill, EscrowStates, NoRow
  <2>2. BackfillAmount(k) \in Amounts
    BY <1>7, PriceType, AcceptedBidAmountType DEF Backfill, BackfillAmount, EscrowStates, NoRow
  <2>. QED
    BY <1>7, <2>1, <2>2, HoldLog DEF Backfill
<1>. QED
  BY <1>2, <1>3, <1>4, <1>5, <1>6, <1>7 DEF Next

-------------------------------------------------------------------------------
(* A customer is refunded once. *)

\* The amount of every payment is a natural number of kurus.
PaidAmounts == \A p \in Payments : payments[p].status # NoRow => payments[p].amount \in Nat

\* What a payment's row can become: it keeps its load and its amount, and a refunded one
\* stays refunded.
PaymentKept(p) ==
    payments[p].status # NoRow =>
        /\ payments'[p].status # NoRow
        /\ payments'[p].load = payments[p].load
        /\ payments'[p].amount = payments[p].amount
        /\ payments[p].status = "Refunded" => payments'[p].status = "Refunded"

LEMMA PaymentsKept ==
    ASSUME TypeOK, PaymentMoves, NEW p \in Payments
    PROVE  PaymentKept(p)
<1>1. payments[p] \in PaymentRecord
  BY DEF TypeOK
<1>2. CASE payments' = payments
  BY <1>2 DEF PaymentKept
<1>3. ASSUME NEW q \in Payments, payments[q].status = NoRow, NEW r,
             payments' = [payments EXCEPT ![q] = r]
      PROVE  PaymentKept(p)
  BY <1>3 DEF TypeOK, PaymentKept
<1>4. ASSUME NEW q \in Payments, payments[q].status = "Blocked", NEW st \in PaymentStatus,
             payments' = [payments EXCEPT ![q].status = st]
      PROVE  PaymentKept(p)
  BY <1>1, <1>4 DEF TypeOK, PaymentRecord, PaymentKept, PaymentStatus, NoRow
<1>. QED
  BY <1>2, <1>3, <1>4 DEF PaymentMoves, PaymentStatus

\* A cancelled load stays cancelled.
LEMMA CancelledStays ==
    ASSUME NEW l \in Loads, LoadMoves(l), loads[l].status = "Cancelled"
    PROVE  loads'[l].status = "Cancelled"
BY DEF LoadMoves, Created, Moved, GivenTo, NoRow

LEMMA RefundedOnceStep ==
    ASSUME TypeOK, TypeOK', RefundedOnce, PaidAmounts, PaymentMoves,
           NEW l \in Loads, LoadMoves(l), LogMoves(l),
           NEW i \in RowsOf(l, "CustomerRefund")'
    PROVE  /\ RowsOf(l, "CustomerRefund")' = {i}
           /\ loads'[l].status = "Cancelled"
           /\ \E p \in PaymentsOf(l)' : /\ payments'[p].status = "Refunded"
                                         /\ log'[l][i].amount =< payments'[p].amount
<1>1. /\ RowsOf(l, "CustomerRefund") = Refunds(log[l])
      /\ RowsOf(l, "CustomerRefund")' = Refunds(log'[l])
  BY DEF RowsOf, Refunds
<1>2. log[l] \in Seq(LogRecord) /\ log'[l] \in Seq(LogRecord)
  BY DEF TypeOK
<1>3. ASSUME i \in Refunds(log[l]), Refunds(log'[l]) = Refunds(log[l]), log'[l][i] = log[l][i]
      PROVE  /\ Refunds(log'[l]) = {i}
             /\ loads'[l].status = "Cancelled"
             /\ \E p \in PaymentsOf(l)' : /\ payments'[p].status = "Refunded"
                                           /\ log'[l][i].amount =< payments'[p].amount
  <2>1. /\ Refunds(log[l]) = {i}
        /\ loads[l].status = "Cancelled"
        /\ \E p \in PaymentsOf(l) : /\ payments[p].status = "Refunded"
                                     /\ log[l][i].amount =< payments[p].amount
    BY <1>1, <1>3 DEF RefundedOnce
  <2>2. PICK p \in PaymentsOf(l) : /\ payments[p].status = "Refunded"
                                   /\ log[l][i].amount =< payments[p].amount
    BY <2>1
  <2>3. PaymentKept(p) /\ p \in PaymentsOf(l)'
    BY <2>2, PaymentsKept DEF PaymentKept, PaymentsOf
  <2>. QED
    BY <1>3, <2>1, <2>2, <2>3, CancelledStays DEF PaymentKept, PaymentsOf
<1>4. CASE log'[l] = log[l]
  BY <1>1, <1>3, <1>4
<1>5. ASSUME NEW rows \in Seq(LogRecord), Appends(l, rows), Refunds(rows) = {}
      PROVE  i \in Refunds(log[l]) /\ Refunds(log'[l]) = Refunds(log[l]) /\ log'[l][i] = log[l][i]
  <2>1. /\ Refunds(log[l] \o rows) = Refunds(log[l]) \cup {Len(log[l]) + j : j \in Refunds(rows)}
        /\ \A j \in Refunds(log[l]) : (log[l] \o rows)[j] = log[l][j]
    BY <1>2, RefundsOfConcat
  <2>2. Refunds(log[l] \o rows) = Refunds(log[l])
    BY <1>5, <2>1
  <2>. QED
    BY <1>1, <1>5, <2>1, <2>2 DEF Appends
<1>6. ASSUME NEW rows \in Seq(LogRecord), NEW k \in Nat, NEW p \in Payments,
             Appends(l, rows), Refunds(rows) = {k}, Refunded(l, p, rows[k].amount)
      PROVE  /\ Refunds(log'[l]) = {i}
             /\ loads'[l].status = "Cancelled"
             /\ \E q \in PaymentsOf(l)' : /\ payments'[q].status = "Refunded"
                                           /\ log'[l][i].amount =< payments'[q].amount
  <2>1. Refunds(log[l]) = {}
    BY <1>1, <1>6 DEF RefundedOnce, Refunded
  <2>2. Refunds(log'[l]) = {Len(log[l]) + k} /\ log'[l][Len(log[l]) + k] = rows[k]
    <3>1. /\ Refunds(log[l] \o rows) = Refunds(log[l]) \cup {Len(log[l]) + j : j \in Refunds(rows)}
          /\ \A j \in Refunds(rows) : (log[l] \o rows)[Len(log[l]) + j] = rows[j]
      BY <1>2, RefundsOfConcat
    <3>2. Refunds(log[l] \o rows) = {Len(log[l]) + k}
      BY <1>6, <2>1, <3>1
    <3>3. (log[l] \o rows)[Len(log[l]) + k] = rows[k]
      BY <1>6, <3>1
    <3>. QED
      BY <1>6, <3>2, <3>3 DEF Appends
  <2>3. i = Len(log[l]) + k /\ log'[l][i] = rows[k]
    BY <1>1, <2>2
  <2>4. payments[p] \in PaymentRecord /\ payments[p].status # NoRow /\ payments[p].amount \in Nat
    BY <1>6 DEF Refunded, TypeOK, PaidAmounts, NoRow
  <2>5. payments'[p] = [payments[p] EXCEPT !.status = "Refunded"]
    BY <1>6 DEF Refunded, TypeOK
  <2>6. /\ payments'[p].status = "Refunded" /\ payments'[p].load = payments[p].load
        /\ payments'[p].amount = payments[p].amount
    BY <2>4, <2>5 DEF PaymentRecord
  <2>7. rows[k].amount =< payments[p].amount
    <3>1. RefundAmount(payments[p].amount) \in 0 .. payments[p].amount
      BY <2>4, RefundIsBounded
    <3>. QED
      BY <1>6, <2>4, <3>1 DEF Refunded
  <2>8. p \in PaymentsOf(l)'
    BY <1>6, <2>6 DEF PaymentsOf, Refunded, NoRow
  <2>. QED
    BY <1>6, <2>2, <2>3, <2>6, <2>7, <2>8 DEF Refunded
<1>. QED
  BY <1>1, <1>3, <1>4, <1>5, <1>6 DEF LogMoves

\* A payment starts with what the customer is charged and keeps that amount.
LEMMA PaidAmountsStep ==
    ASSUME TypeOK, PaidAmounts, PaymentMoves
    PROVE  PaidAmounts'
<1>. SUFFICES ASSUME NEW p \in Payments, payments'[p].status # NoRow
              PROVE  payments'[p].amount \in Nat
  BY DEF PaidAmounts
<1>1. CASE payments[p].status # NoRow
  BY <1>1, PaymentsKept DEF PaymentKept, PaidAmounts
<1>2. CASE payments[p].status = NoRow
  <2>1. PICK q \in Payments, l \in Loads, total \in Nat :
          payments' = [payments EXCEPT ![q] = [status |-> "Blocked", load |-> l, amount |-> total]]
    <3>1. ASSUME NEW q \in Payments, payments[q].status = "Blocked", NEW st \in PaymentStatus,
                 payments' = [payments EXCEPT ![q].status = st]
          PROVE  payments'[p] = payments[p]
      BY <1>2, <3>1 DEF TypeOK, NoRow
    <3>. QED
      BY <1>2, <3>1 DEF PaymentMoves, PaymentStatus
  <2>2. p = q
    BY <1>2, <2>1 DEF TypeOK
  <2>3. payments'[p] = [status |-> "Blocked", load |-> l, amount |-> total]
    BY <2>1, <2>2 DEF TypeOK
  <2>. QED
    BY <2>3
<1>. QED
  BY <1>1, <1>2

-------------------------------------------------------------------------------
(* The theorems. *)

\* The empty database satisfies the inductive invariant.
LEMMA InitInv == Init => FreightInv
<1>. SUFFICES ASSUME Init PROVE FreightInv
  OBVIOUS
<1>1. TypeOK
  BY InitType
<1>2. OneEscrow /\ EscrowedInTransit /\ DeliveredIsSettled /\ TripFollowed
  BY DEF Init, OneEscrow, EscrowedInTransit, DeliveredIsSettled, TripFollowed, EscrowStates, NoRow
<1>3. OneAgreement
  BY DEF Init, OneAgreement, AgreementsOn, BidsOn, EscrowStates, NoRow
<1>. QED
  BY <1>1, <1>2, <1>3 DEF FreightInv

\* The inductive invariant is inductive.
LEMMA NextInv == FreightInv /\ [Next]_vars => FreightInv'
<1>. SUFFICES ASSUME FreightInv, [Next]_vars PROVE FreightInv'
  OBVIOUS
<1>1. CASE Next
  <2>1. TypeOK /\ TypeOK'
    BY NextType DEF FreightInv
  <2>2. PaymentMoves
    BY <1>1, <2>1, PaymentStep
  <2>3. \A l \in Loads : LoadMoves(l) /\ AgreementMoves(l)
    BY <1>1, <2>1, LoadStep, AgreementStep
  <2>4. OneEscrow'
    BY <2>1, <2>2, OneEscrowStep DEF FreightInv
  <2>5. EscrowedInTransit'
    BY <2>1, <2>2, <2>3, EscrowedInTransitStep DEF FreightInv
  <2>6. DeliveredIsSettled'
    BY <2>1, <2>2, <2>3, DeliveredIsSettledStep DEF FreightInv
  <2>7. TripFollowed'
    BY <2>1, <2>3, TripFollowedStep DEF FreightInv
  <2>8. OneAgreement'
    BY <2>1, <2>3, OneAgreementStep DEF FreightInv
  <2>. QED
    BY <2>1, <2>4, <2>5, <2>6, <2>7, <2>8 DEF FreightInv
<1>2. CASE UNCHANGED vars
  <2>1. UNCHANGED <<loads, bids, listings, offers, payments, pending, wallet, log, outbox>>
    BY <1>2 DEF vars
  <2>2. TypeOK' /\ OneEscrow' /\ EscrowedInTransit' /\ DeliveredIsSettled' /\ TripFollowed'
    BY <2>1 DEF FreightInv, TypeOK, OneEscrow, EscrowedInTransit, DeliveredIsSettled, TripFollowed,
                BlockedOn, PaymentsOf
  <2>3. OneAgreement'
    BY <2>1 DEF FreightInv, OneAgreement, AgreementsOn, BidsOn, AgreedDriver
  <2>. QED
    BY <2>2, <2>3 DEF FreightInv
<1>. QED
  BY <1>1, <1>2

\* The inductive invariant holds whatever requests the services serve, in any order:
\* types, one escrow per load, cover in transit, settlement at delivery, one agreement
\* and an outbox that follows the trip hold together.
THEOREM InvHolds == Spec => []FreightInv
BY InitInv, NextInv, PTL DEF Spec

\* A load's price is blocked at most once at a time, whatever is cancelled, released
\* early or held again by the backfill (MockPaymentService.HoldPaymentAsync).
THEOREM EscrowIsUnique == Spec => []OneEscrow
<1>1. FreightInv => OneEscrow
  BY DEF FreightInv
<1>. QED
  BY <1>1, InvHolds, PTL

\* No driver carries a load whose price was never put aside.
THEOREM TransitIsEscrowed == Spec => []EscrowedInTransit
<1>1. FreightInv => EscrowedInTransit
  BY DEF FreightInv
<1>. QED
  BY <1>1, InvHolds, PTL

\* A delivered load owes nobody, and the ministry was told of both ends of the trip.
THEOREM DeliverySettles == Spec => []DeliveredIsSettled
<1>1. FreightInv => DeliveredIsSettled
  BY DEF FreightInv
<1>. QED
  BY <1>1, InvHolds, PTL

\* The money follows the trip, from the acceptance to the delivery, for any number of loads,
\* bids, offers and payments.
THEOREM EscrowHolds == Spec => []EscrowFollowsTrip
BY EscrowIsUnique, TransitIsEscrowed, DeliverySettles, PTL DEF EscrowFollowsTrip

\* The ministry hears of the pick-up before the load is under way and never of a
\* delivery that has not happened.
THEOREM TripIsReported == Spec => []TripFollowed
<1>1. FreightInv => TripFollowed
  BY DEF FreightInv
<1>. QED
  BY <1>1, InvHolds, PTL

\* A load is carried under exactly one agreement, by the driver who made it, whether
\* a bid or an offer was accepted.
THEOREM AgreementIsUnique == Spec => []OneAgreement
<1>1. FreightInv => OneAgreement
  BY DEF FreightInv
<1>. QED
  BY <1>1, InvHolds, PTL

\* No request takes a load back to an earlier stage, revives a cancelled one or hands
\* an assigned one to another driver.
THEOREM TripGoesForward == Spec => ForwardOnly
<1>1. FreightInv /\ [Next]_vars => [\A l \in Loads : Forward(l)]_vars
  <2>. SUFFICES ASSUME FreightInv, Next, NEW l \in Loads PROVE Forward(l)
    OBVIOUS
  <2>1. LoadMoves(l) /\ loads[l] \in LoadRecord
    BY LoadStep DEF FreightInv, TypeOK
  <2>2. loads[l].status \in {NoRow, "Active"} => loads[l].driver = None
    BY DEF FreightInv, OneAgreement
  <2>3. Stage(l)' >= Stage(l)
    BY <2>1 DEF LoadMoves, Created, Moved, GivenTo, Stage, LoadRecord, LoadStatus, NoRow
  <2>4. loads[l].status = "Cancelled" => loads'[l].status = "Cancelled"
    BY <2>1 DEF LoadMoves, Created, Moved, GivenTo, NoRow
  <2>5. loads[l].driver # None => loads'[l].driver = loads[l].driver
    BY <2>1, <2>2 DEF LoadMoves, Created, Moved, GivenTo
  <2>. QED
    BY <2>3, <2>4, <2>5 DEF Forward
<1>. QED
  BY <1>1, InvHolds, PTL DEF Spec, ForwardOnly

\* A customer gets money back at most once per load, for a payment marked Refunded of a
\* load that is Cancelled, and never more than that payment
\* (CancellationService, MockPaymentService.RefundEscrowAsync).
THEOREM RefundIsOnce == Spec => []RefundedOnce
<1>1. Init => RefundedOnce /\ PaidAmounts
  BY DEF Init, RefundedOnce, PaidAmounts, RowsOf, NoRow
<1>2. TypeOK /\ TypeOK' /\ RefundedOnce /\ PaidAmounts /\ [Next]_vars => (RefundedOnce /\ PaidAmounts)'
  <2>. SUFFICES ASSUME TypeOK, TypeOK', RefundedOnce, PaidAmounts, [Next]_vars
                PROVE  (RefundedOnce /\ PaidAmounts)'
    OBVIOUS
  <2>1. CASE Next
    <3>1. PaymentMoves
      BY <2>1, PaymentStep
    <3>2. RefundedOnce'
      <4>. SUFFICES ASSUME NEW l \in Loads, NEW i \in RowsOf(l, "CustomerRefund")'
                    PROVE  /\ RowsOf(l, "CustomerRefund")' = {i}
                           /\ loads'[l].status = "Cancelled"
                           /\ \E p \in PaymentsOf(l)' : /\ payments'[p].status = "Refunded"
                                                         /\ log'[l][i].amount =< payments'[p].amount
        BY DEF RefundedOnce
      <4>1. LoadMoves(l) /\ LogMoves(l)
        BY <2>1, LoadStep, LogStep
      <4>. QED
        BY <3>1, <4>1, RefundedOnceStep
    <3>. QED
      BY <3>1, <3>2, PaidAmountsStep
  <2>2. CASE UNCHANGED vars
    BY <2>2 DEF vars, RefundedOnce, PaidAmounts, RowsOf, PaymentsOf
  <2>. QED
    BY <2>1, <2>2
<1>. QED
  BY <1>1, <1>2, TypeCorrect, PTL DEF Spec

-------------------------------------------------------------------------------
(* The books. *)

\* A row more adds its amount to the rows of its type.
LEMMA RowAppended ==
    ASSUME NEW s \in Seq(LogRecord), NEW row \in LogRecord, NEW type
    PROVE  /\ SumOfRows(s, type) \in Int
           /\ SumOfRows(Append(s, row), type)
                = SumOfRows(s, type) + (IF row.type = type THEN row.amount ELSE 0)
<1>. DEFINE t == Append(s, row)
            n == Len(s) + 1
            f == [i \in DOMAIN s |-> s[i].amount]
            g == [i \in DOMAIN t |-> t[i].amount]
            A == {i \in DOMAIN s : s[i].type = type}
            B == {i \in DOMAIN t : t[i].type = type}
<1>1. /\ DOMAIN s = 1 .. Len(s) /\ DOMAIN t = 1 .. n /\ Len(s) \in Nat /\ n \notin DOMAIN s
      /\ \A i \in DOMAIN s : t[i] = s[i] /\ s[i] \in LogRecord
      /\ t[n] = row
  BY AppendProperties
<1>2. DOMAIN t = DOMAIN s \cup {n}
  <2>. HIDE DEF t
  <2>. QED
    BY <1>1
<1>3. IsFiniteSet(A)
  <2>1. IsFiniteSet(DOMAIN s)
    BY <1>1, FS_Interval
  <2>2. A \in SUBSET DOMAIN s
    OBVIOUS
  <2>. HIDE DEF A
  <2>. QED
    BY <2>1, <2>2, FS_Subset
<1>4. /\ \A i \in A : f[i] \in Int /\ g[i] = f[i]
      /\ g[n] = row.amount /\ row.amount \in Int
  BY <1>1, <1>2 DEF LogRecord
<1>5. SumOver(f, A) \in Int
  <2>. HIDE DEF f, A
  <2>. QED
    BY <1>3, <1>4, SumType
<1>6. SumOver(g, A) = SumOver(f, A)
  <2>. HIDE DEF f, g, A
  <2>. QED
    BY <1>3, <1>4, SumSame
<1>7. SumOver(g, B) = SumOver(g, A) + (IF row.type = type THEN row.amount ELSE 0)
  <2>1. CASE row.type = type
    <3>1. B = A \cup {n} /\ n \notin A
      BY <2>1, <1>1, <1>2
    <3>. HIDE DEF f, g, A, B, n
    <3>2. \A i \in A : g[i] \in Int
      BY <1>4
    <3>3. SumOver(g, A \cup {n}) = SumOver(g, A) + g[n]
      BY <1>3, <1>4, <3>1, <3>2, SumWith
    <3>. QED
      BY <2>1, <3>1, <3>3, <1>4
  <2>2. CASE row.type # type
    <3>1. B = A
      BY <2>2, <1>1, <1>2
    <3>. HIDE DEF f, g, A, B
    <3>. QED
      BY <2>2, <3>1, <1>5, <1>6
  <2>. QED
    BY <2>1, <2>2
<1>. QED
  BY <1>5, <1>6, <1>7 DEF SumOfRows

\* What the books say of a load is a number.
LEMMA TotalType ==
    ASSUME TypeOK, NEW l \in Loads
    PROVE  /\ \A type : Total(l, type) \in Int
           /\ Outstanding(l) \in Int
<1>1. log[l] \in Seq(LogRecord)
  BY DEF TypeOK
<1>2. PICK row : row \in LogRecord
  <2>1. [type |-> "Hold", user |-> Owner[l], amount |-> 0] \in LogRecord
    BY FreightAssumption DEF LogRecord, RowType, Users
  <2>. QED
    BY <2>1
<1>3. \A type : Total(l, type) \in Int
  BY <1>1, <1>2, RowAppended DEF Total
<1>. QED
  BY <1>3 DEF Outstanding

\* What a hold writes into the log of the load.
LEMMA HoldBooks ==
    ASSUME TypeOK, NEW l \in Loads, NEW d \in Drivers, NEW amount \in Amounts, Hold(l, d, amount)
    PROVE  LET net == DriverNet(amount, Corporate[d])
               fees == Fees(amount, Corporate[d])
           IN  /\ net \in Int /\ fees \in Int
               /\ Total(l, "Hold")' = Total(l, "Hold") + net
               /\ Total(l, "Fees")' = Total(l, "Fees") + fees
               /\ Outstanding(l)' = Outstanding(l) + net
               /\ HoldRows(l, d)' # {} /\ LatestHold(l, d)' = net
<1>. DEFINE net == DriverNet(amount, Corporate[d])
            fees == Fees(amount, Corporate[d])
            a == Row("Hold", d, net)
            b == Row("Fees", d, fees)
            s == log[l]
            n == Len(s) + 1
<1>1. net \in Int /\ fees \in Int
  BY AmountsAreIntegers, SettlementType, FreightAssumption
<1>2. /\ a \in LogRecord /\ a.type = "Hold" /\ a.user = d /\ a.amount = net
      /\ b \in LogRecord /\ b.type = "Fees" /\ b.amount = fees
  BY <1>1 DEF Row, LogRecord, RowType, Users
<1>3. s \in Seq(LogRecord) /\ log'[l] = s \o <<a, b>>
  BY DEF Hold, TypeOK
<1>. HIDE DEF net, fees, a, b, s
<1>4. log'[l] = Append(Append(s, a), b)
  <2>1. <<a, b>> = <<a>> \o <<b>> /\ <<a>> \in Seq(LogRecord) /\ <<b>> \in Seq(LogRecord)
    <3>1. <<a>> \in Seq(LogRecord) /\ <<b>> \in Seq(LogRecord)
      BY <1>2
    <3>2. <<a, b>> \in Seq(LogRecord)
      BY <1>2
    <3>3. <<a>> \o <<b>> = <<a, b>>
      <4>. DEFINE t == <<a>> \o <<b>>
                  u == <<a, b>>
      <4>1. t \in Seq(LogRecord) /\ Len(t) = 2 /\ t[1] = a /\ t[2] = b
        BY <3>1, ConcatProperties
      <4>2. u \in Seq(LogRecord) /\ Len(u) = 2 /\ u[1] = a /\ u[2] = b
        BY <3>2
      <4>. HIDE DEF t, u
      <4>3. \A i \in 1 .. Len(t) : t[i] = u[i]
        BY <4>1, <4>2
      <4>4. t = u
        BY <4>1, <4>2, <4>3, SeqEqual
      <4>. QED
        BY <4>4 DEF t, u
    <3>. QED
      BY <3>1, <3>3
  <2>2. s \o (<<a>> \o <<b>>) = (s \o <<a>>) \o <<b>>
    BY <1>3, <2>1, ConcatAssociative
  <2>3. Append(s, a) = s \o <<a>> /\ Append(s, a) \in Seq(LogRecord)
    BY <1>2, <1>3, AppendIsConcat, AppendProperties
  <2>4. Append(Append(s, a), b) = Append(s, a) \o <<b>>
    BY <1>2, <2>3, AppendIsConcat
  <2>. QED
    BY <1>3, <2>1, <2>2, <2>3, <2>4
<1>5. Append(s, a) \in Seq(LogRecord)
  BY <1>2, <1>3, AppendProperties
<1>6. ASSUME NEW type
      PROVE  /\ SumOfRows(s, type) \in Int
             /\ SumOfRows(log'[l], type) = SumOfRows(s, type)
                                           + (IF "Hold" = type THEN net ELSE 0)
                                           + (IF "Fees" = type THEN fees ELSE 0)
  <2>1. /\ SumOfRows(s, type) \in Int
        /\ SumOfRows(Append(s, a), type) = SumOfRows(s, type) + (IF "Hold" = type THEN net ELSE 0)
    BY <1>2, <1>3, RowAppended
  <2>2. SumOfRows(Append(Append(s, a), b), type)
          = SumOfRows(Append(s, a), type) + (IF b.type = type THEN b.amount ELSE 0)
    BY <1>2, <1>5, RowAppended
  <2>. QED
    BY <1>2, <1>4, <2>1, <2>2
<1>7. /\ Total(l, "Hold")' = Total(l, "Hold") + net
      /\ Total(l, "Fees")' = Total(l, "Fees") + fees
      /\ Total(l, "Release")' = Total(l, "Release")
      /\ Total(l, "HoldReversal")' = Total(l, "HoldReversal")
      /\ \A type : Total(l, type) \in Int
  BY <1>1, <1>6 DEF Total, s
<1>8. Outstanding(l)' = Outstanding(l) + net
  BY <1>1, <1>7 DEF Outstanding
<1>9. /\ Len(s) \in Nat /\ DOMAIN log'[l] = 1 .. n + 1 /\ log'[l][n] = a /\ log'[l][n + 1] = b
  BY <1>2, <1>3, <1>4, <1>5, AppendProperties
<1>10. n \in HoldRows(l, d)' /\ \A j \in HoldRows(l, d)' : j =< n
  BY <1>2, <1>9 DEF HoldRows, RowsOf
<1>11. LatestHold(l, d)' = net
  <2>. DEFINE i == CHOOSE i \in HoldRows(l, d)' : \A j \in HoldRows(l, d)' : j =< i
  <2>1. i \in HoldRows(l, d)' /\ n =< i /\ i =< n
    BY <1>10
  <2>2. i \in 1 .. n + 1
    BY <2>1, <1>9 DEF HoldRows, RowsOf
  <2>3. i = n
    BY <2>1, <2>2, <1>9
  <2>4. LatestHold(l, d)' = log'[l][i].amount
    BY DEF LatestHold
  <2>. QED
    BY <2>3, <2>4, <1>2, <1>9
<1>. QED
  BY <1>1, <1>7, <1>8, <1>10, <1>11 DEF net, fees

\* What a release or a refund writes into the log of load l takes the latest hold of d off what
\* is outstanding and leaves what was charged as it is.
Discharged(l, d) == /\ Total(l, "Hold")' = Total(l, "Hold")
                    /\ Total(l, "Fees")' = Total(l, "Fees")
                    /\ Outstanding(l)' = Outstanding(l) - LatestHold(l, d)

LEMMA ReleaseBooks ==
    ASSUME TypeOK, NEW l \in Loads, NEW d \in Drivers, Release(l, d)
    PROVE  LatestHold(l, d) \in Int /\ Discharged(l, d)
<1>. DEFINE held == LatestHold(l, d)
            a == Row("Release", d, held)
            s == log[l]
<1>1. held \in Int
  BY LatestHoldType DEF Release
<1>2. a \in LogRecord /\ a.type = "Release" /\ a.amount = held
  BY <1>1 DEF Row, LogRecord, RowType, Users
<1>3. s \in Seq(LogRecord) /\ log'[l] = Append(s, a)
  BY DEF Release, TypeOK
<1>. HIDE DEF held, a, s
<1>4. \A type : /\ SumOfRows(s, type) \in Int
                /\ SumOfRows(log'[l], type)
                     = SumOfRows(s, type) + (IF a.type = type THEN a.amount ELSE 0)
  BY <1>2, <1>3, RowAppended
<1>5. /\ Total(l, "Hold")' = Total(l, "Hold")
      /\ Total(l, "Fees")' = Total(l, "Fees")
      /\ Total(l, "Release")' = Total(l, "Release") + held
      /\ Total(l, "HoldReversal")' = Total(l, "HoldReversal")
      /\ \A type : Total(l, type) \in Int
  BY <1>1, <1>2, <1>4 DEF Total, s
<1>6. Outstanding(l)' = Outstanding(l) - held
  BY <1>1, <1>5 DEF Outstanding
<1>. QED
  BY <1>1, <1>5, <1>6 DEF Discharged, held

LEMMA RefundBooks ==
    ASSUME TypeOK, NEW l \in Loads, NEW d \in Drivers, NEW p \in PaymentsOf(l),
           NEW bidAmount \in Int, HoldRows(l, d) # {},
           log' = [log EXCEPT ![l] = @ \o RefundRows(l, d, p, bidAmount)]
    PROVE  LatestHold(l, d) \in Int /\ Discharged(l, d)
<1>. DEFINE held == LatestHold(l, d)
            fees == Fees(bidAmount, Corporate[d])
            back == RefundAmount(payments[p].amount)
            a == Row("HoldReversal", d, held)
            b == Row("FeesReversal", d, fees)
            c == Row("CustomerRefund", Owner[l], back)
            s == log[l]
            t == Append(s, a)
            u == IF bidAmount = 0 THEN t ELSE Append(t, b)
<1>1. held \in Int /\ fees \in Int /\ back \in Int
  <2>1. payments[p] \in PaymentRecord /\ payments[p].status # NoRow
    BY DEF PaymentsOf, TypeOK
  <2>. QED
    BY <2>1, LatestHoldType, SettlementType, FreightAssumption DEF PaymentRecord
<1>2. /\ a \in LogRecord /\ a.type = "HoldReversal" /\ a.amount = held
      /\ b \in LogRecord /\ b.type = "FeesReversal"
      /\ c \in LogRecord /\ c.type = "CustomerRefund"
  BY <1>1, FreightAssumption DEF Row, LogRecord, RowType, Users
<1>3. /\ s \in Seq(LogRecord)
      /\ log'[l] = s \o ((<<a>> \o (IF bidAmount = 0 THEN <<>> ELSE <<b>>)) \o <<c>>)
  BY DEF RefundRows, TypeOK
<1>. HIDE DEF held, fees, back, a, b, c, s
<1>4. t \in Seq(LogRecord) /\ u \in Seq(LogRecord)
  BY <1>2, <1>3, AppendProperties
<1>5. log'[l] = Append(u, c)
  <2>. DEFINE v == IF bidAmount = 0 THEN <<>> ELSE <<b>>
  <2>1. <<a>> \in Seq(LogRecord) /\ v \in Seq(LogRecord) /\ <<c>> \in Seq(LogRecord)
    BY <1>2
  <2>2. t = s \o <<a>>
    BY <1>2, <1>3, AppendIsConcat
  <2>3. u = t \o v
    <3>1. CASE bidAmount = 0
      BY <3>1, <1>4, ConcatEmptySeq
    <3>2. CASE bidAmount # 0
      BY <3>2, <1>2, <1>4, AppendIsConcat
    <3>. QED
      BY <3>1, <3>2
  <2>4. Append(u, c) = u \o <<c>>
    BY <1>2, <1>4, AppendIsConcat
  <2>. HIDE DEF v, t, u
  <2>5. \A x, y, z \in Seq(LogRecord) : x \o (y \o z) = (x \o y) \o z
    BY ConcatAssociative
  <2>6. <<a>> \o v \in Seq(LogRecord)
    BY <2>1, ConcatProperties
  <2>7. s \o ((<<a>> \o v) \o <<c>>) = (s \o (<<a>> \o v)) \o <<c>>
    BY <1>3, <2>1, <2>5, <2>6
  <2>8. s \o (<<a>> \o v) = (s \o <<a>>) \o v
    BY <1>3, <2>1, <2>5
  <2>. QED
    BY <1>3, <2>2, <2>3, <2>4, <2>7, <2>8 DEF v
<1>6. ASSUME NEW type
      PROVE  /\ SumOfRows(s, type) \in Int
             /\ type \in {"Hold", "Fees", "Release", "HoldReversal"} =>
                  SumOfRows(log'[l], type) = SumOfRows(s, type)
                                             + (IF "HoldReversal" = type THEN held ELSE 0)
  <2>1. /\ SumOfRows(s, type) \in Int
        /\ SumOfRows(t, type) = SumOfRows(s, type) + (IF a.type = type THEN a.amount ELSE 0)
    BY <1>2, <1>3, RowAppended
  <2>2. /\ SumOfRows(t, type) \in Int
        /\ SumOfRows(Append(t, b), type)
             = SumOfRows(t, type) + (IF b.type = type THEN b.amount ELSE 0)
    <3>. HIDE DEF t
    <3>. QED
      BY <1>2, <1>4, RowAppended
  <2>3. /\ SumOfRows(u, type) \in Int
        /\ SumOfRows(Append(u, c), type)
             = SumOfRows(u, type) + (IF c.type = type THEN c.amount ELSE 0)
    <3>. HIDE DEF u
    <3>. QED
      BY <1>2, <1>4, RowAppended
  <2>. HIDE DEF t
  <2>4. type # "FeesReversal" => SumOfRows(u, type) = SumOfRows(t, type)
    BY <1>2, <2>2
  <2>. HIDE DEF u
  <2>5. SumOfRows(log'[l], type) = SumOfRows(Append(u, c), type)
    BY <1>5
  <2>6. ASSUME type \in {"Hold", "Fees", "Release", "HoldReversal"}
        PROVE  SumOfRows(log'[l], type) = SumOfRows(t, type)
    BY <1>2, <2>3, <2>4, <2>5, <2>6
  <2>. QED
    BY <1>1, <1>2, <2>1, <2>6
<1>7. /\ Total(l, "Hold")' = Total(l, "Hold")
      /\ Total(l, "Fees")' = Total(l, "Fees")
      /\ Total(l, "Release")' = Total(l, "Release")
      /\ Total(l, "HoldReversal")' = Total(l, "HoldReversal") + held
      /\ \A type : Total(l, type) \in Int
  BY <1>1, <1>6 DEF Total, s
<1>8. Outstanding(l)' = Outstanding(l) - held
  BY <1>1, <1>7 DEF Outstanding
<1>. QED
  BY <1>1, <1>7, <1>8 DEF Discharged, held

\* What a step does to the books: nothing; a hold for the driver a load has or is given; or the
\* latest hold of the load's driver taken back together with the Blocked payment.
SameDriver(k) == loads'[k].driver = loads[k].driver
NothingMoves == UNCHANGED <<payments, pending, log>> /\ \A k \in Loads : SameDriver(k)
HoldMoves(l, d) ==
    /\ \E amount \in Amounts : Hold(l, d, amount)
    /\ loads[l].driver \in {d, None}
    /\ loads'[l].driver = d
    /\ \A k \in Loads \ {l} : SameDriver(k)
DischargeMoves(l, d) ==
    /\ loads[l].driver = d
    /\ \A k \in Loads : SameDriver(k)
    /\ \E p \in BlockedOn(l), st \in {"Released", "Refunded"} :
          payments' = [payments EXCEPT ![p].status = st]
    /\ pending' = [pending EXCEPT ![d] = @ - LatestHold(l, d)]
    /\ LatestHold(l, d) \in Int
    /\ Discharged(l, d)
    /\ \A k \in Loads \ {l} : log'[k] = log[k]
BookMoves ==
    \/ NothingMoves
    \/ \E l \in Loads, d \in Drivers : HoldMoves(l, d) \/ DischargeMoves(l, d)

\* A new status or price leaves the load with its driver.
LEMMA DriverStays ==
    ASSUME TypeOK, NEW l \in Loads,
           \/ \E st : loads' = [loads EXCEPT ![l].status = st]
           \/ \E price : loads' = [loads EXCEPT ![l].price = price]
    PROVE  \A k \in Loads : SameDriver(k)
<1>1. loads \in [Loads -> LoadRecord]
  BY DEF TypeOK
<1>2. ASSUME NEW st, loads' = [loads EXCEPT ![l].status = st]
      PROVE  \A k \in Loads : loads'[k].driver = loads[k].driver
  BY <1>1, <1>2 DEF LoadRecord
<1>3. ASSUME NEW price, loads' = [loads EXCEPT ![l].price = price]
      PROVE  \A k \in Loads : loads'[k].driver = loads[k].driver
  BY <1>1, <1>3 DEF LoadRecord
<1>. QED
  BY <1>2, <1>3 DEF SameDriver

LEMMA ReleaseMoves ==
    ASSUME TypeOK, NEW l \in Loads, NEW d \in Drivers, Release(l, d), loads[l].driver = d,
           \A k \in Loads : SameDriver(k)
    PROVE  DischargeMoves(l, d)
<1>1. LatestHold(l, d) \in Int /\ Discharged(l, d)
  BY ReleaseBooks
<1>2. \A k \in Loads \ {l} : log'[k] = log[k]
  BY DEF Release, TypeOK
<1>. QED
  BY <1>1, <1>2 DEF Release, DischargeMoves

LEMMA AcceptMoves ==
    ASSUME TypeOK, OneAgreement, NEW l \in Loads, NEW d \in Drivers, NEW amount \in Amounts,
           loads[l].status = "Active", loads' = Assigned(l, d), Hold(l, d, amount)
    PROVE  HoldMoves(l, d)
<1>1. loads[l] \in LoadRecord /\ loads[l].status # NoRow
  BY DEF TypeOK, NoRow
<1>2. loads'[l].driver = d /\ \A k \in Loads \ {l} : loads'[k] = loads[k]
  BY <1>1 DEF Assigned, TypeOK, LoadRecord
<1>3. loads[l].driver = None
  BY DEF OneAgreement
<1>. QED
  BY <1>2, <1>3 DEF HoldMoves, SameDriver

LEMMA CancelMoves ==
    ASSUME TypeOK, BlockedIsHeld, NEW l \in Loads, NEW isAdmin \in BOOLEAN, CancelLoad(l, isAdmin)
    PROVE  BookMoves
<1>1. \A k \in Loads : SameDriver(k)
  BY DriverStays DEF CancelLoad
<1>2. CASE UNCHANGED <<payments, pending, wallet, log>>
  BY <1>1, <1>2 DEF BookMoves, NothingMoves
<1>3. CASE ~UNCHANGED <<payments, pending, wallet, log>>
  <2>. DEFINE d == loads[l].driver
              n == AcceptedBidAmount(l)
  <2>1. loads[l].status = "Assigned" /\ d # None /\ RefundEscrow(l, d, n)
    BY <1>3 DEF CancelLoad
  <2>2. d \in Drivers /\ n \in Int
    BY <2>1, PriceType, AcceptedBidAmountType DEF NoRow
  <2>3. PICK p \in PaymentsOf(l) :
          /\ payments[p].status = "Blocked"
          /\ payments' = [payments EXCEPT ![p].status = "Refunded"]
          /\ pending' = IF HoldRows(l, d) = {} THEN pending
                        ELSE [pending EXCEPT ![d] = @ - LatestHold(l, d)]
          /\ log' = [log EXCEPT ![l] = @ \o RefundRows(l, d, p, n)]
    BY <1>3, <2>1 DEF RefundEscrow
  <2>4. p \in BlockedOn(l)
    BY <2>3 DEF BlockedOn
  <2>5. HoldRows(l, d) # {}
    BY <2>4 DEF BlockedIsHeld
  <2>6. loads[l].driver = d
    OBVIOUS
  <2>7. \A k \in Loads \ {l} : log'[k] = log[k]
    BY <2>3 DEF TypeOK
  <2>. HIDE DEF d, n
  <2>8. LatestHold(l, d) \in Int /\ Discharged(l, d)
    BY <2>2, <2>3, <2>5, RefundBooks
  <2>9. DischargeMoves(l, d)
    BY <1>1, <2>3, <2>4, <2>5, <2>6, <2>7, <2>8 DEF DischargeMoves
  <2>. QED
    BY <2>2, <2>9 DEF BookMoves
<1>. QED
  BY <1>2, <1>3

\* What each request does to the books.
LEMMA BookStep ==
    ASSUME TypeOK, OneAgreement, BlockedIsHeld, Next
    PROVE  BookMoves
<1>1. ASSUME UNCHANGED <<loads, payments, pending, log>> PROVE BookMoves
  BY <1>1 DEF BookMoves, NothingMoves, SameDriver
<1>2. ASSUME NEW k \in Loads, LoadRequest(k) PROVE BookMoves
  <2>1. ASSUME NEW price \in Amounts \ {0}, CreateLoad(k, price) PROVE BookMoves
    <3>1. \A l \in Loads : SameDriver(l)
      BY <2>1 DEF CreateLoad, TypeOK, LoadRecord, SameDriver, LoadStatus, NoRow
    <3>. QED
      BY <2>1, <3>1 DEF CreateLoad, BookMoves, NothingMoves
  <2>2. ASSUME NEW price \in Amounts \ {0}, EditLoad(k, price) PROVE BookMoves
    BY <2>2, DriverStays DEF EditLoad, BookMoves, NothingMoves
  <2>3. CASE Pickup(k)
    BY <2>3, DriverStays DEF Pickup, BookMoves, NothingMoves
  <2>4. CASE Arrive(k)
    BY <2>4, DriverStays DEF Arrive, BookMoves, NothingMoves
  <2>5. CASE Deliver(k)
    <3>1. loads[k].driver \in Drivers
      BY <2>5, PriceType DEF Deliver, NoRow
    <3>2. \A l \in Loads : SameDriver(l)
      BY <2>5, DriverStays DEF Deliver
    <3>3. DischargeMoves(k, loads[k].driver)
      BY <2>5, <3>1, <3>2, ReleaseMoves DEF Deliver
    <3>. QED
      BY <3>1, <3>3 DEF BookMoves
  <2>6. ASSUME NEW isAdmin \in BOOLEAN, CancelLoad(k, isAdmin) PROVE BookMoves
    BY <2>6, CancelMoves
  <2>. QED
    BY <1>2, <2>1, <2>2, <2>3, <2>4, <2>5, <2>6 DEF LoadRequest
<1>3. ASSUME NEW b \in Bids, BidRequest(b) PROVE BookMoves
  <2>1. CASE AcceptBid(b)
    <3>1. HoldMoves(bids[b].load, bids[b].driver)
      BY <2>1, AcceptMoves, PriceType DEF AcceptBid, NoRow
    <3>2. bids[b].load \in Loads /\ bids[b].driver \in Drivers
      BY <2>1, PriceType DEF AcceptBid, NoRow
    <3>. QED
      BY <3>1, <3>2 DEF BookMoves
  <2>. QED
    BY <1>1, <1>3, <2>1 DEF BidRequest, SubmitBid, CancelBid
<1>4. ASSUME NEW i \in Listings, ListingRequest(i) PROVE BookMoves
  BY <1>1, <1>4 DEF ListingRequest, CreateListing, CancelListing, AdminCancelListing
<1>5. ASSUME NEW o \in Offers, OfferRequest(o) PROVE BookMoves
  <2>1. CASE AcceptOffer(o)
    <3>. DEFINE l == offers[o].load
                d == ListingDriver[offers[o].listing]
    <3>1. l \in Loads /\ d \in Drivers /\ OfferedAmount(o) \in Amounts
      BY <2>1, PriceType, FreightAssumption DEF AcceptOffer, NoRow
    <3>2. HoldMoves(l, d)
      BY <2>1, <3>1, AcceptMoves DEF AcceptOffer
    <3>. QED
      BY <3>1, <3>2 DEF BookMoves
  <2>. QED
    BY <1>1, <1>5, <2>1 DEF OfferRequest, CreateOffer, RejectOffer, WithdrawOffer, CloseOffer
<1>6. ASSUME NEW p \in Payments, AdminRelease(p) PROVE BookMoves
  <2>. DEFINE l == payments[p].load
              d == loads[l].driver
  <2>1. l \in Loads
    BY <1>6 DEF AdminRelease, TypeOK, PaymentRecord, NoRow
  <2>2. d \in Drivers
    BY <1>6, <2>1 DEF AdminRelease, TypeOK, LoadRecord
  <2>3. DischargeMoves(l, d)
    BY <1>6, <2>1, <2>2, ReleaseMoves DEF AdminRelease, SameDriver
  <2>. QED
    BY <2>1, <2>2, <2>3 DEF BookMoves
<1>7. ASSUME NEW k \in Loads, Backfill(k) PROVE BookMoves
  <2>1. loads[k].driver \in Drivers
    BY <1>7, PriceType DEF Backfill, EscrowStates, NoRow
  <2>2. BackfillAmount(k) \in Amounts
    BY <1>7, PriceType, AcceptedBidAmountType DEF Backfill, BackfillAmount, EscrowStates, NoRow
  <2>3. HoldMoves(k, loads[k].driver)
    BY <1>7, <2>2 DEF Backfill, HoldMoves, SameDriver
  <2>. QED
    BY <2>1, <2>3 DEF BookMoves
<1>. QED
  BY <1>2, <1>3, <1>4, <1>5, <1>6, <1>7 DEF Next

-------------------------------------------------------------------------------
(* The books stay balanced. *)

PendingSums ==
    \A d \in Drivers : pending[d] = SumOver([k \in Loads |-> Outstanding(k)], GivenLoads(d))
NothingLeft == \A k \in Loads : BlockedOn(k) = {} => Outstanding(k) = 0

\* Where one load's outstanding amount and its driver's pending balance change by as much, and
\* the load was with that driver or had nothing outstanding, the pending balances stay sums.
LEMMA PendingSumsStep ==
    ASSUME TypeOK, TypeOK', PendingSums, NEW l \in Loads, NEW d \in Drivers, NEW held \in Int,
           loads[l].driver = d \/ (loads[l].driver = None /\ Outstanding(l) = 0),
           loads'[l].driver = d,
           \A k \in Loads \ {l} : SameDriver(k) /\ log'[k] = log[k],
           pending' = [pending EXCEPT ![d] = @ + held],
           Outstanding(l)' = Outstanding(l) + held
    PROVE  PendingSums'
<1>. DEFINE f == [k \in Loads |-> Outstanding(k)]
            g == [k \in Loads |-> Outstanding(k)']
<1>1. \A k \in Loads : f[k] \in Int
  BY TotalType
<1>2. \A k \in Loads \ {l} : g[k] = f[k]
  BY DEF Outstanding, Total
<1>3. f[l] = Outstanding(l) /\ g[l] = f[l] + held /\ g[l] \in Int
  BY <1>1
<1>4. \A e \in Drivers : /\ IsFiniteSet(GivenLoads(e)) /\ IsFiniteSet(GivenLoads(e) \ {l})
                         /\ GivenLoads(e) \subseteq Loads
                         /\ pending[e] = SumOver(f, GivenLoads(e))
  <2>1. \A e \in Drivers : GivenLoads(e) \in SUBSET Loads /\ GivenLoads(e) \ {l} \in SUBSET Loads
    BY DEF GivenLoads
  <2>. QED
    BY <2>1, FiniteKeys, FS_Subset DEF PendingSums
<1>5. \A e \in Drivers \ {d} : GivenLoads(e)' = GivenLoads(e) /\ l \notin GivenLoads(e)
  BY FreightAssumption DEF GivenLoads, SameDriver
<1>6. GivenLoads(d)' = GivenLoads(d) \cup {l}
  BY DEF GivenLoads, SameDriver
<1>7. l \notin GivenLoads(d) => f[l] = 0
  BY <1>3 DEF GivenLoads
<1>8. \A e \in Drivers : pending'[e] = IF e = d THEN pending[d] + held ELSE pending[e]
  BY DEF TypeOK
<1>. HIDE DEF f, g
<1>9. ASSUME NEW e \in Drivers \ {d} PROVE SumOver(g, GivenLoads(e)) = SumOver(f, GivenLoads(e))
  <2>1. IsFiniteSet(GivenLoads(e)) /\ \A k \in GivenLoads(e) : g[k] = f[k]
    BY <1>2, <1>4, <1>5
  <2>. HIDE DEF GivenLoads
  <2>. QED
    BY <2>1, SumSame
<1>10. SumOver(g, GivenLoads(d) \cup {l}) = SumOver(f, GivenLoads(d)) + held
  <2>. DEFINE A == GivenLoads(d) \ {l}
              B == GivenLoads(d) \cup {l}
  <2>1. IsFiniteSet(A) /\ \A k \in A : f[k] \in Int /\ g[k] = f[k]
    BY <1>1, <1>2, <1>4
  <2>2. B = A \cup {l} /\ l \notin A
    OBVIOUS
  <2>3. SumOver(f, GivenLoads(d)) = SumOver(f, A) + f[l]
    <3>1. CASE l \in GivenLoads(d)
      <4>1. GivenLoads(d) = A \cup {l}
        BY <3>1
      <4>. HIDE DEF A
      <4>. QED
        BY <1>1, <2>1, <2>2, <4>1, SumWith
    <3>2. CASE l \notin GivenLoads(d)
      <4>1. GivenLoads(d) = A /\ f[l] = 0
        BY <3>2, <1>7
      <4>. HIDE DEF A
      <4>2. SumOver(f, A) \in Int
        BY <2>1, SumType
      <4>. QED
        BY <4>1, <4>2
    <3>. QED
      BY <3>1, <3>2
  <2>. HIDE DEF A, B
  <2>4. SumOver(g, B) = SumOver(g, A) + g[l]
    <3>1. \A k \in A : g[k] \in Int
      BY <2>1
    <3>. QED
      BY <1>3, <2>1, <2>2, <3>1, SumWith
  <2>5. SumOver(g, A) = SumOver(f, A) /\ SumOver(f, A) \in Int
    BY <2>1, SumSame, SumType
  <2>. QED
    BY <1>1, <1>3, <2>3, <2>4, <2>5 DEF B
<1>11. ASSUME NEW e \in Drivers PROVE pending'[e] = SumOver(g, GivenLoads(e)')
  <2>1. CASE e = d
    BY <2>1, <1>4, <1>6, <1>8, <1>10
  <2>2. CASE e # d
    <3>1. pending'[e] = SumOver(f, GivenLoads(e))
      BY <2>2, <1>4, <1>8
    <3>2. GivenLoads(e)' = GivenLoads(e) /\ SumOver(g, GivenLoads(e)) = SumOver(f, GivenLoads(e))
      BY <2>2, <1>5, <1>9
    <3>. QED
      BY <3>1, <3>2
  <2>. QED
    BY <2>1, <2>2
<1>. QED
  BY <1>11 DEF PendingSums, g

\* A load's payments are finitely many, and what was charged for it is the same as long as they are.
LEMMA ChargedType ==
    ASSUME TypeOK, NEW k \in Loads
    PROVE  /\ IsFiniteSet(PaymentsOf(k))
           /\ \A q \in PaymentsOf(k) : payments[q].amount \in Int
           /\ Charged(k) \in Int
<1>1. PaymentsOf(k) \in SUBSET Payments
  BY DEF PaymentsOf
<1>2. IsFiniteSet(PaymentsOf(k))
  BY <1>1, FiniteKeys, FS_Subset
<1>3. \A q \in PaymentsOf(k) : payments[q].amount \in Int
  BY DEF PaymentsOf, TypeOK, PaymentRecord
<1>. HIDE DEF PaymentsOf
<1>. DEFINE f == [q \in PaymentsOf(k) |-> payments[q].amount]
<1>4. \A q \in PaymentsOf(k) : f[q] \in Int
  BY <1>3
<1>5. SumOver(f, PaymentsOf(k)) \in Int
  <2>. HIDE DEF f
  <2>. QED
    BY <1>2, <1>4, SumType
<1>. QED
  BY <1>2, <1>3, <1>5 DEF Charged

LEMMA ChargedSame ==
    ASSUME TypeOK, NEW k \in Loads, PaymentsOf(k)' = PaymentsOf(k),
           \A q \in PaymentsOf(k) : payments'[q].amount = payments[q].amount
    PROVE  Charged(k)' = Charged(k)
<1>. DEFINE f == [q \in PaymentsOf(k) |-> payments[q].amount]
            g == [q \in PaymentsOf(k) |-> payments'[q].amount]
<1>1. IsFiniteSet(PaymentsOf(k))
  BY ChargedType
<1>2. \A q \in PaymentsOf(k) : g[q] = f[q]
  OBVIOUS
<1>3. SumOver(g, PaymentsOf(k)) = SumOver(f, PaymentsOf(k))
  <2>. HIDE DEF f, g
  <2>. QED
    BY <1>1, <1>2, SumSame
<1>. QED
  BY <1>3 DEF Charged

LEMMA ChargedMore ==
    ASSUME TypeOK, NEW k \in Loads, NEW p \in Payments, p \notin PaymentsOf(k),
           PaymentsOf(k)' = PaymentsOf(k) \cup {p},
           \A q \in PaymentsOf(k) : payments'[q].amount = payments[q].amount,
           payments'[p].amount \in Int
    PROVE  Charged(k)' = Charged(k) + payments'[p].amount
<1>. DEFINE A == PaymentsOf(k)
            f == [q \in A |-> payments[q].amount]
            g == [q \in A \cup {p} |-> payments'[q].amount]
<1>1. IsFiniteSet(A) /\ \A q \in A : f[q] \in Int /\ g[q] = f[q]
  BY ChargedType
<1>2. g[p] = payments'[p].amount
  OBVIOUS
<1>3. SumOver(g, A \cup {p}) = SumOver(f, A) + g[p]
  <2>. HIDE DEF f, g, A
  <2>1. \A q \in A : g[q] \in Int
    BY <1>1
  <2>2. SumOver(g, A \cup {p}) = SumOver(g, A) + g[p]
    BY <1>1, <1>2, <2>1, SumWith DEF A
  <2>3. SumOver(g, A) = SumOver(f, A)
    BY <1>1, SumSame
  <2>. QED
    BY <2>2, <2>3
<1>4. Charged(k)' = SumOver(g, A \cup {p})
  BY DEF Charged
<1>5. Charged(k) = SumOver(f, A)
  BY DEF Charged
<1>. QED
  BY <1>2, <1>3, <1>4, <1>5

Books == BooksBalance /\ BlockedIsHeld

LEMMA NothingKeepsBooks ==
    ASSUME TypeOK, Books, NothingMoves
    PROVE  Books'
<1>1. /\ \A d \in Drivers : GivenLoads(d)' = GivenLoads(d)
      /\ \A k \in Loads : PaymentsOf(k)' = PaymentsOf(k) /\ BlockedOn(k)' = BlockedOn(k)
      /\ \A k \in Loads : Outstanding(k)' = Outstanding(k)
  BY DEF NothingMoves, SameDriver, GivenLoads, PaymentsOf, BlockedOn, Outstanding, Total
<1>2. PendingMatchesLedger'
  BY <1>1 DEF Books, BooksBalance, PendingMatchesLedger, NothingMoves
<1>3. ChargesMatchLedger'
  BY <1>1 DEF Books, BooksBalance, ChargesMatchLedger, Charged, Total, NothingMoves
<1>4. BlockedIsHeld'
  BY <1>1 DEF Books, BlockedIsHeld, NothingMoves, SameDriver, HoldRows, RowsOf, LatestHold
<1>. QED
  BY <1>2, <1>3, <1>4 DEF Books, BooksBalance

LEMMA HoldKeepsBooks ==
    ASSUME TypeOK, TypeOK', Books, NEW l \in Loads, NEW d \in Drivers, HoldMoves(l, d)
    PROVE  Books'
<1>1. PICK amount \in Amounts : Hold(l, d, amount)
  BY DEF HoldMoves
<1>. DEFINE net == DriverNet(amount, Corporate[d])
            fees == Fees(amount, Corporate[d])
<1>2. /\ net \in Int /\ fees \in Int
      /\ Total(l, "Hold")' = Total(l, "Hold") + net
      /\ Total(l, "Fees")' = Total(l, "Fees") + fees
      /\ Outstanding(l)' = Outstanding(l) + net
      /\ HoldRows(l, d)' # {} /\ LatestHold(l, d)' = net
  BY <1>1, HoldBooks
<1>3. BlockedOn(l) = {} /\ Outstanding(l) = 0
  BY <1>1 DEF Hold, Books, BooksBalance, PendingMatchesLedger
<1>4. PICK p \in Payments :
        /\ payments[p].status = NoRow
        /\ payments' = [payments EXCEPT ![p] =
              [status |-> "Blocked", load |-> l, amount |-> CustomerTotal(amount)]]
  BY <1>1 DEF Hold
<1>5. CustomerTotal(amount) = net + fees
  BY SplitIsComplete, FreightAssumption, AmountsAreIntegers
<1>6. pending' = [pending EXCEPT ![d] = @ + net] /\ \A k \in Loads \ {l} : log'[k] = log[k]
  BY <1>1 DEF Hold, TypeOK
<1>. HIDE DEF net, fees
<1>7. /\ payments'[p].status = "Blocked" /\ payments'[p].load = l
      /\ payments'[p].amount = CustomerTotal(amount)
      /\ \A q \in Payments \ {p} : payments'[q] = payments[q]
  BY <1>4 DEF TypeOK
<1>8. /\ p \notin PaymentsOf(l) /\ PaymentsOf(l)' = PaymentsOf(l) \cup {p}
      /\ p \in BlockedOn(l)'
      /\ \A k \in Loads \ {l} : PaymentsOf(k)' = PaymentsOf(k) /\ BlockedOn(k)' = BlockedOn(k)
      /\ \A k \in Loads : p \notin PaymentsOf(k)
  BY <1>4, <1>7 DEF PaymentsOf, BlockedOn, NoRow
<1>9. \A k \in Loads \ {l} : /\ Outstanding(k)' = Outstanding(k)
                             /\ \A type : Total(k, type)' = Total(k, type)
  BY <1>6 DEF Outstanding, Total
<1>10. loads[l].driver \in {d, None} /\ loads'[l].driver = d /\ \A k \in Loads \ {l} : SameDriver(k)
  BY DEF HoldMoves
<1>11. PendingMatchesLedger'
  <2>1. PendingSums'
    BY <1>2, <1>3, <1>6, <1>10, PendingSumsStep
       DEF Books, BooksBalance, PendingMatchesLedger, PendingSums
  <2>2. NothingLeft'
    BY <1>8, <1>9 DEF NothingLeft, Books, BooksBalance, PendingMatchesLedger
  <2>. QED
    BY <2>1, <2>2 DEF PendingMatchesLedger, PendingSums, NothingLeft
<1>12. ASSUME NEW k \in Loads
       PROVE  Charged(k)' = Total(k, "Hold")' + Total(k, "Fees")'
  <2>1. Charged(k) = Total(k, "Hold") + Total(k, "Fees") /\ Charged(k) \in Int
    BY ChargedType DEF Books, BooksBalance, ChargesMatchLedger
  <2>2. Total(k, "Hold") \in Int /\ Total(k, "Fees") \in Int
    BY TotalType
  <2>3. \A q \in PaymentsOf(k) : payments'[q].amount = payments[q].amount
    BY <1>7, <1>8 DEF PaymentsOf
  <2>4. CASE k = l
    <3>1. Charged(l)' = Charged(l) + payments'[p].amount
      BY <2>3, <2>4, <1>2, <1>5, <1>7, <1>8, ChargedMore
    <3>. QED
      BY <3>1, <2>1, <2>2, <2>4, <1>2, <1>5, <1>7
  <2>5. CASE k # l
    <3>1. Charged(k)' = Charged(k)
      BY <2>3, <2>5, <1>8, ChargedSame
    <3>. QED
      BY <3>1, <2>1, <2>5, <1>9
  <2>. QED
    BY <2>4, <2>5
<1>13. ASSUME NEW k \in Loads, BlockedOn(k)' # {}
       PROVE  /\ loads'[k].driver \in Drivers
              /\ HoldRows(k, loads[k].driver)' # {}
              /\ Outstanding(k)' = LatestHold(k, loads[k].driver)'
  <2>1. CASE k = l
    <3>1. Outstanding(l)' = net
      BY <1>2, <1>3
    <3>. QED
      BY <3>1, <2>1, <1>2, <1>10
  <2>2. CASE k # l
    <3>1. /\ loads[k].driver \in Drivers
          /\ HoldRows(k, loads[k].driver) # {}
          /\ Outstanding(k) = LatestHold(k, loads[k].driver)
      BY <1>13, <2>2, <1>8 DEF Books, BlockedIsHeld
    <3>2. loads'[k].driver = loads[k].driver /\ log'[k] = log[k]
      BY <2>2, <1>6, <1>10 DEF SameDriver
    <3>3. /\ HoldRows(k, loads[k].driver)' = HoldRows(k, loads[k].driver)
          /\ LatestHold(k, loads[k].driver)' = LatestHold(k, loads[k].driver)
      BY <3>2 DEF HoldRows, RowsOf, LatestHold
    <3>. QED
      BY <3>1, <3>2, <3>3, <2>2, <1>9
  <2>. QED
    BY <2>1, <2>2
<1>. QED
  BY <1>11, <1>12, <1>13 DEF Books, BooksBalance, ChargesMatchLedger, BlockedIsHeld

LEMMA DischargeKeepsBooks ==
    ASSUME TypeOK, TypeOK', OneEscrow, Books,
           NEW l \in Loads, NEW d \in Drivers, DischargeMoves(l, d)
    PROVE  Books'
<1>. DEFINE held == LatestHold(l, d)
<1>1. PICK p \in BlockedOn(l), st \in {"Released", "Refunded"} :
          payments' = [payments EXCEPT ![p].status = st]
  BY DEF DischargeMoves
<1>2. /\ loads[l].driver = d /\ \A k \in Loads : SameDriver(k)
      /\ pending' = [pending EXCEPT ![d] = @ - held]
      /\ held \in Int
      /\ Total(l, "Hold")' = Total(l, "Hold")
      /\ Total(l, "Fees")' = Total(l, "Fees")
      /\ Outstanding(l)' = Outstanding(l) - held
      /\ \A k \in Loads \ {l} : log'[k] = log[k]
  BY DEF DischargeMoves, Discharged
<1>. HIDE DEF held
<1>3. /\ p \in Payments /\ payments[p].status = "Blocked" /\ payments[p].load = l
      /\ payments[p] \in PaymentRecord
  BY DEF BlockedOn, PaymentsOf, TypeOK
<1>4. /\ payments'[p].status = st /\ payments'[p].load = l /\ payments'[p].amount = payments[p].amount
      /\ \A q \in Payments \ {p} : payments'[q] = payments[q]
  BY <1>1, <1>3 DEF TypeOK, PaymentRecord, NoRow
<1>5. /\ \A k \in Loads : PaymentsOf(k)' = PaymentsOf(k)
      /\ \A k \in Loads \ {l} : BlockedOn(k)' = BlockedOn(k)
      /\ BlockedOn(l)' = {}
  <2>1. \A k \in Loads : PaymentsOf(k)' = PaymentsOf(k)
    BY <1>3, <1>4 DEF PaymentsOf, NoRow
  <2>2. \A k \in Loads \ {l} : BlockedOn(k)' = BlockedOn(k)
    BY <1>3, <1>4 DEF PaymentsOf, BlockedOn
  <2>3. BlockedOn(l)' = {}
    BY <1>3, <1>4 DEF PaymentsOf, BlockedOn, OneEscrow
  <2>. QED
    BY <2>1, <2>2, <2>3
<1>6. Outstanding(l) = held
  BY <1>1, <1>2 DEF Books, BlockedIsHeld, held
<1>7. \A k \in Loads \ {l} : /\ Outstanding(k)' = Outstanding(k)
                             /\ \A type : Total(k, type)' = Total(k, type)
  BY <1>2 DEF Outstanding, Total
<1>8. PendingMatchesLedger'
  <2>1. pending[d] \in Int /\ Outstanding(l) \in Int
    BY <1>2, TotalType DEF TypeOK
  <2>2. PICK less \in Int : \A x \in Int : x + less = x - held
    <3>1. 0 - held \in Int /\ \A x \in Int : x + (0 - held) = x - held
      BY <1>2
    <3>. QED
      BY <3>1
  <2>3. /\ pending' = [pending EXCEPT ![d] = @ + less]
        /\ Outstanding(l)' = Outstanding(l) + less
    BY <2>2, <2>1, <1>2
  <2>4. PendingSums /\ loads'[l].driver = d
    BY <1>2 DEF Books, BooksBalance, PendingMatchesLedger, PendingSums, SameDriver
  <2>5. PendingSums'
    <3>1. /\ loads[l].driver = d
          /\ \A k \in Loads \ {l} : SameDriver(k) /\ log'[k] = log[k]
      BY <1>2
    <3>. QED
      BY <2>2, <3>1, <2>3, <2>4, PendingSumsStep
  <2>6. NothingLeft'
    BY <1>2, <1>5, <1>6, <1>7 DEF NothingLeft, Books, BooksBalance, PendingMatchesLedger
  <2>. QED
    BY <2>5, <2>6 DEF PendingMatchesLedger, PendingSums, NothingLeft
<1>9. ChargesMatchLedger'
  <2>1. ASSUME NEW k \in Loads PROVE Charged(k)' = Charged(k)
    <3>1. \A q \in PaymentsOf(k) : payments'[q].amount = payments[q].amount
      BY <1>4 DEF PaymentsOf
    <3>. QED
      BY <3>1, <1>5, ChargedSame
  <2>2. \A k \in Loads : /\ Total(k, "Hold")' = Total(k, "Hold")
                         /\ Total(k, "Fees")' = Total(k, "Fees")
    BY <1>2, <1>7
  <2>. QED
    BY <2>1, <2>2 DEF Books, BooksBalance, ChargesMatchLedger
<1>10. ASSUME NEW k \in Loads, BlockedOn(k)' # {}
       PROVE  /\ loads'[k].driver \in Drivers
              /\ HoldRows(k, loads[k].driver)' # {}
              /\ Outstanding(k)' = LatestHold(k, loads[k].driver)'
  <2>1. k # l
    BY <1>5, <1>10
  <2>2. /\ loads[k].driver \in Drivers
        /\ HoldRows(k, loads[k].driver) # {}
        /\ Outstanding(k) = LatestHold(k, loads[k].driver)
    BY <1>10, <2>1, <1>5 DEF Books, BlockedIsHeld
  <2>3. loads'[k].driver = loads[k].driver /\ log'[k] = log[k]
    BY <2>1, <1>2 DEF SameDriver
  <2>4. /\ HoldRows(k, loads[k].driver)' = HoldRows(k, loads[k].driver)
        /\ LatestHold(k, loads[k].driver)' = LatestHold(k, loads[k].driver)
    BY <2>3 DEF HoldRows, RowsOf, LatestHold
  <2>. QED
    BY <2>1, <2>2, <2>3, <2>4, <1>7
<1>. QED
  BY <1>8, <1>9, <1>10 DEF Books, BooksBalance, BlockedIsHeld

LEMMA InitBooks == Init => Books
<1>. SUFFICES ASSUME Init PROVE Books
  OBVIOUS
<1>1. \A k \in Loads : PaymentsOf(k) = {} /\ BlockedOn(k) = {}
  BY DEF Init, PaymentsOf, BlockedOn
<1>2. \A k \in Loads : \A type : Total(k, type) = 0
  <2>. SUFFICES ASSUME NEW k \in Loads, NEW type PROVE Total(k, type) = 0
    OBVIOUS
  <2>1. {i \in DOMAIN log[k] : log[k][i].type = type} = {}
    BY DEF Init
  <2>. QED
    BY <2>1, SumOfNothing DEF Total, SumOfRows
<1>3. \A k \in Loads : Outstanding(k) = 0 /\ Charged(k) = 0
  BY <1>1, <1>2, SumOfNothing DEF Outstanding, Charged
<1>4. \A d \in Drivers : GivenLoads(d) = {}
  BY FreightAssumption DEF Init, GivenLoads
<1>5. PendingMatchesLedger
  BY <1>3, <1>4, SumOfNothing DEF Init, PendingMatchesLedger
<1>. QED
  BY <1>1, <1>2, <1>3, <1>5 DEF Books, BooksBalance, ChargesMatchLedger, BlockedIsHeld

LEMMA NextBooks == FreightInv /\ FreightInv' /\ Books /\ [Next]_vars => Books'
<1>. SUFFICES ASSUME FreightInv, FreightInv', Books, [Next]_vars PROVE Books'
  OBVIOUS
<1>1. TypeOK /\ TypeOK' /\ OneEscrow /\ OneAgreement /\ BlockedIsHeld
  BY DEF FreightInv, Books
<1>2. CASE Next
  BY <1>1, <1>2, BookStep, NothingKeepsBooks, HoldKeepsBooks, DischargeKeepsBooks DEF BookMoves
<1>3. CASE UNCHANGED vars
  BY <1>1, <1>3, NothingKeepsBooks DEF vars, NothingMoves, SameDriver
<1>. QED
  BY <1>2, <1>3

\* While a payment is Blocked the driver of its load has a hold, and the latest of his holds is all
\* that is outstanding for the load: what ReleaseHold and the reversal of a refund look up, the
\* latest Hold row, is never a hold that was taken back before.
THEOREM BlockedStaysHeld == Spec => []BlockedIsHeld
<1>1. Spec => []Books
  BY InitBooks, NextBooks, InvHolds, PTL DEF Spec
<1>2. Books => BlockedIsHeld
  BY DEF Books
<1>. QED
  BY <1>1, <1>2, PTL

\* The books balance to the kurus, for any prices, rates and any number of loads: every driver's
\* pending balance is what the log says is outstanding for the loads he was given
\* (WalletLedgerService), and all a customer was charged for a load is in the log of that load.
THEOREM BooksStayBalanced == Spec => []BooksBalance
<1>1. Spec => []Books
  BY InitBooks, NextBooks, InvHolds, PTL DEF Spec
<1>2. Books => BooksBalance
  BY DEF Books
<1>. QED
  BY <1>1, <1>2, PTL

\* Nothing is owed back for a load.
NothingOwedBack == \A l \in Loads : Outstanding(l) >= 0

LEMMA OwedStep ==
    ASSUME NetsAreOwed, TypeOK, OneAgreement, Books, NothingOwedBack, Next
    PROVE  NothingOwedBack'
<1>1. BookMoves
  BY BookStep DEF Books
<1>2. CASE NothingMoves
  BY <1>2 DEF NothingMoves, NothingOwedBack, Outstanding, Total
<1>3. ASSUME NEW l \in Loads, NEW d \in Drivers, HoldMoves(l, d) PROVE NothingOwedBack'
  <2>1. PICK amount \in Amounts : Hold(l, d, amount)
    BY <1>3 DEF HoldMoves
  <2>2. PICK net \in Int : net = DriverNet(amount, Corporate[d]) /\ Outstanding(l)' = Outstanding(l) + net
    BY <2>1, HoldBooks
  <2>3. net >= 0
    BY <2>2, FreightAssumption DEF NetsAreOwed
  <2>4. Outstanding(l) = 0
    BY <2>1 DEF Hold, Books, BooksBalance, PendingMatchesLedger
  <2>5. \A k \in Loads \ {l} : Outstanding(k)' = Outstanding(k)
    BY <2>1 DEF Hold, TypeOK, Outstanding, Total
  <2>. QED
    BY <2>2, <2>3, <2>4, <2>5 DEF NothingOwedBack
<1>4. ASSUME NEW l \in Loads, NEW d \in Drivers, DischargeMoves(l, d) PROVE NothingOwedBack'
  <2>1. /\ BlockedOn(l) # {} /\ loads[l].driver = d /\ LatestHold(l, d) \in Int
        /\ Outstanding(l)' = Outstanding(l) - LatestHold(l, d)
        /\ \A k \in Loads \ {l} : log'[k] = log[k]
    BY <1>4 DEF DischargeMoves, Discharged
  <2>2. Outstanding(l)' = 0
    BY <2>1 DEF Books, BlockedIsHeld
  <2>3. \A k \in Loads \ {l} : Outstanding(k)' = Outstanding(k)
    BY <2>1 DEF Outstanding, Total
  <2>. QED
    BY <2>2, <2>3 DEF NothingOwedBack
<1>. QED
  BY <1>1, <1>2, <1>3, <1>4 DEF BookMoves

\* A driver's pending balance is at least what is outstanding for each of his loads.
LEMMA PendingCovers ==
    ASSUME TypeOK, Books, NothingOwedBack
    PROVE  BlockedCanBePaid
<1>. SUFFICES ASSUME NEW l \in Loads, BlockedOn(l) # {} PROVE HoldIsCovered(l)
  BY DEF BlockedCanBePaid
<1>1. PICK d \in Drivers : d = loads[l].driver
  BY DEF Books, BlockedIsHeld
<1>2. HoldRows(l, d) # {} /\ Outstanding(l) = LatestHold(l, d)
  BY <1>1 DEF Books, BlockedIsHeld
<1>. DEFINE f == [k \in Loads |-> Outstanding(k)]
            S == GivenLoads(d)
<1>3. l \in S /\ S \in SUBSET Loads /\ IsFiniteSet(S)
  BY <1>1, FiniteKeys, FS_Subset DEF GivenLoads
<1>4. \A k \in S : f[k] \in Nat
  BY <1>3, TotalType DEF NothingOwedBack
<1>5. f[l] = Outstanding(l) /\ pending[d] = SumOver(f, S)
  BY DEF Books, BooksBalance, PendingMatchesLedger
<1>. HIDE DEF f, S
<1>6. SumOver(f, S) \in Nat /\ f[l] =< SumOver(f, S)
  BY <1>3, <1>4, SumBoundsEach
<1>7. LatestHold(l, d) \in Int /\ pending[d] \in Int
  BY <1>2, TotalType DEF TypeOK
<1>. QED
  BY <1>1, <1>2, <1>5, <1>6, <1>7 DEF HoldIsCovered

\* Whoever carries a load with a Blocked payment can be paid for it: neither a delivery nor an
\* administrator's release is refused for want of a hold or of a pending balance
\* (WalletLedgerService's ReleaseHold), for any number of loads and drivers, as long as the rates
\* leave something of every price.
THEOREM DriversCanBePaid ==
    ASSUME NetsAreOwed
    PROVE  Spec => []BlockedCanBePaid
<1>1. Init => NothingOwedBack
  <2>. SUFFICES ASSUME Init PROVE NothingOwedBack
    OBVIOUS
  <2>1. TypeOK /\ Books /\ \A k \in Loads : BlockedOn(k) = {}
    BY InitType, InitBooks DEF Init, PaymentsOf, BlockedOn
  <2>. QED
    BY <2>1 DEF NothingOwedBack, Books, BooksBalance, PendingMatchesLedger
<1>2. FreightInv /\ Books /\ NothingOwedBack /\ [Next]_vars => NothingOwedBack'
  <2>1. ASSUME FreightInv, Books, NothingOwedBack, Next PROVE NothingOwedBack'
    BY <2>1, OwedStep DEF FreightInv
  <2>2. UNCHANGED vars /\ NothingOwedBack => NothingOwedBack'
    BY DEF vars, NothingOwedBack, Outstanding, Total
  <2>. QED
    BY <2>1, <2>2
<1>3. FreightInv /\ Books /\ NothingOwedBack => BlockedCanBePaid
  BY PendingCovers DEF FreightInv
<1>4. Spec => []Books
  BY InitBooks, NextBooks, InvHolds, PTL DEF Spec
<1>. QED
  BY <1>1, <1>2, <1>3, <1>4, InvHolds, PTL DEF Spec
===============================================================================
