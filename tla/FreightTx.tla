------------------------------ MODULE FreightTx -------------------------------
(***************************************************************************)
(* The requests of Freight as they really run: several at a time, each a   *)
(* sequence of SQL statements on PostgreSQL's READ COMMITTED level.        *)
(*                                                                         *)
(* A session is one request with its DbContext.  A query sees committed    *)
(* rows only and copies them into the context; the service changes the     *)
(* copies; SaveChanges writes the changed columns back as absolute values, *)
(* taking the rows' locks one by one, table by table, and never looks at   *)
(* what the rows have become meanwhile (no entity has a concurrency        *)
(* token).  A statement that meets a row another session has written or    *)
(* locked waits for that session to end; a cycle of waits is broken by     *)
(* rolling one of its sessions back.  The tables are Freight's variables;  *)
(* what a session has not committed is in tx only.                         *)
(***************************************************************************)
EXTENDS Freight

CONSTANTS Sessions,     \* requests in flight at a time, at most: a bound
          Kinds,        \* the requests clients send
          Overlaps,     \* sets of kinds that may be in flight together
          SameRowTwice, \* may two requests of one kind on one row overlap (a double click)?
          MaxRetryCount \* EnableRetryOnFailure's maxRetryCount: 5 in Program.cs

ASSUME SessionAssumption ==
    /\ SameRowTwice \in BOOLEAN
    /\ MaxRetryCount \in Nat
    /\ \A ov \in Overlaps : ov \subseteq Kinds

VARIABLE tx   \* the sessions

txVars == <<vars, tx>>

Idle == [pc |-> "idle"]
Busy == {s \in Sessions : tx[s].pc # "idle"}

TxInit == Init /\ tx = [s \in Sessions |-> Idle]

\* One column of one row, and the row it is in.
LoadStatusOf(l) == <<"Loads", l, "Status">>
LoadDriverOf(l) == <<"Loads", l, "DriverId">>
LoadPriceOf(l) == <<"Loads", l, "Price">>
BidStatusOf(b) == <<"Bids", b, "Status">>
ListingStatusOf(i) == <<"DriverListings", i, "Status">>
OfferStatusOf(o) == <<"ListingOffers", o, "Status">>
PaymentStatusOf(p) == <<"PaymentTransactions", p, "Status">>
PendingOf(d) == <<"Users", d, "PendingBalance">>
WalletOf(u) == <<"Users", u, "WalletBalance">>

RowAt(cell) == <<cell[1], cell[2]>>
LoadRow(l) == RowAt(LoadStatusOf(l))
NoWrites == [cell \in {} |-> NoRow]

\* One changed column; the changes f over the changes g.  (TLC's :> and @@, which the
\* provers cannot expand.)
Change(cell, value) == [c \in {cell} |-> value]
f ++ g == [c \in DOMAIN f \cup DOMAIN g |-> IF c \in DOMAIN f THEN f[c] ELSE g[c]]

\* A session that has made its first query (or taken its first lock): the load,
\* driver and amount it works on, the changed columns of its tracked copies
\* (write), the rows it will insert, the rows it has locked, those a bulk UPDATE
\* still has to visit (todo), and how often it was retried after a deadlock.
Session(kind, id, pc, l) ==
    [pc |-> pc, kind |-> kind, id |-> id, load |-> l, driver |-> None, amount |-> None,
     write |-> NoWrites, newLog |-> <<>>, newOutbox |-> <<>>, newPayment |-> {}, newBid |-> {},
     newOffer |-> {}, locks |-> {}, todo |-> {}, retries |-> 0]

\* The pools of primary keys are bounds: a request that inserts a row is sent only
\* while a key is left for it, whatever those in flight insert.
Spare(table, kinds) ==
    Cardinality({k \in DOMAIN table : table[k].status = NoRow})
        > Cardinality({t \in Busy : tx[t].kind \in kinds})
Holders == {"AcceptBid", "AcceptOffer", "Backfill"}
KeyLeft(kind) ==
    /\ kind = "SubmitBid" => Spare(bids, {kind})
    /\ kind = "CreateOffer" => Spare(offers, {kind})
    /\ kind \in Holders => Spare(payments, Holders)

\* A client sends a request while session s is free.
Send(s, session) ==
    /\ s \notin Busy
    /\ session.kind \in Kinds
    /\ KeyLeft(session.kind)
    /\ Busy # {} => {session.kind} \cup {tx[t].kind : t \in Busy} \in Overlaps
    /\ SameRowTwice \/ \A t \in Busy : <<tx[t].kind, tx[t].id>> # <<session.kind, session.id>>
    /\ tx' = [tx EXCEPT ![s] = session]
    /\ UNCHANGED vars

Step(s, session) == tx' = [tx EXCEPT ![s] = session] /\ UNCHANGED vars

\* The request throws: its transaction, if it opened one, is rolled back.
Throw(s) == Step(s, Idle)

FreeFor(s, row) == \A t \in Sessions \ {s} : t \in Busy => row \notin tx[t].locks

-------------------------------------------------------------------------------
(* Requests that read, check and save: one action sends the request and makes  *)
(* its first query, on which all its checks are made.                          *)

\* SubmitBidAsync checks the load and the driver's earlier bids, then inserts.
SendSubmitBid(s, l, d, amount) ==
    /\ amount > 0
    /\ loads[l].status = "Active"
    /\ \A b \in Bids : bids[b].status # NoRow => ~(bids[b].load = l /\ bids[b].driver = d)
    /\ Send(s, [Session("SubmitBid", <<l, d>>, "save", l) EXCEPT
          !.newBid = {[status |-> "Pending", load |-> l, driver |-> d, amount |-> amount]}])

SendCancelBid(s, b) ==
    /\ bids[b].status = "Pending"
    /\ Send(s, [Session("CancelBid", b, "save", bids[b].load) EXCEPT
          !.write = Change(BidStatusOf(b), "Cancelled")])

SendEditLoad(s, l, price) ==
    /\ loads[l].status = "Active"
    /\ ~HasAcceptedBid(l)
    /\ Send(s, [Session("EditLoad", l, "save", l) EXCEPT !.write = Change(LoadPriceOf(l), price)])

SendPickup(s, l) ==
    /\ loads[l].driver # None
    /\ loads[l].status = "Assigned"
    /\ Send(s, [Session("Pickup", l, "save", l) EXCEPT
          !.write = Change(LoadStatusOf(l), "OnWay"), !.newOutbox = <<"PickUp">>])

\* Both arrival paths test the status they have read and write Arrived in a later
\* save: LocationController with its first notification, TrackingHub in
\* UpdateStatusAsync, which checks nothing again.
SendArrive(s, l) ==
    /\ loads[l].status = "OnWay"
    /\ Send(s, [Session("Arrive", l, "save", l) EXCEPT !.write = Change(LoadStatusOf(l), "Arrived")])

SendCreateOffer(s, i, l, amount) ==
    /\ listings[i] = "Active"
    /\ loads[l].status = "Active"
    /\ \A o \in OffersTo(i, "Pending") : offers[o].load # l
    /\ Send(s, [Session("CreateOffer", <<i, l>>, "save", l) EXCEPT
          !.newOffer = {[status |-> "Pending", listing |-> i, load |-> l, amount |-> amount]}])

SendCloseOffer(s, o, kind, status) ==
    /\ offers[o].status = "Pending"
    /\ Send(s, [Session(kind, o, "save", offers[o].load) EXCEPT
          !.write = Change(OfferStatusOf(o), status)])

SendCancelListing(s, i) ==
    /\ listings[i] = "Active"
    /\ Send(s, [Session("CancelListing", i, "save", None) EXCEPT
          !.write = Change(ListingStatusOf(i), "Cancelled")])

SendAdminCancelListing(s, i) ==
    /\ listings[i] = "Active"
    /\ Send(s, [Session("AdminCancelListing", i, "others", None) EXCEPT
          !.write = Change(ListingStatusOf(i), "Cancelled")])

-------------------------------------------------------------------------------
(* Accepting a bid or an offer. *)

AssignTo(l, d) == Change(LoadStatusOf(l), "Assigned") ++ Change(LoadDriverOf(l), d)

SendAcceptBid(s, b) ==
    LET l == bids[b].load
    IN  /\ bids[b].status = "Pending"
        /\ loads[l].status = "Active"
        /\ Send(s, [Session("AcceptBid", b, "others", l) EXCEPT
              !.driver = bids[b].driver, !.amount = bids[b].amount,
              !.write = Change(BidStatusOf(b), "Accepted") ++ AssignTo(l, bids[b].driver)])

SendAcceptOffer(s, o) ==
    LET i == offers[o].listing
        l == offers[o].load
    IN  /\ offers[o].status = "Pending"
        /\ listings[i] = "Active"
        /\ loads[l].status = "Active"
        /\ Send(s, [Session("AcceptOffer", o, "others", l) EXCEPT
              !.driver = ListingDriver[i], !.amount = OfferedAmount(o),
              !.write = Change(OfferStatusOf(o), "Accepted") ++ Change(ListingStatusOf(i), "Matched")
                        ++ AssignTo(l, ListingDriver[i])])

\* The rows the bulk "UPDATE ... SET Status = Rejected WHERE Status = Pending" of a
\* request matches when it starts.
Rivals(t) ==
    CASE t.kind = "AcceptBid" -> {BidStatusOf(b) : b \in BidsOn(t.load, "Pending") \ {t.id}}
      [] t.kind = "AcceptOffer" ->
            {OfferStatusOf(o) : o \in OffersTo(offers[t.id].listing, "Pending") \ {t.id}}
      [] OTHER -> {OfferStatusOf(o) : o \in OffersTo(t.id, "Pending")}

\* Mutant: an assignment is saved without its hold.
AfterRejectSave(t) == "save"

AfterReject(t) == IF t.kind = "AdminCancelListing" THEN "save" ELSE "hold"

RejectOthers(s) ==
    /\ tx[s].pc = "others"
    /\ LET todo == Rivals(tx[s])
       IN  Step(s, [tx[s] EXCEPT !.todo = todo,
                                 !.pc = IF todo = {} THEN AfterReject(tx[s]) ELSE "reject"])

StillPending(cell) ==
    IF cell[1] = "Bids" THEN bids[cell[2]].status = "Pending" ELSE offers[cell[2]].status = "Pending"

\* The UPDATE visits its rows one by one.  It waits for a row another session has
\* locked and then tests the row's committed status again.
RejectRow(s) ==
    /\ tx[s].pc = "reject"
    /\ \E cell \in tx[s].todo :
          LET rest == tx[s].todo \ {cell}
              next == [tx[s] EXCEPT !.todo = rest,
                                    !.pc = IF rest = {} THEN AfterReject(tx[s]) ELSE "reject"]
          IN  /\ FreeFor(s, RowAt(cell))
              /\ Step(s, IF StillPending(cell)
                         THEN [next EXCEPT !.write = Change(cell, "Rejected") ++ @,
                                           !.locks = @ \cup {RowAt(cell)}]
                         ELSE next)

\* HoldPaymentAsync: the test for a Blocked payment ...
HoldCheck(s) ==
    /\ tx[s].pc = "hold"
    /\ IF BlockedOn(tx[s].load) = {} THEN Step(s, [tx[s] EXCEPT !.pc = "driver"]) ELSE Throw(s)

\* ... and, in a later query, the driver whose balance is raised.
HoldDriver(s) ==
    /\ tx[s].pc = "driver"
    /\ LET d == tx[s].driver
           a == tx[s].amount
           net == DriverNet(a, Corporate[d])
       IN  Step(s, [tx[s] EXCEPT !.pc = "save",
              !.write = Change(PendingOf(d), pending[d] + net) ++ @,
              !.newPayment = {[status |-> "Blocked", load |-> tx[s].load,
                               amount |-> CustomerTotal(a)]},
              !.newLog = <<Row("Hold", d, net), Row("Fees", d, Fees(a, Corporate[d]))>>])

SendBackfill(s, l) ==
    /\ loads[l].status \in EscrowStates
    /\ loads[l].driver # None
    /\ BlockedOn(l) = {}
    /\ BackfillAmount(l) > 0
    /\ Send(s, [Session("Backfill", l, "hold", l) EXCEPT
          !.driver = loads[l].driver, !.amount = BackfillAmount(l)])

-------------------------------------------------------------------------------
(* Delivering, and the administrator's release. *)

SendDeliver(s, l) ==
    /\ loads[l].driver # None
    /\ loads[l].status \in {"OnWay", "Arrived"}
    /\ Send(s, [Session("Deliver", l, "blocked", l) EXCEPT !.driver = loads[l].driver,
          !.write = Change(LoadStatusOf(l), "Delivered"), !.newOutbox = <<"Delivery">>])

SendAdminRelease(s, p) ==
    /\ payments[p].status = "Blocked"
    /\ loads[payments[p].load].driver # None
    /\ Send(s, [Session("AdminRelease", p, "blocked", payments[p].load) EXCEPT
          !.driver = loads[payments[p].load].driver])

\* ReleasePaymentAsync: the Blocked payment (without a lock) ...
FindBlocked(s) ==
    /\ tx[s].pc = "blocked"
    /\ IF BlockedOn(tx[s].load) = {} THEN Throw(s)
       ELSE \E p \in BlockedOn(tx[s].load) :
               Step(s, [tx[s] EXCEPT !.pc = "ledger",
                                     !.write = Change(PaymentStatusOf(p), "Released") ++ @])

\* Mutant: the release does not look at the balance it takes the hold from.
LedgerReleaseUnchecked(s) ==
    /\ tx[s].pc = "ledger"
    /\ LET l == tx[s].load
           d == tx[s].driver
           h == LatestHold(l, d)
       IN  IF HoldRows(l, d) = {} THEN Throw(s)
           ELSE Step(s, [tx[s] EXCEPT !.pc = "save",
                   !.write = Change(PendingOf(d), pending[d] - h) ++ Change(WalletOf(d), wallet[d] + h) ++ @,
                   !.newLog = <<Row("Release", d, h)>>])

\* ... then the Hold row and the driver's balances.
LedgerRelease(s) ==
    /\ tx[s].pc = "ledger"
    /\ LET l == tx[s].load
           d == tx[s].driver
           h == LatestHold(l, d)
       IN  IF HoldRows(l, d) = {} \/ pending[d] < h THEN Throw(s)
           ELSE Step(s, [tx[s] EXCEPT !.pc = "save",
                   !.write = Change(PendingOf(d), pending[d] - h) ++ Change(WalletOf(d), wallet[d] + h) ++ @,
                   !.newLog = <<Row("Release", d, h)>>])

-------------------------------------------------------------------------------
(* Cancelling a load: the one request that locks before it reads. *)

SendCancel(s, l, kind) ==
    /\ loads[l].status # NoRow
    /\ Send(s, Session(kind, l, "lockload", l))

\* SELECT ... FOR UPDATE on the load.  On a retry after a deadlock the context still
\* tracks the load as Cancelled, so the request returns early and saves what it has.
LockLoad(s) ==
    /\ tx[s].pc = "lockload"
    /\ FreeFor(s, LoadRow(tx[s].load))
    /\ Step(s, [tx[s] EXCEPT !.locks = {LoadRow(tx[s].load)},
                             !.pc = IF tx[s].write = NoWrites THEN "read" ELSE "save"])

ClosedBidWrites(l) ==
    [cell \in {BidStatusOf(b) : b \in BidsOn(l, "Accepted") \cup BidsOn(l, "Pending")} |->
        IF bids[cell[2]].status = "Accepted" THEN "Cancelled" ELSE "Rejected"]

CancelRead(s) ==
    /\ tx[s].pc = "read"
    /\ LET l == tx[s].load
           isAdmin == tx[s].kind = "AdminCancel"
           refund == isAdmin /\ loads[l].status = "Assigned" /\ loads[l].driver # None
       IN  IF loads[l].status = "Cancelled"
              \/ ~(IF isAdmin THEN CanAdminCancel(l) ELSE CanCustomerCancel(l))
           THEN Throw(s)
           ELSE Step(s, [tx[s] EXCEPT !.pc = IF refund THEN "lockpay" ELSE "save",
                   !.driver = loads[l].driver, !.amount = AcceptedBidAmount(l),
                   !.write = Change(LoadStatusOf(l), "Cancelled") ++ ClosedBidWrites(l)])

PaymentRows(l) == {RowAt(PaymentStatusOf(p)) : p \in PaymentsOf(l)}

LockPayments(s) ==
    /\ tx[s].pc = "lockpay"
    /\ \A row \in PaymentRows(tx[s].load) : FreeFor(s, row)
    /\ Step(s, [tx[s] EXCEPT !.pc = "refund", !.locks = @ \cup PaymentRows(tx[s].load)])

\* RefundEscrowAsync and ApplyRefundAsync.
CancelRefund(s) ==
    /\ tx[s].pc = "refund"
    /\ LET l == tx[s].load
           d == tx[s].driver
           u == Owner[l]
           held == HoldRows(l, d) # {}
           saved == [tx[s] EXCEPT !.pc = "save"]
       IN  \/ /\ PaymentsOf(l) = {}
              /\ Step(s, saved)
           \/ \E p \in PaymentsOf(l) :
                 IF payments[p].status # "Blocked" \/ RowsOf(l, "CustomerRefund") # {}
                 THEN Step(s, saved)
                 ELSE IF held /\ pending[d] < LatestHold(l, d) THEN Throw(s)
                 ELSE Step(s, [saved EXCEPT
                         !.write = Change(PaymentStatusOf(p), "Refunded")
                                   ++ Change(WalletOf(u), wallet[u] + RefundAmount(payments[p].amount))
                                   ++ (IF held THEN Change(PendingOf(d), pending[d] - LatestHold(l, d))
                                               ELSE NoWrites)
                                   ++ @,
                         !.newLog = RefundRows(l, d, p, tx[s].amount)])

-------------------------------------------------------------------------------
(* SaveChanges, commit, deadlock. *)

\* EF orders the UPDATEs of a batch by table name.
Rank == [table \in {"Bids", "DriverListings", "ListingOffers", "Loads",
                    "PaymentTransactions", "Users"} |->
            CASE table = "Bids" -> 1 [] table = "DriverListings" -> 2
              [] table = "ListingOffers" -> 3 [] table = "Loads" -> 4
              [] table = "PaymentTransactions" -> 5 [] table = "Users" -> 6]

Unwritten(s) == {RowAt(cell) : cell \in DOMAIN tx[s].write} \ tx[s].locks
NextToWrite(s) == {r \in Unwritten(s) : \A q \in Unwritten(s) : Rank[r[1]] =< Rank[q[1]]}

SaveRow(s) ==
    /\ tx[s].pc = "save"
    /\ \E row \in NextToWrite(s) :
          /\ FreeFor(s, row)
          /\ Step(s, [tx[s] EXCEPT !.locks = @ \cup {row}])

\* Inserting a row that refers to the load (a payment, an outbox event, a bid, an
\* offer, but not an audit log row) takes a key-share lock on it, which only the
\* FOR UPDATE of a cancellation keeps out.
Retried == {"CustomerCancel", "AdminCancel"}
RefersToLoad(t) == <<t.newOutbox, t.newPayment, t.newBid, t.newOffer>> # <<<<>>, {}, {}, {}>>
BarredFrom(s) ==
    {row \in {LoadRow(tx[s].load)} : RefersToLoad(tx[s])
        /\ \E t \in Busy \ {s} : tx[t].kind \in Retried /\ row \in tx[t].locks}

\* The value a column has once session s has committed.
Written(s, cell, old) == IF cell \in DOMAIN tx[s].write THEN tx[s].write[cell] ELSE old

\* A table after its updated statuses and the rows the session inserts, at most
\* one, in a primary key not used yet.
Statuses(s, table, name) ==
    [k \in DOMAIN table |->
        LET cell == <<name, k, "Status">>
        IN  IF cell \in DOMAIN tx[s].write THEN [table[k] EXCEPT !.status = tx[s].write[cell]]
            ELSE table[k]]

Inserted(table, new) ==
    IF new = {} THEN {table}
    ELSE {[table EXCEPT ![k] = r] : k \in {k \in DOMAIN table : table[k].status = NoRow}, r \in new}

\* Mutant: the unique index on the refund row is missing.
NoUniqueRefund(s) == FALSE

\* The unique index on a load's customer refund row.
ViolatesUniqueRefund(s) ==
    /\ \E i \in DOMAIN tx[s].newLog : tx[s].newLog[i].type = "CustomerRefund"
    /\ RowsOf(tx[s].load, "CustomerRefund") # {}

Commit(s) ==
    /\ tx[s].pc = "save"
    /\ Unwritten(s) = {}
    /\ BarredFrom(s) = {}
    /\ ~ViolatesUniqueRefund(s)
    /\ loads' = [l \in Loads |-> [status |-> Written(s, LoadStatusOf(l), loads[l].status),
                                  driver |-> Written(s, LoadDriverOf(l), loads[l].driver),
                                  price |-> Written(s, LoadPriceOf(l), loads[l].price)]]
    /\ bids' \in Inserted(Statuses(s, bids, "Bids"), tx[s].newBid)
    /\ offers' \in Inserted(Statuses(s, offers, "ListingOffers"), tx[s].newOffer)
    /\ payments' \in Inserted(Statuses(s, payments, "PaymentTransactions"), tx[s].newPayment)
    /\ listings' = [i \in Listings |-> Written(s, ListingStatusOf(i), listings[i])]
    /\ pending' = [d \in Drivers |-> Written(s, PendingOf(d), pending[d])]
    /\ wallet' = [u \in Users |-> Written(s, WalletOf(u), wallet[u])]
    /\ log' = [l \in Loads |-> IF l = tx[s].load THEN log[l] \o tx[s].newLog ELSE log[l]]
    /\ outbox' = [l \in Loads |-> IF l = tx[s].load THEN outbox[l] \o tx[s].newOutbox ELSE outbox[l]]
    /\ tx' = [tx EXCEPT ![s] = Idle]

RefuseDuplicate(s) ==
    /\ tx[s].pc = "save"
    /\ Unwritten(s) = {}
    /\ ViolatesUniqueRefund(s)
    /\ Throw(s)

\* The rows the current statement of a session may lock next, and who holds them.
Wants(s) ==
    CASE tx[s].pc = "save" -> IF Unwritten(s) = {} THEN BarredFrom(s) ELSE NextToWrite(s)
      [] tx[s].pc = "reject" -> {RowAt(cell) : cell \in tx[s].todo}
      [] tx[s].pc = "lockload" -> {LoadRow(tx[s].load)}
      [] tx[s].pc = "lockpay" -> PaymentRows(tx[s].load)
      [] OTHER -> {}

Waiting(s) == /\ Wants(s) # {}
              /\ \A row \in Wants(s) : ~FreeFor(s, row)

WaitsFor(s) == {t \in Busy \ {s} : Waiting(s) /\ Wants(s) \cap tx[t].locks # {}}

\* Mutant: nobody looks for deadlocks.
NoDeadlockDetection(s) == FALSE

InDeadlock(s) ==
    \E C \in SUBSET Busy :
        /\ s \in C
        /\ \A t \in C : WaitsFor(t) \cap C # {} /\ \E u \in C : t \in WaitsFor(u)

\* The victim of a deadlock is retried by the execution strategy with the same
\* context.  A cancellation starts again from its lock; a request without a
\* transaction of its own repeats its save; every other one finds its own changed
\* copy in the context, fails its status check on it and throws.
SaveRepeated == {"SubmitBid", "CancelBid", "EditLoad", "Arrive", "CreateOffer", "RejectOffer",
                 "WithdrawOffer", "CancelListing", "AdminRelease", "Backfill"}

BreakDeadlock(s) ==
    /\ InDeadlock(s)
    /\ LET again == [tx[s] EXCEPT !.locks = {}, !.retries = @ + 1]
       IN  CASE tx[s].retries = MaxRetryCount -> Throw(s)
             [] tx[s].kind \in Retried -> Step(s, [again EXCEPT !.pc = "lockload"])
             [] tx[s].kind \in SaveRepeated -> Step(s, again)
             [] OTHER -> Throw(s)

-------------------------------------------------------------------------------
SendLoadRequest(s, l) ==
    \/ \E d \in Drivers, amount \in Amounts : SendSubmitBid(s, l, d, amount)
    \/ \E price \in Amounts \ {0} : SendEditLoad(s, l, price)
    \/ SendPickup(s, l) \/ SendArrive(s, l) \/ SendDeliver(s, l) \/ SendBackfill(s, l)
    \/ SendCancel(s, l, "CustomerCancel") \/ SendCancel(s, l, "AdminCancel")

SendListingRequest(s, i) ==
    \/ \E l \in Loads, amount \in Amounts \cup {None} : SendCreateOffer(s, i, l, amount)
    \/ SendCancelListing(s, i) \/ SendAdminCancelListing(s, i)

SendOfferRequest(s, o) ==
    \/ SendAcceptOffer(s, o)
    \/ SendCloseOffer(s, o, "RejectOffer", "Rejected")
    \/ SendCloseOffer(s, o, "WithdrawOffer", "Withdrawn")

SendRequest(s) ==
    \/ \E l \in Loads : SendLoadRequest(s, l)
    \/ \E b \in Bids : SendCancelBid(s, b) \/ SendAcceptBid(s, b)
    \/ \E i \in Listings : SendListingRequest(s, i)
    \/ \E o \in Offers : SendOfferRequest(s, o)
    \/ \E p \in Payments : SendAdminRelease(s, p)

Proceed(s) ==
    \/ RejectOthers(s) \/ RejectRow(s) \/ HoldCheck(s) \/ HoldDriver(s)
    \/ FindBlocked(s) \/ LedgerRelease(s)
    \/ LockLoad(s) \/ CancelRead(s) \/ LockPayments(s) \/ CancelRefund(s)
    \/ SaveRow(s) \/ Commit(s) \/ RefuseDuplicate(s) \/ BreakDeadlock(s)

\* Publishing a load or a listing is a single INSERT that checks nothing.
Publish ==
    /\ \/ \E l \in Loads, price \in Amounts \ {0} : CreateLoad(l, price)
       \/ \E i \in Listings : CreateListing(i)
    /\ UNCHANGED tx

TxNext == Publish \/ \E s \in Sessions : SendRequest(s) \/ Proceed(s)

TxSpec == TxInit /\ [][TxNext]_txVars

\* A session whose next statement can run does run it: the server drops no request.
\* One that waits for a row is not overtaken for ever, for PostgreSQL serves those
\* who wait for a lock in the order they came; hence strong fairness.
TxFairSpec == TxSpec /\ \A s \in Sessions : SF_txVars(Proceed(s))

-------------------------------------------------------------------------------
\* Requests that overlap act as if they had run one after the other: every commit
\* is the whole of one request of Freight, on the tables as they are at that moment.
Atomic == Spec

\* A load has one refund row, at most.
OneRefundRowEach == \A l \in Loads : Cardinality(RowsOf(l, "CustomerRefund")) =< 1

\* What the refund rows of a customer's loads add up to; and no two of his loads have one.
PaidBack(c) ==
    SumOver([l \in Loads |-> Total(l, "CustomerRefund")], {l \in Loads : Owner[l] = c})
OneLoadRefunded(c) ==
    \A l, k \in Loads :
        /\ Owner[l] = c /\ Owner[k] = c
        /\ RowsOf(l, "CustomerRefund") # {} /\ RowsOf(k, "CustomerRefund") # {}
        => l = k

\* The customer of a load is refunded once: however cancellations overlap and are
\* retried there is one refund row, his wallet never holds more than those rows say,
\* and holds exactly that as long as one of his loads was refunded.  (Of two refunds
\* at once for two loads the wallet, read and written back without a lock, may keep
\* one only.)
RefundPaidOnce ==
    /\ OneRefundRowEach
    /\ \A c \in Customers :
          /\ wallet[c] \in 0 .. PaidBack(c)
          /\ OneLoadRefunded(c) => wallet[c] = PaidBack(c)

\* The negative balance guard: no overlap of releases and refunds, none of which
\* locks the driver before it reads him, takes his pending balance below zero.
NeverOverdrawn == \A d \in Drivers : pending[d] >= 0

\* Every request ends: it commits, throws, or is the victim of a deadlock.
RequestsEnd == \A s \in Sessions : (s \in Busy) ~> (s \notin Busy)
===============================================================================
