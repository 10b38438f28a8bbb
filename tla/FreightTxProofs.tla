--------------------------- MODULE FreightTxProofs ----------------------------
(***************************************************************************)
(* Theorems of FreightTx, for any number of requests in flight, whichever  *)
(* of them may overlap and however often one is retried: the tables keep   *)
(* their types, no row is locked twice or changed behind its lock, a load  *)
(* is refunded once and the refund reaches its owner's wallet, and no      *)
(* balance is taken below zero.                                            *)
(***************************************************************************)
EXTENDS FreightTx, FreightProofs, FiniteSetTheorems

\* The platform and the tax office together take less than the whole price.
ModestRates == DriverRate + StopajRate < Scale

-------------------------------------------------------------------------------
(* The invariant: what a session has in store fits the tables as they are. *)

\* The cell is a column of a row that exists, and may take the value.
Fits(cell, value) ==
    \/ \E l \in Loads :
          /\ loads[l].status # NoRow
          /\ \/ cell = LoadStatusOf(l) /\ value \in LoadStatus
             \/ cell = LoadDriverOf(l) /\ value \in Drivers
             \/ cell = LoadPriceOf(l) /\ value \in Amounts
    \/ \E b \in Bids : bids[b].status # NoRow /\ cell = BidStatusOf(b) /\ value \in BidStatus
    \/ \E i \in Listings : listings[i] # NoRow /\ cell = ListingStatusOf(i) /\ value \in ListingStatus
    \/ \E o \in Offers : offers[o].status # NoRow /\ cell = OfferStatusOf(o) /\ value \in OfferStatus
    \/ \E p \in Payments : /\ payments[p].status # NoRow
                           /\ cell = PaymentStatusOf(p) /\ value \in PaymentStatus
    \/ \E d \in Drivers : cell = PendingOf(d) /\ value \in Int /\ (ModestRates => value >= 0)
    \/ \E u \in Users : cell = WalletOf(u) /\ value \in Int

RowExists(row) ==
    \/ \E l \in Loads : row = LoadRow(l) /\ loads[l].status # NoRow
    \/ \E b \in Bids : row = RowAt(BidStatusOf(b)) /\ bids[b].status # NoRow
    \/ \E i \in Listings : row = RowAt(ListingStatusOf(i)) /\ listings[i] # NoRow
    \/ \E o \in Offers : row = RowAt(OfferStatusOf(o)) /\ offers[o].status # NoRow
    \/ \E p \in Payments : row = RowAt(PaymentStatusOf(p)) /\ payments[p].status # NoRow
    \/ \E u \in Users : row = RowAt(WalletOf(u))

\* A session has all its fields.
Whole(t) ==
    t = [pc |-> t.pc, kind |-> t.kind, id |-> t.id, load |-> t.load, driver |-> t.driver,
         amount |-> t.amount, write |-> t.write, newLog |-> t.newLog, newOutbox |-> t.newOutbox,
         newPayment |-> t.newPayment, newBid |-> t.newBid, newOffer |-> t.newOffer,
         locks |-> t.locks, todo |-> t.todo, retries |-> t.retries]

\* What a session is about to change, to insert and to lock.
ChangesFit(w) == \A cell \in DOMAIN w : Fits(cell, w[cell])

OneRefundAmong(rows) == \A i, j \in Refunds(rows) : i = j

RowsFit(t) ==
    /\ t.newLog \in Seq(LogRecord) /\ OneRefundAmong(t.newLog)
    /\ t.newOutbox \in Seq({"PickUp", "Delivery"})
    /\ t.newPayment \subseteq {r \in PaymentRecord : r.status # NoRow}
    /\ t.newBid \subseteq {r \in BidRecord : r.status # NoRow}
    /\ t.newOffer \subseteq {r \in OfferRecord : r.status # NoRow}

LocksFit(t) ==
    /\ \A row \in t.locks : RowExists(row)
    /\ \A cell \in t.todo : Fits(cell, "Rejected")

\* The load, driver and amount a session has read by the time a statement needs them.
Assigns(t) == \/ t.pc \in {"others", "reject"} /\ t.kind # "AdminCancelListing"
              \/ t.pc \in {"hold", "driver"}
WorksOn(t) ==
    /\ t.kind \in Retried => t.load \in Loads /\ loads[t.load].status # NoRow
    /\ t.pc \in {"lockload", "read", "lockpay", "refund"} => t.kind \in Retried
    /\ t.pc \in {"lockpay", "refund"} => t.driver \in Drivers /\ t.amount \in Nat
    /\ Assigns(t) => t.load \in Loads /\ t.driver \in Drivers /\ t.amount \in Nat
    /\ t.pc \in {"blocked", "ledger"} => t.load \in Loads /\ t.driver \in Drivers

GoodSession(t) ==
    /\ Whole(t)
    /\ t.pc # "idle"
    /\ ChangesFit(t.write)
    /\ RowsFit(t)
    /\ LocksFit(t)
    /\ WorksOn(t)

SessionsGood ==
    /\ tx = [s \in Sessions |-> tx[s]]
    /\ \A s \in Sessions : tx[s] = Idle \/ GoodSession(tx[s])

\* No row is locked by two requests.
LocksExclude ==
    \A s, t \in Busy : s # t => tx[s].locks \cap tx[t].locks = {}

TxInv ==
    /\ TypeOK
    /\ ModestRates => NeverOverdrawn
    /\ \A l \in Loads : OneRefundAmong(log[l])
    /\ SessionsGood
    /\ LocksExclude

-------------------------------------------------------------------------------
(* Rates, columns, rows. *)

\* With modest rates a driver is never left with less than nothing of a price.
LEMMA NetIsNatural ==
    ASSUME ModestRates, NEW x \in Nat, NEW corporate \in BOOLEAN
    PROVE  DriverNet(x, corporate) >= 0
<1>. DEFINE Part(rate) == RoundShare(x, rate)
<1>1. ASSUME NEW rate \in Nat
      PROVE  Part(rate) \in Nat /\ Scale * Part(rate) =< x * rate + 5000
  <2>1. x * rate \in Nat
    BY <1>1
  <2>2. PICK n \in Nat : n = x * rate
    BY <2>1
  <2>3. Part(rate) = (n + 5000) \div 10000
    BY <2>2 DEF RoundShare, Scale
  <2>. QED
    BY <2>2, <2>3 DEF Scale
<1>2. /\ Part(DriverRate) \in Nat /\ Scale * Part(DriverRate) =< x * DriverRate + 5000
      /\ Part(StopajRate) \in Nat /\ Scale * Part(StopajRate) =< x * StopajRate + 5000
  BY <1>1, RatesAssumption
<1>3. x * DriverRate + x * StopajRate =< x * 9999
  <2>1. PICK r \in Nat : r = DriverRate + StopajRate /\ r =< 9999
    BY RatesAssumption DEF ModestRates, Scale
  <2>2. x * DriverRate + x * StopajRate = x * r
    BY <2>1, RatesAssumption
  <2>3. x * r =< x * 9999
    BY <2>1
  <2>. QED
    BY <2>2, <2>3
<1>4. Part(DriverRate) + Part(StopajRate) =< x
  <2>1. x * DriverRate \in Int /\ x * StopajRate \in Int
    BY RatesAssumption
  <2>2. PICK a \in Int, b \in Int : a = x * DriverRate /\ b = x * StopajRate
    BY <2>1
  <2>3. PICK m \in Nat, n \in Nat : m = Part(DriverRate) /\ n = Part(StopajRate)
    BY <1>2
  <2>4. /\ 10000 * m =< a + 5000 /\ 10000 * n =< b + 5000 /\ a + b =< 9999 * x
    BY <1>2, <1>3, <2>2, <2>3 DEF Scale
  <2>5. CASE x = 0
    BY <1>2, <2>2, <2>3, <2>4, <2>5, RatesAssumption
  <2>6. CASE x > 0
    BY <2>3, <2>4, <2>6
  <2>. QED
    BY <2>5, <2>6
<1>5. /\ DriverCommission(x) = Part(DriverRate)
      /\ Stopaj(x, corporate) \in {0, Part(StopajRate)}
  BY DEF DriverCommission, Stopaj
<1>. QED
  BY <1>2, <1>4, <1>5 DEF DriverNet

\* What fits a column is of the column's type, and the row exists.
LEMMA FitsColumn ==
    ASSUME NEW cell, NEW value, Fits(cell, value)
    PROVE  /\ \A l \in Loads :
                 /\ cell = LoadStatusOf(l) => loads[l].status # NoRow /\ value \in LoadStatus
                 /\ cell = LoadDriverOf(l) => loads[l].status # NoRow /\ value \in Drivers
                 /\ cell = LoadPriceOf(l) => loads[l].status # NoRow /\ value \in Amounts
           /\ \A b \in Bids : cell = BidStatusOf(b) => bids[b].status # NoRow /\ value \in BidStatus
           /\ \A i \in Listings :
                 cell = ListingStatusOf(i) => listings[i] # NoRow /\ value \in ListingStatus
           /\ \A o \in Offers :
                 cell = OfferStatusOf(o) => offers[o].status # NoRow /\ value \in OfferStatus
           /\ \A p \in Payments :
                 cell = PaymentStatusOf(p) => payments[p].status # NoRow /\ value \in PaymentStatus
           /\ \A d \in Drivers :
                 cell = PendingOf(d) => value \in Int /\ (ModestRates => value >= 0)
           /\ \A u \in Users : cell = WalletOf(u) => value \in Int
           /\ RowExists(RowAt(cell))
<1>. USE DEF LoadStatusOf, LoadDriverOf, LoadPriceOf, BidStatusOf, ListingStatusOf, OfferStatusOf,
             PaymentStatusOf, PendingOf, WalletOf
<1>1. CASE \E l \in Loads :
              /\ loads[l].status # NoRow
              /\ \/ cell = LoadStatusOf(l) /\ value \in LoadStatus
                 \/ cell = LoadDriverOf(l) /\ value \in Drivers
                 \/ cell = LoadPriceOf(l) /\ value \in Amounts
  BY <1>1 DEF RowExists, RowAt, LoadRow
<1>2. CASE \E b \in Bids : bids[b].status # NoRow /\ cell = BidStatusOf(b) /\ value \in BidStatus
  BY <1>2 DEF RowExists, RowAt
<1>3. CASE \E i \in Listings :
              listings[i] # NoRow /\ cell = ListingStatusOf(i) /\ value \in ListingStatus
  BY <1>3 DEF RowExists, RowAt
<1>4. CASE \E o \in Offers :
              offers[o].status # NoRow /\ cell = OfferStatusOf(o) /\ value \in OfferStatus
  BY <1>4 DEF RowExists, RowAt
<1>5. CASE \E p \in Payments : /\ payments[p].status # NoRow
                               /\ cell = PaymentStatusOf(p) /\ value \in PaymentStatus
  BY <1>5 DEF RowExists, RowAt
<1>6. CASE \E d \in Drivers : cell = PendingOf(d) /\ value \in Int /\ (ModestRates => value >= 0)
  BY <1>6 DEF RowExists, RowAt, Users
<1>7. CASE \E u \in Users : cell = WalletOf(u) /\ value \in Int
  BY <1>7 DEF RowExists, RowAt
<1>. QED
  BY <1>1, <1>2, <1>3, <1>4, <1>5, <1>6, <1>7 DEF Fits

\* The rows that are there stay.
RowsStay ==
    /\ \A l \in Loads : loads[l].status # NoRow => loads'[l].status # NoRow
    /\ \A b \in Bids : bids[b].status # NoRow => bids'[b].status # NoRow
    /\ \A i \in Listings : listings[i] # NoRow => listings'[i] # NoRow
    /\ \A o \in Offers : offers[o].status # NoRow => offers'[o].status # NoRow
    /\ \A p \in Payments : payments[p].status # NoRow => payments'[p].status # NoRow

\* What fits the tables fits them as long as rows stay.
LEMMA StillFits ==
    ASSUME RowsStay
    PROVE  /\ \A cell, value : Fits(cell, value) => Fits(cell, value)'
           /\ \A row : RowExists(row) => RowExists(row)'
<1>1. ASSUME NEW cell, NEW value, Fits(cell, value) PROVE Fits(cell, value)'
  BY <1>1 DEF Fits, RowsStay, LoadStatusOf, LoadDriverOf, LoadPriceOf, BidStatusOf, ListingStatusOf,
              OfferStatusOf, PaymentStatusOf, PendingOf, WalletOf, ModestRates
<1>2. ASSUME NEW row, RowExists(row) PROVE RowExists(row)'
  BY <1>2 DEF RowExists, RowsStay, LoadRow, RowAt, LoadStatusOf, BidStatusOf, ListingStatusOf,
              OfferStatusOf, PaymentStatusOf, WalletOf
<1>. QED
  BY <1>1, <1>2

\* So does a whole session.
LEMMA StillGood ==
    ASSUME RowsStay, NEW t, GoodSession(t)
    PROVE  GoodSession(t)'
<1>1. ChangesFit(t.write)'
  BY StillFits DEF GoodSession, ChangesFit
<1>2. LocksFit(t)'
  BY StillFits DEF GoodSession, LocksFit
<1>3. WorksOn(t)'
  BY DEF GoodSession, WorksOn, Assigns, RowsStay
<1>. QED
  BY <1>1, <1>2, <1>3 DEF GoodSession, Whole, RowsFit, OneRefundAmong, Refunds, BidRecord, OfferRecord,
                          PaymentRecord, LogRecord, RowType, Users, NoRow, BidStatus, OfferStatus,
                          PaymentStatus

\* One change, and a change on top of others, fit when their cells do.
LEMMA OneChangeFits ==
    ASSUME NEW cell, NEW value, Fits(cell, value)
    PROVE  ChangesFit(Change(cell, value))
BY DEF ChangesFit, Change

LEMMA MoreChangesFit ==
    ASSUME NEW f, NEW g, ChangesFit(f), ChangesFit(g)
    PROVE  ChangesFit(f ++ g)
BY DEF ChangesFit, ++

LEMMA NoChangesFit == ChangesFit(NoWrites)
BY DEF ChangesFit, NoWrites

-------------------------------------------------------------------------------
(* What every step of a session does. *)

\* The sessions after one of them has moved: the others' locks are what they were.
LEMMA SessionsAfter ==
    ASSUME SessionsGood, LocksExclude, RowsStay, NEW s \in Sessions, NEW t,
           tx' = [tx EXCEPT ![s] = t],
           t = Idle \/ GoodSession(t)',
           t = Idle \/ \A u \in Busy \ {s} : t.locks \cap tx[u].locks = {}
    PROVE  SessionsGood' /\ LocksExclude'
<1>1. /\ tx' = [u \in Sessions |-> IF u = s THEN t ELSE tx[u]]
      /\ tx'[s] = t /\ \A u \in Sessions \ {s} : tx'[u] = tx[u]
  BY DEF SessionsGood
<1>2. tx' = [u \in Sessions |-> tx'[u]]
  BY <1>1
<1>3. ASSUME NEW u \in Sessions, u # s PROVE tx'[u] = Idle \/ GoodSession(tx[u])'
  BY <1>1, <1>3, StillGood DEF SessionsGood
<1>4. Idle' = Idle
  BY DEF Idle
<1>5. SessionsGood'
  <2>1. ASSUME NEW u \in Sessions PROVE (tx[u] = Idle \/ GoodSession(tx[u]))'
    <3>1. CASE u = s
      BY <1>1, <1>4, <3>1 DEF GoodSession, Whole, ChangesFit, RowsFit, LocksFit, WorksOn, Assigns
    <3>2. CASE u # s
      BY <1>1, <1>3, <1>4, <3>2 DEF GoodSession, Whole, ChangesFit, RowsFit, LocksFit, WorksOn, Assigns
    <3>. QED
      BY <3>1, <3>2
  <2>. QED
    BY <1>2, <2>1 DEF SessionsGood
<1>6. LocksExclude'
  <2>. SUFFICES ASSUME NEW u \in Sessions, NEW v \in Sessions, u # v,
                       tx'[u].pc # "idle", tx'[v].pc # "idle"
                PROVE  tx'[u].locks \cap tx'[v].locks = {}
    BY DEF LocksExclude, Busy
  <2>0. Idle.pc = "idle"
    BY DEF Idle
  <2>1. CASE u # s /\ v # s
    BY <1>1, <2>1 DEF LocksExclude, Busy
  <2>2. CASE u = s
    BY <1>1, <2>0, <2>2 DEF Busy
  <2>3. CASE v = s
    BY <1>1, <2>0, <2>3 DEF Busy
  <2>. QED
    BY <2>1, <2>2, <2>3
<1>. QED
  BY <1>5, <1>6

\* A step of one session keeps the invariant as long as its new state is a good one and it has
\* taken no lock of another.
LEMMA StepKeeps ==
    ASSUME TxInv, NEW s \in Sessions, NEW t, Step(s, t),
           t = Idle \/ (GoodSession(t) /\ \A u \in Busy \ {s} : t.locks \cap tx[u].locks = {})
    PROVE  TxInv'
<1>1. UNCHANGED vars /\ tx' = [tx EXCEPT ![s] = t]
  BY DEF Step
<1>2. RowsStay
  BY <1>1 DEF vars, RowsStay
<1>3. t = Idle \/ GoodSession(t)'
  BY <1>2, StillGood
<1>4. SessionsGood' /\ LocksExclude'
  BY <1>1, <1>2, <1>3, SessionsAfter DEF TxInv
<1>5. TypeOK'
  BY <1>1 DEF TxInv, TypeOK, vars
<1>6. (ModestRates => NeverOverdrawn)' /\ (\A l \in Loads : OneRefundAmong(log[l]))'
  BY <1>1 DEF TxInv, vars, NeverOverdrawn, ModestRates, OneRefundAmong, Refunds
<1>. QED
  BY <1>4, <1>5, <1>6 DEF TxInv

\* So does a request that throws, ...
LEMMA ThrowKeeps ==
    ASSUME TxInv, NEW s \in Sessions, Throw(s)
    PROVE  TxInv'
<1>1. Step(s, Idle)
  BY DEF Throw
<1>. QED
  BY <1>1, StepKeeps

\* ... one that is sent, ...
LEMMA SendKeeps ==
    ASSUME TxInv, NEW s \in Sessions, NEW t, Send(s, t), GoodSession(t), t.locks = {}
    PROVE  TxInv'
BY StepKeeps DEF Send, Step

\* ... and a step that takes no lock.
LEMMA WorkKeeps ==
    ASSUME TxInv, NEW s \in Busy, NEW t, Step(s, t), GoodSession(t), t.locks \subseteq tx[s].locks
    PROVE  TxInv'
<1>1. \A u \in Busy \ {s} : t.locks \cap tx[u].locks = {}
  BY DEF TxInv, LocksExclude
<1>. QED
  BY <1>1, StepKeeps DEF Busy

\* A request in its first state: nothing written, inserted or locked yet.
LEMMA NewSession ==
    ASSUME NEW kind, NEW id, NEW pc, NEW l, NEW t, t = Session(kind, id, pc, l)
    PROVE  /\ Whole(t)
           /\ t.pc = pc /\ t.kind = kind /\ t.id = id /\ t.load = l
           /\ t.write = NoWrites /\ t.newLog = <<>> /\ t.newOutbox = <<>>
           /\ t.newPayment = {} /\ t.newBid = {} /\ t.newOffer = {}
           /\ t.locks = {} /\ t.todo = {}
BY DEF Session, Whole

\* A request that inserts and locks nothing yet is good when its changes fit and it works on what
\* it has read.
LEMMA FirstGood ==
    ASSUME NEW t, Whole(t), t.pc # "idle", ChangesFit(t.write), WorksOn(t),
           t.newLog = <<>>, t.newOutbox \in Seq({"PickUp", "Delivery"}),
           t.newPayment = {},
           t.newBid \subseteq {r \in BidRecord : r.status # NoRow},
           t.newOffer \subseteq {r \in OfferRecord : r.status # NoRow},
           t.locks = {}, t.todo = {}
    PROVE  GoodSession(t)
BY RefundsOfNone DEF GoodSession, RowsFit, LocksFit, OneRefundAmong

-------------------------------------------------------------------------------
(* Sending a request. *)

\* A request that has read, checked and changed one column, or one that goes on to reject others.
LEMMA SendChange ==
    ASSUME TxInv, NEW s \in Sessions, NEW kind, NEW id, NEW pc, NEW l, NEW cell, NEW value,
           NEW events \in Seq({"PickUp", "Delivery"}),
           Fits(cell, value), kind \notin Retried,
           pc = "save" \/ (pc = "others" /\ kind = "AdminCancelListing"),
           Send(s, [Session(kind, id, pc, l) EXCEPT !.write = Change(cell, value),
                                                    !.newOutbox = events])
    PROVE  TxInv'
<1>0. PICK first : first = Session(kind, id, pc, l)
  OBVIOUS
<1>9. /\ Whole(first) /\ first.pc = pc /\ first.kind = kind /\ first.load = l
      /\ first.write = NoWrites /\ first.newLog = <<>> /\ first.newOutbox = <<>>
      /\ first.newPayment = {} /\ first.newBid = {} /\ first.newOffer = {}
      /\ first.locks = {} /\ first.todo = {}
  BY <1>0, NewSession
<1>1. PICK t : t = [first EXCEPT !.write = Change(cell, value), !.newOutbox = events]
  OBVIOUS
<1>2. /\ Whole(t)
      /\ t.pc = pc /\ t.kind = kind /\ t.load = l
      /\ t.write = Change(cell, value) /\ t.newLog = <<>> /\ t.newOutbox = events
      /\ t.newPayment = {} /\ t.newBid = {} /\ t.newOffer = {}
      /\ t.locks = {} /\ t.todo = {}
  BY <1>1, <1>9 DEF Whole
<1>3. ChangesFit(t.write)
  BY <1>2, OneChangeFits
<1>4. WorksOn(t)
  BY <1>2 DEF WorksOn, Assigns
<1>5. GoodSession(t)
  BY <1>2, <1>3, <1>4, FirstGood
<1>6. Send(s, t)
  BY <1>0, <1>1
<1>. QED
  BY <1>2, <1>5, <1>6, SendKeeps

\* The same without an event for the ministry.
LEMMA SendPlainChange ==
    ASSUME TxInv, NEW s \in Sessions, NEW kind, NEW id, NEW pc, NEW l, NEW cell, NEW value,
           Fits(cell, value), kind \notin Retried,
           pc = "save" \/ (pc = "others" /\ kind = "AdminCancelListing"),
           Send(s, [Session(kind, id, pc, l) EXCEPT !.write = Change(cell, value)])
    PROVE  TxInv'
<1>0. PICK first : first = Session(kind, id, pc, l)
  OBVIOUS
<1>1. Whole(first) /\ first.newOutbox = <<>>
  BY <1>0, NewSession
<1>2. PICK t, u : /\ t = [first EXCEPT !.write = Change(cell, value)]
                  /\ u = [first EXCEPT !.write = Change(cell, value), !.newOutbox = <<>>]
  OBVIOUS
<1>3. t = u
  BY <1>1, <1>2 DEF Whole
<1>4. Send(s, u)
  BY <1>0, <1>2, <1>3
<1>5. <<>> \in Seq({"PickUp", "Delivery"})
  OBVIOUS
<1>. QED
  BY <1>0, <1>2, <1>4, <1>5, SendChange

LEMMA SendSubmitBidKeeps ==
    ASSUME TxInv, NEW s \in Sessions, NEW l \in Loads, NEW d \in Drivers, NEW amount \in Amounts,
           SendSubmitBid(s, l, d, amount)
    PROVE  TxInv'
<1>. DEFINE bid == [status |-> "Pending", load |-> l, driver |-> d, amount |-> amount]
<1>0. PICK first : first = Session("SubmitBid", <<l, d>>, "save", l)
  OBVIOUS
<1>9. /\ Whole(first) /\ first.pc = "save" /\ first.kind = "SubmitBid" /\ first.load = l
      /\ first.write = NoWrites /\ first.newLog = <<>> /\ first.newOutbox = <<>>
      /\ first.newPayment = {} /\ first.newBid = {} /\ first.newOffer = {}
      /\ first.locks = {} /\ first.todo = {}
  BY <1>0, NewSession
<1>1. PICK t : t = [first EXCEPT !.newBid = {bid}]
  OBVIOUS
<1>2. bid \in BidRecord /\ bid.status # NoRow
  BY DEF BidRecord, BidStatus, NoRow
<1>. HIDE DEF bid
<1>3. /\ Whole(t)
      /\ t.pc = "save" /\ t.kind = "SubmitBid"
      /\ t.write = NoWrites /\ t.newLog = <<>> /\ t.newOutbox = <<>>
      /\ t.newPayment = {} /\ t.newBid = {bid} /\ t.newOffer = {}
      /\ t.locks = {} /\ t.todo = {}
  BY <1>1, <1>9 DEF Whole
<1>4. WorksOn(t)
  BY <1>3 DEF WorksOn, Assigns, Retried
<1>5. t.newOutbox \in Seq({"PickUp", "Delivery"})
  BY <1>3
<1>6. GoodSession(t)
  BY <1>2, <1>3, <1>4, <1>5, NoChangesFit, FirstGood
<1>7. Send(s, t)
  BY <1>0, <1>1 DEF SendSubmitBid, bid
<1>. QED
  BY <1>3, <1>6, <1>7, SendKeeps

LEMMA SendCreateOfferKeeps ==
    ASSUME TxInv, NEW s \in Sessions, NEW i \in Listings, NEW l \in Loads,
           NEW amount \in Amounts \cup {None}, SendCreateOffer(s, i, l, amount)
    PROVE  TxInv'
<1>. DEFINE offer == [status |-> "Pending", listing |-> i, load |-> l, amount |-> amount]
<1>0. PICK first : first = Session("CreateOffer", <<i, l>>, "save", l)
  OBVIOUS
<1>9. /\ Whole(first) /\ first.pc = "save" /\ first.kind = "CreateOffer" /\ first.load = l
      /\ first.write = NoWrites /\ first.newLog = <<>> /\ first.newOutbox = <<>>
      /\ first.newPayment = {} /\ first.newBid = {} /\ first.newOffer = {}
      /\ first.locks = {} /\ first.todo = {}
  BY <1>0, NewSession
<1>1. PICK t : t = [first EXCEPT !.newOffer = {offer}]
  OBVIOUS
<1>2. offer \in OfferRecord /\ offer.status # NoRow
  BY DEF OfferRecord, OfferStatus, NoRow
<1>. HIDE DEF offer
<1>3. /\ Whole(t)
      /\ t.pc = "save" /\ t.kind = "CreateOffer"
      /\ t.write = NoWrites /\ t.newLog = <<>> /\ t.newOutbox = <<>>
      /\ t.newPayment = {} /\ t.newBid = {} /\ t.newOffer = {offer}
      /\ t.locks = {} /\ t.todo = {}
  BY <1>1, <1>9 DEF Whole
<1>4. WorksOn(t)
  BY <1>3 DEF WorksOn, Assigns, Retried
<1>5. t.newOutbox \in Seq({"PickUp", "Delivery"})
  BY <1>3
<1>6. GoodSession(t)
  BY <1>2, <1>3, <1>4, <1>5, NoChangesFit, FirstGood
<1>7. Send(s, t)
  BY <1>0, <1>1 DEF SendCreateOffer, offer
<1>. QED
  BY <1>3, <1>6, <1>7, SendKeeps

\* What the requests that change one column read makes the change fit.
LEMMA ColumnsFit ==
    ASSUME TypeOK
    PROVE  /\ \A b \in Bids, st \in BidStatus :
                 bids[b].status # NoRow => Fits(BidStatusOf(b), st)
           /\ \A o \in Offers, st \in OfferStatus :
                 offers[o].status # NoRow => Fits(OfferStatusOf(o), st)
           /\ \A i \in Listings, st \in ListingStatus :
                 listings[i] # NoRow => Fits(ListingStatusOf(i), st)
           /\ \A p \in Payments, st \in PaymentStatus :
                 payments[p].status # NoRow => Fits(PaymentStatusOf(p), st)
           /\ \A l \in Loads : loads[l].status # NoRow =>
                 /\ \A st \in LoadStatus : Fits(LoadStatusOf(l), st)
                 /\ \A d \in Drivers : Fits(LoadDriverOf(l), d)
                 /\ \A price \in Amounts : Fits(LoadPriceOf(l), price)
           /\ \A d \in Drivers, n \in Int : n >= 0 => Fits(PendingOf(d), n)
           /\ \A u \in Users, n \in Int : Fits(WalletOf(u), n)
<1>1. \A b \in Bids, st \in BidStatus : bids[b].status # NoRow => Fits(BidStatusOf(b), st)
  BY DEF Fits
<1>2. \A o \in Offers, st \in OfferStatus : offers[o].status # NoRow => Fits(OfferStatusOf(o), st)
  BY DEF Fits
<1>3. \A i \in Listings, st \in ListingStatus : listings[i] # NoRow => Fits(ListingStatusOf(i), st)
  BY DEF Fits
<1>4. \A p \in Payments, st \in PaymentStatus :
          payments[p].status # NoRow => Fits(PaymentStatusOf(p), st)
  BY DEF Fits
<1>5. \A l \in Loads : loads[l].status # NoRow =>
          /\ \A st \in LoadStatus : Fits(LoadStatusOf(l), st)
          /\ \A d \in Drivers : Fits(LoadDriverOf(l), d)
          /\ \A price \in Amounts : Fits(LoadPriceOf(l), price)
  BY DEF Fits
<1>6. \A d \in Drivers, n \in Int : n >= 0 => Fits(PendingOf(d), n)
  BY DEF Fits
<1>7. \A u \in Users, n \in Int : Fits(WalletOf(u), n)
  BY DEF Fits
<1>. QED
  BY <1>1, <1>2, <1>3, <1>4, <1>5, <1>6, <1>7

\* The requests of one bid, one load, one offer or one listing that change one column.
LEMMA SendOneColumnKeeps ==
    ASSUME TxInv, NEW s \in Sessions
    PROVE  /\ \A b \in Bids : SendCancelBid(s, b) => TxInv'
           /\ \A l \in Loads, price \in Amounts : SendEditLoad(s, l, price) => TxInv'
           /\ \A l \in Loads : SendPickup(s, l) \/ SendArrive(s, l) => TxInv'
           /\ \A o \in Offers : SendCloseOffer(s, o, "RejectOffer", "Rejected")
                                \/ SendCloseOffer(s, o, "WithdrawOffer", "Withdrawn") => TxInv'
           /\ \A i \in Listings : SendCancelListing(s, i) \/ SendAdminCancelListing(s, i) => TxInv'
<1>. USE DEF NoRow, Retried
<1>0. TypeOK
  BY DEF TxInv
<1>1. ASSUME NEW b \in Bids, SendCancelBid(s, b) PROVE TxInv'
  <2>1. Fits(BidStatusOf(b), "Cancelled")
    BY <1>0, <1>1, ColumnsFit DEF SendCancelBid, BidStatus
  <2>. QED
    BY <1>1, <2>1, SendPlainChange DEF SendCancelBid
<1>2. ASSUME NEW l \in Loads, NEW price \in Amounts, SendEditLoad(s, l, price) PROVE TxInv'
  <2>1. Fits(LoadPriceOf(l), price)
    BY <1>0, <1>2, ColumnsFit DEF SendEditLoad
  <2>. QED
    BY <1>2, <2>1, SendPlainChange DEF SendEditLoad
<1>3. ASSUME NEW l \in Loads, SendPickup(s, l) PROVE TxInv'
  <2>1. Fits(LoadStatusOf(l), "OnWay")
    BY <1>0, <1>3, ColumnsFit DEF SendPickup, LoadStatus
  <2>. DEFINE events == <<"PickUp">>
  <2>2. events \in Seq({"PickUp", "Delivery"})
    OBVIOUS
  <2>3. Send(s, [Session("Pickup", l, "save", l) EXCEPT
                    !.write = Change(LoadStatusOf(l), "OnWay"), !.newOutbox = events])
    BY <1>3 DEF SendPickup
  <2>4. "Pickup" \notin Retried
    OBVIOUS
  <2>. HIDE DEF events
  <2>. QED
    BY <2>1, <2>2, <2>3, <2>4, SendChange
<1>4. ASSUME NEW l \in Loads, SendArrive(s, l) PROVE TxInv'
  <2>1. Fits(LoadStatusOf(l), "Arrived")
    BY <1>0, <1>4, ColumnsFit DEF SendArrive, LoadStatus
  <2>. QED
    BY <1>4, <2>1, SendPlainChange DEF SendArrive
<1>5. ASSUME NEW o \in Offers, NEW kind \in {"RejectOffer", "WithdrawOffer"},
             NEW status \in {"Rejected", "Withdrawn"}, SendCloseOffer(s, o, kind, status)
      PROVE  TxInv'
  <2>1. Fits(OfferStatusOf(o), status)
    BY <1>0, <1>5, ColumnsFit DEF SendCloseOffer, OfferStatus
  <2>. QED
    BY <1>5, <2>1, SendPlainChange DEF SendCloseOffer
<1>6. ASSUME NEW i \in Listings, SendCancelListing(s, i) \/ SendAdminCancelListing(s, i)
      PROVE  TxInv'
  <2>1. Fits(ListingStatusOf(i), "Cancelled")
    BY <1>0, <1>6, ColumnsFit DEF SendCancelListing, SendAdminCancelListing, ListingStatus
  <2>2. CASE SendCancelListing(s, i)
    BY <2>1, <2>2, SendPlainChange DEF SendCancelListing
  <2>3. CASE SendAdminCancelListing(s, i)
    BY <2>1, <2>3, SendPlainChange DEF SendAdminCancelListing
  <2>. QED
    BY <1>6, <2>2, <2>3
<1>. QED
  BY <1>1, <1>2, <1>3, <1>4, <1>5, <1>6

\* A request that assigns a load: it knows the load, the driver and the amount.
LEMMA SendAssignment ==
    ASSUME TxInv, NEW s \in Sessions, NEW kind, NEW id, NEW l \in Loads, NEW d \in Drivers,
           NEW amount \in Nat, NEW w, ChangesFit(w), kind \notin Retried,
           Send(s, [Session(kind, id, "others", l) EXCEPT
                       !.driver = d, !.amount = amount, !.write = w])
    PROVE  TxInv'
<1>1. PICK first : first = Session(kind, id, "others", l)
  OBVIOUS
<1>2. /\ Whole(first) /\ first.pc = "others" /\ first.kind = kind /\ first.load = l
      /\ first.newLog = <<>> /\ first.newOutbox = <<>>
      /\ first.newPayment = {} /\ first.newBid = {} /\ first.newOffer = {}
      /\ first.locks = {} /\ first.todo = {}
  BY <1>1, NewSession
<1>3. PICK t : t = [first EXCEPT !.driver = d, !.amount = amount, !.write = w]
  OBVIOUS
<1>4. /\ Whole(t) /\ t.pc = "others" /\ t.kind = kind /\ t.load = l
      /\ t.driver = d /\ t.amount = amount /\ t.write = w
      /\ t.newLog = <<>> /\ t.newOutbox = <<>>
      /\ t.newPayment = {} /\ t.newBid = {} /\ t.newOffer = {}
      /\ t.locks = {} /\ t.todo = {}
  BY <1>2, <1>3 DEF Whole
<1>5. WorksOn(t)
  BY <1>4 DEF WorksOn, Assigns
<1>6. t.newOutbox \in Seq({"PickUp", "Delivery"})
  BY <1>4
<1>7. GoodSession(t)
  BY <1>4, <1>5, <1>6, FirstGood
<1>8. Send(s, t)
  BY <1>1, <1>3
<1>. QED
  BY <1>4, <1>7, <1>8, SendKeeps

\* The changes that assign a load fit when the load is there.
LEMMA AssignToFits ==
    ASSUME TypeOK, NEW l \in Loads, loads[l].status # NoRow, NEW d \in Drivers
    PROVE  ChangesFit(AssignTo(l, d))
<1>1. Fits(LoadStatusOf(l), "Assigned") /\ Fits(LoadDriverOf(l), d)
  BY ColumnsFit DEF LoadStatus
<1>. QED
  BY <1>1, OneChangeFits, MoreChangesFit DEF AssignTo

LEMMA SendAcceptBidKeeps ==
    ASSUME TxInv, NEW s \in Sessions, NEW b \in Bids, SendAcceptBid(s, b)
    PROVE  TxInv'
<1>. DEFINE l == bids[b].load
            d == bids[b].driver
            w == Change(BidStatusOf(b), "Accepted") ++ AssignTo(l, d)
<1>0. TypeOK
  BY DEF TxInv
<1>1. l \in Loads /\ d \in Drivers /\ bids[b].amount \in Nat /\ loads[l].status # NoRow
      /\ bids[b].status # NoRow
  BY <1>0, PriceType, FreightAssumption DEF SendAcceptBid, NoRow
<1>2. ChangesFit(w)
  <2>1. Fits(BidStatusOf(b), "Accepted")
    BY <1>0, <1>1, ColumnsFit DEF BidStatus
  <2>. QED
    BY <1>0, <1>1, <2>1, OneChangeFits, MoreChangesFit, AssignToFits
<1>3. Send(s, [Session("AcceptBid", b, "others", l) EXCEPT
                  !.driver = d, !.amount = bids[b].amount, !.write = w])
  BY DEF SendAcceptBid
<1>4. "AcceptBid" \notin Retried
  BY DEF Retried
<1>. HIDE DEF l, d, w
<1>. QED
  BY <1>1, <1>2, <1>3, <1>4, SendAssignment

LEMMA SendAcceptOfferKeeps ==
    ASSUME TxInv, NEW s \in Sessions, NEW o \in Offers, SendAcceptOffer(s, o)
    PROVE  TxInv'
<1>. DEFINE i == offers[o].listing
            l == offers[o].load
            d == ListingDriver[i]
            w == Change(OfferStatusOf(o), "Accepted") ++ Change(ListingStatusOf(i), "Matched")
                 ++ AssignTo(l, d)
<1>0. TypeOK
  BY DEF TxInv
<1>1. /\ i \in Listings /\ l \in Loads /\ d \in Drivers /\ OfferedAmount(o) \in Nat
      /\ loads[l].status # NoRow /\ offers[o].status # NoRow /\ listings[i] # NoRow
  BY <1>0, PriceType, FreightAssumption DEF SendAcceptOffer, NoRow
<1>2. ChangesFit(w)
  <2>1. Fits(OfferStatusOf(o), "Accepted") /\ Fits(ListingStatusOf(i), "Matched")
    BY <1>0, <1>1, ColumnsFit DEF OfferStatus, ListingStatus
  <2>. QED
    BY <1>0, <1>1, <2>1, OneChangeFits, MoreChangesFit, AssignToFits
<1>3. Send(s, [Session("AcceptOffer", o, "others", l) EXCEPT
                  !.driver = d, !.amount = OfferedAmount(o), !.write = w])
  BY DEF SendAcceptOffer
<1>4. "AcceptOffer" \notin Retried
  BY DEF Retried
<1>. HIDE DEF i, l, d, w
<1>. QED
  BY <1>1, <1>2, <1>3, <1>4, SendAssignment

LEMMA SendBackfillKeeps ==
    ASSUME TxInv, NEW s \in Sessions, NEW l \in Loads, SendBackfill(s, l)
    PROVE  TxInv'
<1>0. TypeOK
  BY DEF TxInv
<1>1. loads[l].driver \in Drivers /\ BackfillAmount(l) \in Nat
  BY <1>0, PriceType, AcceptedBidAmountType, FreightAssumption
  DEF SendBackfill, EscrowStates, NoRow, BackfillAmount
<1>2. PICK first : first = Session("Backfill", l, "hold", l)
  OBVIOUS
<1>3. /\ Whole(first) /\ first.pc = "hold" /\ first.kind = "Backfill" /\ first.load = l
      /\ first.write = NoWrites /\ first.newLog = <<>> /\ first.newOutbox = <<>>
      /\ first.newPayment = {} /\ first.newBid = {} /\ first.newOffer = {}
      /\ first.locks = {} /\ first.todo = {}
  BY <1>2, NewSession
<1>4. PICK t : t = [first EXCEPT !.driver = loads[l].driver, !.amount = BackfillAmount(l)]
  OBVIOUS
<1>5. /\ Whole(t) /\ t.pc = "hold" /\ t.kind = "Backfill" /\ t.load = l
      /\ t.driver = loads[l].driver /\ t.amount = BackfillAmount(l)
      /\ t.write = NoWrites /\ t.newLog = <<>> /\ t.newOutbox = <<>>
      /\ t.newPayment = {} /\ t.newBid = {} /\ t.newOffer = {}
      /\ t.locks = {} /\ t.todo = {}
  BY <1>3, <1>4 DEF Whole
<1>6. WorksOn(t)
  BY <1>1, <1>5 DEF WorksOn, Assigns, Retried
<1>7. t.newOutbox \in Seq({"PickUp", "Delivery"})
  BY <1>5
<1>8. GoodSession(t)
  BY <1>5, <1>6, <1>7, NoChangesFit, FirstGood
<1>9. Send(s, t)
  BY <1>2, <1>4 DEF SendBackfill
<1>. QED
  BY <1>5, <1>8, <1>9, SendKeeps

LEMMA SendDeliverKeeps ==
    ASSUME TxInv, NEW s \in Sessions, NEW l \in Loads, SendDeliver(s, l)
    PROVE  TxInv'
<1>. DEFINE w == Change(LoadStatusOf(l), "Delivered")
            events == <<"Delivery">>
<1>0. TypeOK
  BY DEF TxInv
<1>1. loads[l].status # NoRow /\ loads[l].driver \in Drivers
  BY <1>0, PriceType DEF SendDeliver, NoRow
<1>2. ChangesFit(w)
  <2>1. Fits(LoadStatusOf(l), "Delivered")
    BY <1>0, <1>1, ColumnsFit DEF LoadStatus
  <2>. QED
    BY <2>1, OneChangeFits
<1>3. Send(s, [Session("Deliver", l, "blocked", l) EXCEPT
                  !.driver = loads[l].driver, !.write = w, !.newOutbox = events])
  BY DEF SendDeliver
<1>4. events \in Seq({"PickUp", "Delivery"})
  OBVIOUS
<1>. HIDE DEF w, events
<1>5. PICK first : first = Session("Deliver", l, "blocked", l)
  OBVIOUS
<1>6. /\ Whole(first) /\ first.pc = "blocked" /\ first.kind = "Deliver" /\ first.load = l
      /\ first.newLog = <<>>
      /\ first.newPayment = {} /\ first.newBid = {} /\ first.newOffer = {}
      /\ first.locks = {} /\ first.todo = {}
  BY <1>5, NewSession
<1>7. PICK t : t = [first EXCEPT !.driver = loads[l].driver, !.write = w, !.newOutbox = events]
  OBVIOUS
<1>8. /\ Whole(t) /\ t.pc = "blocked" /\ t.kind = "Deliver" /\ t.load = l
      /\ t.driver = loads[l].driver /\ t.write = w /\ t.newLog = <<>> /\ t.newOutbox = events
      /\ t.newPayment = {} /\ t.newBid = {} /\ t.newOffer = {}
      /\ t.locks = {} /\ t.todo = {}
  BY <1>6, <1>7 DEF Whole
<1>9. WorksOn(t)
  BY <1>1, <1>8 DEF WorksOn, Assigns, Retried
<1>10. GoodSession(t)
  BY <1>2, <1>4, <1>8, <1>9, FirstGood
<1>11. Send(s, t)
  BY <1>3, <1>5, <1>7
<1>. QED
  BY <1>8, <1>10, <1>11, SendKeeps

LEMMA SendAdminReleaseKeeps ==
    ASSUME TxInv, NEW s \in Sessions, NEW p \in Payments, SendAdminRelease(s, p)
    PROVE  TxInv'
<1>. DEFINE l == payments[p].load
<1>0. TypeOK
  BY DEF TxInv
<1>1. l \in Loads
  BY <1>0 DEF SendAdminRelease, TypeOK, PaymentRecord, NoRow
<1>2. loads[l].driver \in Drivers
  BY <1>0, <1>1 DEF SendAdminRelease, TypeOK, LoadRecord
<1>3. Send(s, [Session("AdminRelease", p, "blocked", l) EXCEPT !.driver = loads[l].driver])
  BY DEF SendAdminRelease
<1>. HIDE DEF l
<1>4. PICK first : first = Session("AdminRelease", p, "blocked", l)
  OBVIOUS
<1>5. /\ Whole(first) /\ first.pc = "blocked" /\ first.kind = "AdminRelease" /\ first.load = l
      /\ first.write = NoWrites /\ first.newLog = <<>> /\ first.newOutbox = <<>>
      /\ first.newPayment = {} /\ first.newBid = {} /\ first.newOffer = {}
      /\ first.locks = {} /\ first.todo = {}
  BY <1>4, NewSession
<1>6. PICK t : t = [first EXCEPT !.driver = loads[l].driver]
  OBVIOUS
<1>7. /\ Whole(t) /\ t.pc = "blocked" /\ t.kind = "AdminRelease" /\ t.load = l
      /\ t.driver = loads[l].driver
      /\ t.write = NoWrites /\ t.newLog = <<>> /\ t.newOutbox = <<>>
      /\ t.newPayment = {} /\ t.newBid = {} /\ t.newOffer = {}
      /\ t.locks = {} /\ t.todo = {}
  BY <1>5, <1>6 DEF Whole
<1>8. WorksOn(t)
  BY <1>1, <1>2, <1>7 DEF WorksOn, Assigns, Retried
<1>9. t.newOutbox \in Seq({"PickUp", "Delivery"})
  BY <1>7
<1>10. GoodSession(t)
  BY <1>7, <1>8, <1>9, NoChangesFit, FirstGood
<1>11. Send(s, t)
  BY <1>3, <1>4, <1>6
<1>. QED
  BY <1>7, <1>10, <1>11, SendKeeps

LEMMA SendCancelKeeps ==
    ASSUME TxInv, NEW s \in Sessions, NEW l \in Loads, NEW kind \in Retried, SendCancel(s, l, kind)
    PROVE  TxInv'
<1>1. PICK t : t = Session(kind, l, "lockload", l)
  OBVIOUS
<1>2. /\ Whole(t) /\ t.pc = "lockload" /\ t.kind = kind /\ t.load = l
      /\ t.write = NoWrites /\ t.newLog = <<>> /\ t.newOutbox = <<>>
      /\ t.newPayment = {} /\ t.newBid = {} /\ t.newOffer = {}
      /\ t.locks = {} /\ t.todo = {}
  BY <1>1, NewSession
<1>3. loads[l].status # NoRow /\ Send(s, t)
  BY <1>1 DEF SendCancel
<1>4. WorksOn(t)
  BY <1>2, <1>3 DEF WorksOn, Assigns
<1>5. t.newOutbox \in Seq({"PickUp", "Delivery"})
  BY <1>2
<1>6. GoodSession(t)
  BY <1>2, <1>4, <1>5, NoChangesFit, FirstGood
<1>. QED
  BY <1>2, <1>3, <1>6, SendKeeps

\* Whatever request is sent, the invariant is kept.
LEMMA SendRequestKeeps ==
    ASSUME TxInv, NEW s \in Sessions, SendRequest(s)
    PROVE  TxInv'
<1>1. ASSUME NEW l \in Loads, SendLoadRequest(s, l) PROVE TxInv'
  <2>1. {"CustomerCancel", "AdminCancel"} \subseteq Retried
    BY DEF Retried
  <2>. QED
    BY <1>1, <2>1, SendSubmitBidKeeps, SendOneColumnKeeps, SendDeliverKeeps, SendBackfillKeeps,
       SendCancelKeeps DEF SendLoadRequest
<1>2. ASSUME NEW b \in Bids, SendCancelBid(s, b) \/ SendAcceptBid(s, b) PROVE TxInv'
  BY <1>2, SendOneColumnKeeps, SendAcceptBidKeeps
<1>3. ASSUME NEW i \in Listings, SendListingRequest(s, i) PROVE TxInv'
  BY <1>3, SendCreateOfferKeeps, SendOneColumnKeeps DEF SendListingRequest
<1>4. ASSUME NEW o \in Offers, SendOfferRequest(s, o) PROVE TxInv'
  BY <1>4, SendAcceptOfferKeeps, SendOneColumnKeeps DEF SendOfferRequest
<1>. QED
  BY <1>1, <1>2, <1>3, <1>4, SendAdminReleaseKeeps DEF SendRequest

-------------------------------------------------------------------------------
(* The steps of a session in flight. *)

\* A session in flight is a good one, and holds its locks alone.
LEMMA BusySession ==
    ASSUME TxInv, NEW s \in Busy
    PROVE  /\ s \in Sessions /\ TypeOK /\ GoodSession(tx[s])
           /\ \A u \in Busy \ {s} : tx[s].locks \cap tx[u].locks = {}
<1>1. s \in Sessions /\ tx[s] # Idle
  BY DEF Busy, Idle
<1>. QED
  BY <1>1 DEF TxInv, SessionsGood, LocksExclude

\* A session that is not in the idle state is in flight.
LEMMA InFlight ==
    ASSUME NEW s \in Sessions, NEW pc, tx[s].pc = pc, pc # "idle"
    PROVE  s \in Busy
BY DEF Busy

\* The rows a bulk rejection matches are pending rows.
LEMMA RivalsFit ==
    ASSUME TypeOK, NEW t, NEW cell \in Rivals(t)
    PROVE  Fits(cell, "Rejected")
<1>1. \/ \E b \in Bids : bids[b].status = "Pending" /\ cell = BidStatusOf(b)
      \/ \E o \in Offers : offers[o].status = "Pending" /\ cell = OfferStatusOf(o)
  BY DEF Rivals, BidsOn, OffersTo
<1>. QED
  BY <1>1, ColumnsFit DEF NoRow, BidStatus, OfferStatus

LEMMA RejectOthersKeeps ==
    ASSUME TxInv, NEW s \in Sessions, RejectOthers(s)
    PROVE  TxInv'
<1>. DEFINE todo == Rivals(tx[s])
            after == IF todo = {} THEN AfterReject(tx[s]) ELSE "reject"
<1>1. tx[s].pc = "others" /\ Step(s, [tx[s] EXCEPT !.todo = todo, !.pc = after])
  BY DEF RejectOthers
<1>2. s \in Busy /\ TypeOK /\ GoodSession(tx[s])
  BY <1>1, InFlight, BusySession
<1>3. after \in {"save", "hold", "reject"} /\ (tx[s].kind = "AdminCancelListing" => after # "hold")
  BY DEF AfterReject
<1>4. \A cell \in todo : Fits(cell, "Rejected")
  BY <1>2, RivalsFit
<1>. HIDE DEF todo, after
<1>5. PICK u : u = tx[s]
  OBVIOUS
<1>6. PICK t : t = [u EXCEPT !.todo = todo, !.pc = after]
  OBVIOUS
<1>7. Whole(u)
  BY <1>2, <1>5 DEF GoodSession
<1>8. /\ Whole(t) /\ t.pc = after /\ t.todo = todo
      /\ t.kind = u.kind /\ t.load = u.load /\ t.driver = u.driver /\ t.amount = u.amount
      /\ t.write = u.write /\ t.newLog = u.newLog /\ t.newOutbox = u.newOutbox
      /\ t.newPayment = u.newPayment /\ t.newBid = u.newBid /\ t.newOffer = u.newOffer
      /\ t.locks = u.locks
  BY <1>6, <1>7 DEF Whole
<1>9. WorksOn(t)
  BY <1>1, <1>2, <1>3, <1>5, <1>8 DEF GoodSession, WorksOn, Assigns
<1>10. GoodSession(t)
  BY <1>2, <1>3, <1>4, <1>5, <1>8, <1>9 DEF GoodSession, RowsFit, LocksFit
<1>11. Step(s, t)
  BY <1>1, <1>5, <1>6
<1>. QED
  BY <1>2, <1>5, <1>8, <1>10, <1>11, WorkKeeps

LEMMA RejectRowKeeps ==
    ASSUME TxInv, NEW s \in Sessions, RejectRow(s)
    PROVE  TxInv'
<1>1. tx[s].pc = "reject"
  BY DEF RejectRow
<1>2. /\ s \in Busy /\ TypeOK /\ GoodSession(tx[s])
      /\ \A v \in Busy \ {s} : tx[s].locks \cap tx[v].locks = {}
  BY <1>1, InFlight, BusySession
<1>3. PICK cell \in tx[s].todo :
         LET rest == tx[s].todo \ {cell}
             next == [tx[s] EXCEPT !.todo = rest,
                                   !.pc = IF rest = {} THEN AfterReject(tx[s]) ELSE "reject"]
         IN  /\ FreeFor(s, RowAt(cell))
             /\ Step(s, IF StillPending(cell)
                        THEN [next EXCEPT !.write = Change(cell, "Rejected") ++ @,
                                          !.locks = @ \cup {RowAt(cell)}]
                        ELSE next)
  BY DEF RejectRow
<1>. DEFINE rest == tx[s].todo \ {cell}
            after == IF rest = {} THEN AfterReject(tx[s]) ELSE "reject"
<1>4. after \in {"save", "hold", "reject"} /\ (tx[s].kind = "AdminCancelListing" => after # "hold")
  BY DEF AfterReject
<1>5. Fits(cell, "Rejected") /\ \A c \in rest : Fits(c, "Rejected")
  BY <1>2 DEF GoodSession, LocksFit
<1>6. PICK u : u = tx[s]
  OBVIOUS
<1>7. PICK next : next = [u EXCEPT !.todo = rest, !.pc = after]
  OBVIOUS
<1>8. /\ FreeFor(s, RowAt(cell))
      /\ Step(s, IF StillPending(cell)
                 THEN [next EXCEPT !.write = Change(cell, "Rejected") ++ @,
                                   !.locks = @ \cup {RowAt(cell)}]
                 ELSE next)
  BY <1>3, <1>6, <1>7
<1>. HIDE DEF rest, after
<1>9. Whole(u)
  BY <1>2, <1>6 DEF GoodSession
<1>10. /\ Whole(next) /\ next.pc = after /\ next.todo = rest
       /\ next.kind = u.kind /\ next.load = u.load /\ next.driver = u.driver /\ next.amount = u.amount
       /\ next.write = u.write /\ next.newLog = u.newLog /\ next.newOutbox = u.newOutbox
       /\ next.newPayment = u.newPayment /\ next.newBid = u.newBid /\ next.newOffer = u.newOffer
       /\ next.locks = u.locks
  BY <1>7, <1>9 DEF Whole
<1>11. WorksOn(next)
  BY <1>1, <1>2, <1>4, <1>6, <1>10 DEF GoodSession, WorksOn, Assigns
<1>12. GoodSession(next)
  BY <1>2, <1>4, <1>5, <1>6, <1>10, <1>11 DEF GoodSession, RowsFit, LocksFit
<1>13. CASE ~StillPending(cell)
  <2>1. Step(s, next)
    BY <1>8, <1>13
  <2>. QED
    BY <1>2, <1>6, <1>10, <1>12, <2>1, WorkKeeps
<1>14. CASE StillPending(cell)
  <2>1. PICK w : w = Change(cell, "Rejected") ++ u.write
    OBVIOUS
  <2>2. PICK locks : locks = u.locks \cup {RowAt(cell)}
    OBVIOUS
  <2>3. PICK t : t = [next EXCEPT !.write = w, !.locks = locks]
    OBVIOUS
  <2>4. Step(s, t)
    BY <1>8, <1>10, <1>14, <2>1, <2>2, <2>3
  <2>5. /\ Whole(t) /\ t.pc = after /\ t.todo = rest /\ t.write = w /\ t.locks = locks
        /\ t.kind = u.kind /\ t.load = u.load /\ t.driver = u.driver /\ t.amount = u.amount
        /\ t.newLog = u.newLog /\ t.newOutbox = u.newOutbox
        /\ t.newPayment = u.newPayment /\ t.newBid = u.newBid /\ t.newOffer = u.newOffer
    BY <1>10, <2>3 DEF Whole
  <2>6. ChangesFit(w)
    BY <1>2, <1>5, <1>6, <2>1, OneChangeFits, MoreChangesFit DEF GoodSession
  <2>7. RowExists(RowAt(cell))
    BY <1>5, FitsColumn
  <2>8. WorksOn(t)
    BY <1>10, <1>11, <2>5 DEF WorksOn, Assigns
  <2>9. GoodSession(t)
    BY <1>2, <1>4, <1>5, <1>6, <2>2, <2>5, <2>6, <2>7, <2>8 DEF GoodSession, RowsFit, LocksFit
  <2>10. \A v \in Busy \ {s} : t.locks \cap tx[v].locks = {}
    BY <1>2, <1>6, <1>8, <2>2, <2>5 DEF FreeFor, Busy
  <2>. QED
    BY <2>4, <2>9, <2>10, StepKeeps
<1>. QED
  BY <1>13, <1>14

LEMMA HoldCheckKeeps ==
    ASSUME TxInv, NEW s \in Sessions, HoldCheck(s)
    PROVE  TxInv'
<1>1. tx[s].pc = "hold"
  BY DEF HoldCheck
<1>2. s \in Busy /\ TypeOK /\ GoodSession(tx[s])
  BY <1>1, InFlight, BusySession
<1>3. CASE BlockedOn(tx[s].load) # {}
  BY <1>3, ThrowKeeps DEF HoldCheck
<1>4. CASE BlockedOn(tx[s].load) = {}
  <2>1. PICK u : u = tx[s]
    OBVIOUS
  <2>2. PICK t : t = [u EXCEPT !.pc = "driver"]
    OBVIOUS
  <2>3. Step(s, t)
    BY <1>4, <2>1, <2>2 DEF HoldCheck
  <2>4. Whole(u)
    BY <1>2, <2>1 DEF GoodSession
  <2>5. /\ Whole(t) /\ t.pc = "driver"
        /\ t.kind = u.kind /\ t.load = u.load /\ t.driver = u.driver /\ t.amount = u.amount
        /\ t.write = u.write /\ t.newLog = u.newLog /\ t.newOutbox = u.newOutbox
        /\ t.newPayment = u.newPayment /\ t.newBid = u.newBid /\ t.newOffer = u.newOffer
        /\ t.locks = u.locks /\ t.todo = u.todo
    BY <2>2, <2>4 DEF Whole
  <2>6. WorksOn(t)
    BY <1>1, <1>2, <2>1, <2>5 DEF GoodSession, WorksOn, Assigns
  <2>7. GoodSession(t)
    BY <1>2, <2>1, <2>5, <2>6 DEF GoodSession, RowsFit, LocksFit
  <2>. QED
    BY <1>2, <2>1, <2>3, <2>5, <2>7, WorkKeeps
<1>. QED
  BY <1>3, <1>4

-------------------------------------------------------------------------------
(* The money. *)

\* A session that has computed what to write and to log, and goes on to save it.
ToSave(u, w, rows) == [u EXCEPT !.pc = "save", !.write = w, !.newLog = rows]

LEMMA ReadyToSave ==
    ASSUME NEW u, GoodSession(u), NEW w, ChangesFit(w), NEW rows, rows \in Seq(LogRecord),
           OneRefundAmong(rows)
    PROVE  GoodSession(ToSave(u, w, rows)) /\ ToSave(u, w, rows).locks = u.locks
<1>0. PICK t : t = [u EXCEPT !.pc = "save", !.write = w, !.newLog = rows]
  OBVIOUS
<1>1. Whole(u)
  BY DEF GoodSession
<1>2. /\ Whole(t) /\ t.pc = "save" /\ t.write = w /\ t.newLog = rows
      /\ t.kind = u.kind /\ t.load = u.load /\ t.driver = u.driver /\ t.amount = u.amount
      /\ t.newOutbox = u.newOutbox
      /\ t.newPayment = u.newPayment /\ t.newBid = u.newBid /\ t.newOffer = u.newOffer
      /\ t.locks = u.locks /\ t.todo = u.todo
  BY <1>0, <1>1 DEF Whole
<1>3. WorksOn(t)
  BY <1>2 DEF GoodSession, WorksOn, Assigns
<1>4. GoodSession(t) /\ t.locks = u.locks
  BY <1>2, <1>3 DEF GoodSession, RowsFit, LocksFit
<1>. QED
  BY <1>0, <1>4 DEF ToSave

\* The rows of a hold, and of a release, are no refund.
LEMMA HoldRowsFit ==
    ASSUME TypeOK, NEW d \in Drivers, NEW amount \in Nat
    PROVE  LET rows == <<Row("Hold", d, DriverNet(amount, Corporate[d])),
                         Row("Fees", d, Fees(amount, Corporate[d]))>>
           IN  rows \in Seq(LogRecord) /\ OneRefundAmong(rows)
<1>. DEFINE a == Row("Hold", d, DriverNet(amount, Corporate[d]))
            b == Row("Fees", d, Fees(amount, Corporate[d]))
<1>1. DriverNet(amount, Corporate[d]) \in Int /\ Fees(amount, Corporate[d]) \in Int
  BY SettlementType, FreightAssumption
<1>2. /\ a \in LogRecord /\ a.type # "CustomerRefund"
      /\ b \in LogRecord /\ b.type # "CustomerRefund"
  BY <1>1 DEF Row, LogRecord, RowType, Users
<1>. HIDE DEF a, b
<1>3. <<a, b>> \in Seq(LogRecord) /\ Refunds(<<a, b>>) = {}
  BY <1>2 DEF Refunds
<1>4. OneRefundAmong(<<a, b>>)
  BY <1>3 DEF OneRefundAmong
<1>. QED
  BY <1>3, <1>4 DEF a, b

LEMMA ReleaseRowFits ==
    ASSUME NEW d \in Drivers, NEW amount \in Int
    PROVE  <<Row("Release", d, amount)>> \in Seq(LogRecord)
           /\ OneRefundAmong(<<Row("Release", d, amount)>>)
<1>1. Row("Release", d, amount) \in LogRecord /\ Row("Release", d, amount).type # "CustomerRefund"
  BY DEF Row, LogRecord, RowType, Users
<1>. QED
  BY <1>1, RefundsOfOne DEF OneRefundAmong

LEMMA HoldDriverKeeps ==
    ASSUME TxInv, NEW s \in Sessions, HoldDriver(s)
    PROVE  TxInv'
<1>1. tx[s].pc = "driver"
  BY DEF HoldDriver
<1>2. s \in Busy /\ TypeOK /\ GoodSession(tx[s])
  BY <1>1, InFlight, BusySession
<1>3. PICK u : u = tx[s]
  OBVIOUS
<1>4. Whole(u) /\ u.load \in Loads /\ u.driver \in Drivers /\ u.amount \in Nat
  BY <1>1, <1>2, <1>3 DEF GoodSession, WorksOn, Assigns
<1>5. PICK d \in Drivers, a \in Nat, l \in Loads : d = u.driver /\ a = u.amount /\ l = u.load
  BY <1>4
<1>. DEFINE net == DriverNet(a, Corporate[d])
            w == Change(PendingOf(d), pending[d] + net) ++ u.write
            payment == [status |-> "Blocked", load |-> l, amount |-> CustomerTotal(a)]
            rows == <<Row("Hold", d, net), Row("Fees", d, Fees(a, Corporate[d]))>>
<1>6. Step(s, [u EXCEPT !.pc = "save", !.write = w, !.newPayment = {payment}, !.newLog = rows])
  BY <1>3, <1>5 DEF HoldDriver
<1>7. rows \in Seq(LogRecord) /\ OneRefundAmong(rows)
  BY <1>2, HoldRowsFit
<1>8. payment \in PaymentRecord /\ payment.status # NoRow
  BY CustomerTotalType DEF PaymentRecord, PaymentStatus, NoRow
<1>9. ChangesFit(w)
  <2>1. net \in Int /\ (ModestRates => net >= 0)
    BY SettlementType, NetIsNatural, FreightAssumption
  <2>2. pending[d] \in Int /\ (ModestRates => pending[d] >= 0)
    BY <1>2 DEF TxInv, NeverOverdrawn, TypeOK
  <2>3. pending[d] + net \in Int /\ (ModestRates => pending[d] + net >= 0)
    BY <2>1, <2>2
  <2>4. Fits(PendingOf(d), pending[d] + net)
    BY <2>3 DEF Fits
  <2>. QED
    BY <1>2, <1>3, <2>4, OneChangeFits, MoreChangesFit DEF GoodSession
<1>. HIDE DEF net, w, payment, rows
<1>10. PICK t : t = [u EXCEPT !.pc = "save", !.write = w, !.newPayment = {payment}, !.newLog = rows]
  OBVIOUS
<1>11. /\ Whole(t) /\ t.pc = "save" /\ t.write = w /\ t.newPayment = {payment} /\ t.newLog = rows
       /\ t.kind = u.kind /\ t.load = u.load /\ t.driver = u.driver /\ t.amount = u.amount
       /\ t.newOutbox = u.newOutbox /\ t.newBid = u.newBid /\ t.newOffer = u.newOffer
       /\ t.locks = u.locks /\ t.todo = u.todo
  BY <1>4, <1>10 DEF Whole
<1>12. WorksOn(t)
  BY <1>2, <1>3, <1>11 DEF GoodSession, WorksOn, Assigns
<1>13. GoodSession(t)
  BY <1>2, <1>3, <1>7, <1>8, <1>9, <1>11, <1>12 DEF GoodSession, RowsFit, LocksFit
<1>14. Step(s, t)
  BY <1>6, <1>10
<1>. QED
  BY <1>2, <1>3, <1>11, <1>13, <1>14, WorkKeeps

LEMMA FindBlockedKeeps ==
    ASSUME TxInv, NEW s \in Sessions, FindBlocked(s)
    PROVE  TxInv'
<1>1. tx[s].pc = "blocked"
  BY DEF FindBlocked
<1>2. s \in Busy /\ TypeOK /\ GoodSession(tx[s])
  BY <1>1, InFlight, BusySession
<1>3. CASE BlockedOn(tx[s].load) = {}
  BY <1>3, ThrowKeeps DEF FindBlocked
<1>4. CASE BlockedOn(tx[s].load) # {}
  <2>1. PICK p \in BlockedOn(tx[s].load) :
           Step(s, [tx[s] EXCEPT !.pc = "ledger",
                                 !.write = Change(PaymentStatusOf(p), "Released") ++ @])
    BY <1>4 DEF FindBlocked
  <2>2. Fits(PaymentStatusOf(p), "Released")
    BY <1>2, ColumnsFit DEF BlockedOn, PaymentsOf, PaymentStatus
  <2>3. PICK u : u = tx[s]
    OBVIOUS
  <2>4. PICK w : w = Change(PaymentStatusOf(p), "Released") ++ u.write
    OBVIOUS
  <2>5. PICK t : t = [u EXCEPT !.pc = "ledger", !.write = w]
    OBVIOUS
  <2>6. Step(s, t)
    BY <2>1, <2>3, <2>4, <2>5
  <2>7. Whole(u)
    BY <1>2, <2>3 DEF GoodSession
  <2>8. /\ Whole(t) /\ t.pc = "ledger" /\ t.write = w
        /\ t.kind = u.kind /\ t.load = u.load /\ t.driver = u.driver /\ t.amount = u.amount
        /\ t.newLog = u.newLog /\ t.newOutbox = u.newOutbox
        /\ t.newPayment = u.newPayment /\ t.newBid = u.newBid /\ t.newOffer = u.newOffer
        /\ t.locks = u.locks /\ t.todo = u.todo
    BY <2>5, <2>7 DEF Whole
  <2>9. ChangesFit(w)
    BY <1>2, <2>2, <2>3, <2>4, OneChangeFits, MoreChangesFit DEF GoodSession
  <2>10. WorksOn(t)
    BY <1>1, <1>2, <2>3, <2>8 DEF GoodSession, WorksOn, Assigns
  <2>11. GoodSession(t)
    BY <1>2, <2>3, <2>8, <2>9, <2>10 DEF GoodSession, RowsFit, LocksFit
  <2>. QED
    BY <1>2, <2>3, <2>6, <2>8, <2>11, WorkKeeps
<1>. QED
  BY <1>3, <1>4

LEMMA LedgerReleaseKeeps ==
    ASSUME TxInv, NEW s \in Sessions, LedgerRelease(s)
    PROVE  TxInv'
<1>1. tx[s].pc = "ledger"
  BY DEF LedgerRelease
<1>2. s \in Busy /\ TypeOK /\ GoodSession(tx[s])
  BY <1>1, InFlight, BusySession
<1>3. PICK u : u = tx[s]
  OBVIOUS
<1>4. u.load \in Loads /\ u.driver \in Drivers
  BY <1>1, <1>2, <1>3 DEF GoodSession, WorksOn
<1>5. PICK l \in Loads, d \in Drivers : l = u.load /\ d = u.driver
  BY <1>4
<1>. DEFINE h == LatestHold(l, d)
            w == Change(PendingOf(d), pending[d] - h) ++ Change(WalletOf(d), wallet[d] + h) ++ u.write
            rows == <<Row("Release", d, h)>>
<1>6. CASE HoldRows(l, d) = {} \/ pending[d] < h
  <2>1. Throw(s)
    BY <1>3, <1>5, <1>6 DEF LedgerRelease
  <2>. QED
    BY <2>1, ThrowKeeps
<1>7. CASE ~(HoldRows(l, d) = {} \/ pending[d] < h)
  <2>1. Step(s, ToSave(u, w, rows))
    BY <1>3, <1>5, <1>7 DEF LedgerRelease, ToSave
  <2>2. h \in Int
    BY <1>2, <1>7, LatestHoldType
  <2>3. rows \in Seq(LogRecord) /\ OneRefundAmong(rows)
    BY <2>2, ReleaseRowFits
  <2>4. ChangesFit(w)
    <3>1. pending[d] \in Int /\ wallet[d] \in Int /\ d \in Users
      BY <1>2 DEF TypeOK, Users
    <3>2. pending[d] - h \in Int /\ pending[d] - h >= 0 /\ wallet[d] + h \in Int
      BY <1>7, <2>2, <3>1
    <3>3. Fits(PendingOf(d), pending[d] - h) /\ Fits(WalletOf(d), wallet[d] + h)
      BY <1>2, <3>1, <3>2, ColumnsFit
    <3>. QED
      BY <1>2, <1>3, <3>3, OneChangeFits, MoreChangesFit DEF GoodSession
  <2>. HIDE DEF h, w, rows
  <2>5. GoodSession(ToSave(u, w, rows)) /\ ToSave(u, w, rows).locks = u.locks
    BY <1>2, <1>3, <2>3, <2>4, ReadyToSave
  <2>. QED
    BY <1>2, <1>3, <2>1, <2>5, WorkKeeps
<1>. QED
  BY <1>6, <1>7

-------------------------------------------------------------------------------
(* Cancelling, saving, deadlock. *)

\* A lock taken on rows that are free is held alone.
LEMMA NewLocksAlone ==
    ASSUME TxInv, NEW s \in Busy, NEW rows, \A row \in rows : FreeFor(s, row), NEW locks,
           locks \subseteq tx[s].locks \cup rows
    PROVE  \A v \in Busy \ {s} : locks \cap tx[v].locks = {}
BY BusySession DEF FreeFor, Busy

LEMMA LockLoadKeeps ==
    ASSUME TxInv, NEW s \in Sessions, LockLoad(s)
    PROVE  TxInv'
<1>1. tx[s].pc = "lockload"
  BY DEF LockLoad
<1>2. s \in Busy /\ TypeOK /\ GoodSession(tx[s])
  BY <1>1, InFlight, BusySession
<1>3. PICK u : u = tx[s]
  OBVIOUS
<1>4. PICK pc \in {"read", "save"} : pc = IF u.write = NoWrites THEN "read" ELSE "save"
  OBVIOUS
<1>5. PICK locks : locks = {LoadRow(u.load)}
  OBVIOUS
<1>6. PICK t : t = [u EXCEPT !.locks = locks, !.pc = pc]
  OBVIOUS
<1>7. Step(s, t)
  BY <1>3, <1>4, <1>5, <1>6 DEF LockLoad
<1>8. Whole(u)
  BY <1>2, <1>3 DEF GoodSession
<1>9. /\ Whole(t) /\ t.pc = pc /\ t.locks = locks
      /\ t.kind = u.kind /\ t.load = u.load /\ t.driver = u.driver /\ t.amount = u.amount
      /\ t.write = u.write /\ t.newLog = u.newLog /\ t.newOutbox = u.newOutbox
      /\ t.newPayment = u.newPayment /\ t.newBid = u.newBid /\ t.newOffer = u.newOffer
      /\ t.todo = u.todo
  BY <1>6, <1>8 DEF Whole
<1>10. u.kind \in Retried /\ u.load \in Loads /\ loads[u.load].status # NoRow
  BY <1>1, <1>2, <1>3 DEF GoodSession, WorksOn
<1>11. WorksOn(t)
  BY <1>9, <1>10 DEF WorksOn, Assigns
<1>12. \A row \in locks : RowExists(row)
  BY <1>5, <1>10 DEF RowExists
<1>13. GoodSession(t)
  BY <1>2, <1>3, <1>9, <1>11, <1>12 DEF GoodSession, RowsFit, LocksFit
<1>14. \A row \in locks : FreeFor(s, row)
  BY <1>3, <1>5 DEF LockLoad
<1>15. \A v \in Busy \ {s} : t.locks \cap tx[v].locks = {}
  BY <1>2, <1>9, <1>14, NewLocksAlone
<1>. QED
  BY <1>7, <1>13, <1>15, StepKeeps

\* The bids a cancellation closes are there.
LEMMA ClosedBidsFit ==
    ASSUME TypeOK, NEW l \in Loads
    PROVE  ChangesFit(ClosedBidWrites(l))
<1>. DEFINE closed == {BidStatusOf(b) : b \in BidsOn(l, "Accepted") \cup BidsOn(l, "Pending")}
<1>1. DOMAIN ClosedBidWrites(l) = closed
  BY DEF ClosedBidWrites
<1>2. ASSUME NEW cell \in closed PROVE Fits(cell, ClosedBidWrites(l)[cell])
  <2>1. PICK b \in BidsOn(l, "Accepted") \cup BidsOn(l, "Pending") : cell = BidStatusOf(b)
    BY <1>2
  <2>2. b \in Bids /\ bids[b].status # NoRow
    BY <2>1 DEF BidsOn, NoRow
  <2>3. ClosedBidWrites(l)[cell] \in {"Cancelled", "Rejected"}
    BY DEF ClosedBidWrites
  <2>. QED
    BY <2>1, <2>2, <2>3, ColumnsFit DEF BidStatus
<1>. QED
  BY <1>1, <1>2 DEF ChangesFit

LEMMA CancelReadKeeps ==
    ASSUME TxInv, NEW s \in Sessions, CancelRead(s)
    PROVE  TxInv'
<1>1. tx[s].pc = "read"
  BY DEF CancelRead
<1>2. s \in Busy /\ TypeOK /\ GoodSession(tx[s])
  BY <1>1, InFlight, BusySession
<1>3. PICK u : u = tx[s]
  OBVIOUS
<1>4. u.kind \in Retried /\ u.load \in Loads /\ loads[u.load].status # NoRow
  BY <1>1, <1>2, <1>3 DEF GoodSession, WorksOn
<1>5. PICK l \in Loads : l = u.load
  BY <1>4
<1>. DEFINE refund == u.kind = "AdminCancel" /\ loads[l].status = "Assigned" /\ loads[l].driver # None
            pc == IF refund THEN "lockpay" ELSE "save"
            w == Change(LoadStatusOf(l), "Cancelled") ++ ClosedBidWrites(l)
            d == loads[l].driver
            a == AcceptedBidAmount(l)
<1>6. \/ Throw(s)
      \/ Step(s, [u EXCEPT !.pc = pc, !.driver = d, !.amount = a, !.write = w])
  BY <1>3, <1>5 DEF CancelRead
<1>7. CASE Throw(s)
  BY <1>7, ThrowKeeps
<1>8. CASE Step(s, [u EXCEPT !.pc = pc, !.driver = d, !.amount = a, !.write = w])
  <2>1. ChangesFit(w)
    <3>1. Fits(LoadStatusOf(l), "Cancelled")
      BY <1>2, <1>4, <1>5, ColumnsFit DEF LoadStatus
    <3>. QED
      BY <1>2, <3>1, OneChangeFits, MoreChangesFit, ClosedBidsFit
  <2>2. a \in Nat
    BY <1>2, AcceptedBidAmountType, FreightAssumption
  <2>3. pc \in {"lockpay", "save"} /\ (pc = "lockpay" => d \in Drivers)
    BY <1>2, <1>4, <1>5, PriceType
  <2>. HIDE DEF refund, pc, w, d, a
  <2>4. PICK t : t = [u EXCEPT !.pc = pc, !.driver = d, !.amount = a, !.write = w]
    OBVIOUS
  <2>5. Step(s, t)
    BY <1>8, <2>4
  <2>6. Whole(u)
    BY <1>2, <1>3 DEF GoodSession
  <2>7. /\ Whole(t) /\ t.pc = pc /\ t.driver = d /\ t.amount = a /\ t.write = w
        /\ t.kind = u.kind /\ t.load = u.load
        /\ t.newLog = u.newLog /\ t.newOutbox = u.newOutbox
        /\ t.newPayment = u.newPayment /\ t.newBid = u.newBid /\ t.newOffer = u.newOffer
        /\ t.locks = u.locks /\ t.todo = u.todo
    BY <2>4, <2>6 DEF Whole
  <2>8. WorksOn(t)
    BY <1>4, <2>2, <2>3, <2>7 DEF WorksOn, Assigns
  <2>9. GoodSession(t)
    BY <1>2, <1>3, <2>1, <2>3, <2>7, <2>8 DEF GoodSession, RowsFit, LocksFit
  <2>. QED
    BY <1>2, <1>3, <2>5, <2>7, <2>9, WorkKeeps
<1>. QED
  BY <1>6, <1>7, <1>8

LEMMA LockPaymentsKeeps ==
    ASSUME TxInv, NEW s \in Sessions, LockPayments(s)
    PROVE  TxInv'
<1>1. tx[s].pc = "lockpay"
  BY DEF LockPayments
<1>2. s \in Busy /\ TypeOK /\ GoodSession(tx[s])
  BY <1>1, InFlight, BusySession
<1>3. PICK u : u = tx[s]
  OBVIOUS
<1>4. PICK rows : rows = PaymentRows(u.load)
  OBVIOUS
<1>5. PICK locks : locks = u.locks \cup rows
  OBVIOUS
<1>6. PICK t : t = [u EXCEPT !.pc = "refund", !.locks = locks]
  OBVIOUS
<1>7. Step(s, t) /\ \A row \in rows : FreeFor(s, row)
  BY <1>3, <1>4, <1>5, <1>6 DEF LockPayments
<1>8. Whole(u)
  BY <1>2, <1>3 DEF GoodSession
<1>9. /\ Whole(t) /\ t.pc = "refund" /\ t.locks = locks
      /\ t.kind = u.kind /\ t.load = u.load /\ t.driver = u.driver /\ t.amount = u.amount
      /\ t.write = u.write /\ t.newLog = u.newLog /\ t.newOutbox = u.newOutbox
      /\ t.newPayment = u.newPayment /\ t.newBid = u.newBid /\ t.newOffer = u.newOffer
      /\ t.todo = u.todo
  BY <1>6, <1>8 DEF Whole
<1>10. WorksOn(t)
  BY <1>1, <1>2, <1>3, <1>9 DEF GoodSession, WorksOn, Assigns
<1>11. \A row \in rows : RowExists(row)
  BY <1>4 DEF PaymentRows, PaymentsOf, RowExists
<1>12. \A row \in locks : RowExists(row)
  BY <1>2, <1>3, <1>5, <1>11 DEF GoodSession, LocksFit
<1>13. GoodSession(t)
  BY <1>2, <1>3, <1>9, <1>10, <1>12 DEF GoodSession, RowsFit, LocksFit
<1>14. \A v \in Busy \ {s} : t.locks \cap tx[v].locks = {}
  BY <1>2, <1>3, <1>5, <1>7, <1>9, NewLocksAlone
<1>. QED
  BY <1>7, <1>13, <1>14, StepKeeps

\* A session that goes on to save what it has.
LEMMA SavesNow ==
    ASSUME NEW u, GoodSession(u), NEW t, t = [u EXCEPT !.pc = "save"]
    PROVE  GoodSession(t) /\ t.locks = u.locks /\ t.write = u.write
<1>1. Whole(u)
  BY DEF GoodSession
<1>2. /\ Whole(t) /\ t.pc = "save"
      /\ t.kind = u.kind /\ t.load = u.load /\ t.driver = u.driver /\ t.amount = u.amount
      /\ t.write = u.write /\ t.newLog = u.newLog /\ t.newOutbox = u.newOutbox
      /\ t.newPayment = u.newPayment /\ t.newBid = u.newBid /\ t.newOffer = u.newOffer
      /\ t.locks = u.locks /\ t.todo = u.todo
  BY <1>1 DEF Whole
<1>3. WorksOn(t)
  BY <1>2 DEF GoodSession, WorksOn, Assigns
<1>. QED
  BY <1>2, <1>3 DEF GoodSession, RowsFit, LocksFit

LEMMA CancelRefundKeeps ==
    ASSUME TxInv, NEW s \in Sessions, CancelRefund(s)
    PROVE  TxInv'
<1>1. tx[s].pc = "refund"
  BY DEF CancelRefund
<1>2. s \in Busy /\ TypeOK /\ GoodSession(tx[s])
  BY <1>1, InFlight, BusySession
<1>3. PICK u : u = tx[s]
  OBVIOUS
<1>4. u.load \in Loads /\ u.driver \in Drivers /\ u.amount \in Nat
  BY <1>1, <1>2, <1>3 DEF GoodSession, WorksOn
<1>5. PICK l \in Loads, d \in Drivers, a \in Nat : l = u.load /\ d = u.driver /\ a = u.amount
  BY <1>4
<1>6. PICK saved : saved = [u EXCEPT !.pc = "save"]
  OBVIOUS
<1>7. GoodSession(saved) /\ saved.locks = u.locks
  BY <1>2, <1>3, <1>6, SavesNow
<1>. DEFINE held == HoldRows(l, d) # {}
            h == LatestHold(l, d)
            back == IF held THEN Change(PendingOf(d), pending[d] - h) ELSE NoWrites
            w(p) == Change(PaymentStatusOf(p), "Refunded")
                    ++ Change(WalletOf(Owner[l]), wallet[Owner[l]] + RefundAmount(payments[p].amount))
                    ++ back ++ saved.write
            rows(p) == RefundRows(l, d, p, a)
<1>8. \/ Step(s, saved)
      \/ Throw(s)
      \/ \E p \in PaymentsOf(l) :
            /\ ~(held /\ pending[d] < h)
            /\ Step(s, [saved EXCEPT !.write = w(p), !.newLog = rows(p)])
  BY <1>3, <1>5, <1>6 DEF CancelRefund
<1>9. CASE Step(s, saved)
  BY <1>2, <1>3, <1>7, <1>9, WorkKeeps
<1>10. CASE Throw(s)
  BY <1>10, ThrowKeeps
<1>11. ASSUME NEW p \in PaymentsOf(l), ~(held /\ pending[d] < h),
              Step(s, [saved EXCEPT !.write = w(p), !.newLog = rows(p)])
       PROVE  TxInv'
  <2>1. p \in Payments /\ payments[p].status # NoRow /\ payments[p].amount \in Int
    BY <1>2, <1>11 DEF PaymentsOf, TypeOK, PaymentRecord
  <2>2. rows(p) \in Seq(LogRecord) /\ OneRefundAmong(rows(p))
    <3>1. rows(p) \in Seq(LogRecord) /\ OneRefund(rows(p), RefundAmount(payments[p].amount))
      BY <1>2, OneRefundRow
    <3>. QED
      BY <3>1 DEF OneRefund, OneRefundAmong
  <2>3. ChangesFit(Change(PaymentStatusOf(p), "Refunded"))
    BY <1>2, <2>1, ColumnsFit, OneChangeFits DEF PaymentStatus
  <2>4. ChangesFit(Change(WalletOf(Owner[l]), wallet[Owner[l]] + RefundAmount(payments[p].amount)))
    <3>1. Owner[l] \in Users
      BY FreightAssumption DEF Users
    <3>2. wallet[Owner[l]] \in Int /\ RefundAmount(payments[p].amount) \in Int
      BY <1>2, <2>1, <3>1, SettlementType DEF TypeOK
    <3>3. Fits(WalletOf(Owner[l]), wallet[Owner[l]] + RefundAmount(payments[p].amount))
      BY <1>2, <3>1, <3>2, ColumnsFit
    <3>. QED
      BY <3>3, OneChangeFits
  <2>5. ChangesFit(back)
    <3>1. CASE ~held
      BY <3>1, NoChangesFit
    <3>2. CASE held
      <4>1. pending[d] \in Int /\ h \in Int
        BY <1>2, <3>2, LatestHoldType DEF TypeOK
      <4>2. pending[d] - h \in Int /\ pending[d] - h >= 0
        BY <1>11, <3>2, <4>1
      <4>3. Fits(PendingOf(d), pending[d] - h)
        BY <1>2, <4>2, ColumnsFit
      <4>. QED
        BY <3>2, <4>3, OneChangeFits
    <3>. QED
      BY <3>1, <3>2
  <2>6. ChangesFit(saved.write)
    BY <1>7 DEF GoodSession
  <2>. HIDE DEF back
  <2>7. ChangesFit(w(p))
    BY <2>3, <2>4, <2>5, <2>6, MoreChangesFit
  <2>. HIDE DEF w, rows
  <2>8. [saved EXCEPT !.write = w(p), !.newLog = rows(p)] = ToSave(u, w(p), rows(p))
    <3>1. PICK changes, added : changes = w(p) /\ added = rows(p)
      OBVIOUS
    <3>2. Whole(u)
      BY <1>2, <1>3 DEF GoodSession
    <3>3. PICK x, y : /\ x = [saved EXCEPT !.write = changes, !.newLog = added]
                      /\ y = [u EXCEPT !.pc = "save", !.write = changes, !.newLog = added]
      OBVIOUS
    <3>4. x = y
      BY <1>6, <3>2, <3>3 DEF Whole
    <3>. QED
      BY <3>1, <3>3, <3>4 DEF ToSave
  <2>9. GoodSession(ToSave(u, w(p), rows(p))) /\ ToSave(u, w(p), rows(p)).locks = u.locks
    BY <1>2, <1>3, <2>2, <2>7, ReadyToSave
  <2>. QED
    BY <1>2, <1>3, <1>11, <2>8, <2>9, WorkKeeps
<1>. QED
  BY <1>8, <1>9, <1>10, <1>11

LEMMA SaveRowKeeps ==
    ASSUME TxInv, NEW s \in Sessions, SaveRow(s)
    PROVE  TxInv'
<1>1. tx[s].pc = "save"
  BY DEF SaveRow
<1>2. s \in Busy /\ TypeOK /\ GoodSession(tx[s])
  BY <1>1, InFlight, BusySession
<1>3. PICK row \in NextToWrite(s) :
         FreeFor(s, row) /\ Step(s, [tx[s] EXCEPT !.locks = @ \cup {row}])
  BY DEF SaveRow
<1>4. PICK u : u = tx[s]
  OBVIOUS
<1>5. PICK locks : locks = u.locks \cup {row}
  OBVIOUS
<1>6. PICK t : t = [u EXCEPT !.locks = locks]
  OBVIOUS
<1>7. Step(s, t)
  BY <1>3, <1>4, <1>5, <1>6
<1>8. Whole(u)
  BY <1>2, <1>4 DEF GoodSession
<1>9. /\ Whole(t) /\ t.pc = u.pc /\ t.locks = locks
      /\ t.kind = u.kind /\ t.load = u.load /\ t.driver = u.driver /\ t.amount = u.amount
      /\ t.write = u.write /\ t.newLog = u.newLog /\ t.newOutbox = u.newOutbox
      /\ t.newPayment = u.newPayment /\ t.newBid = u.newBid /\ t.newOffer = u.newOffer
      /\ t.todo = u.todo
  BY <1>6, <1>8 DEF Whole
<1>10. WorksOn(t)
  BY <1>2, <1>4, <1>9 DEF GoodSession, WorksOn, Assigns
<1>11. RowExists(row)
  BY <1>2, <1>3, FitsColumn DEF NextToWrite, Unwritten, GoodSession, ChangesFit
<1>12. GoodSession(t)
  BY <1>2, <1>4, <1>5, <1>9, <1>10, <1>11 DEF GoodSession, RowsFit, LocksFit
<1>13. \A v \in Busy \ {s} : t.locks \cap tx[v].locks = {}
  <2>1. PICK rows : rows = {row}
    OBVIOUS
  <2>2. \A r \in rows : FreeFor(s, r)
    BY <1>3, <2>1
  <2>3. locks \subseteq tx[s].locks \cup rows
    BY <1>4, <1>5, <2>1
  <2>. QED
    BY <1>2, <1>9, <2>2, <2>3, NewLocksAlone
<1>. QED
  BY <1>7, <1>12, <1>13, StepKeeps

LEMMA BreakDeadlockKeeps ==
    ASSUME TxInv, NEW s \in Sessions, BreakDeadlock(s)
    PROVE  TxInv'
<1>1. s \in Busy
  BY DEF BreakDeadlock, InDeadlock
<1>2. GoodSession(tx[s])
  BY <1>1, BusySession
<1>3. PICK u : u = tx[s]
  OBVIOUS
<1>4. PICK retries : retries = u.retries + 1
  OBVIOUS
<1>5. PICK again : again = [u EXCEPT !.locks = {}, !.retries = retries]
  OBVIOUS
<1>6. \/ Throw(s)
      \/ u.kind \in Retried /\ Step(s, [again EXCEPT !.pc = "lockload"])
      \/ Step(s, again)
  BY <1>3, <1>4, <1>5 DEF BreakDeadlock
<1>7. Whole(u)
  BY <1>2, <1>3 DEF GoodSession
<1>8. /\ Whole(again) /\ again.pc = u.pc /\ again.locks = {}
      /\ again.kind = u.kind /\ again.load = u.load /\ again.driver = u.driver
      /\ again.amount = u.amount
      /\ again.write = u.write /\ again.newLog = u.newLog /\ again.newOutbox = u.newOutbox
      /\ again.newPayment = u.newPayment /\ again.newBid = u.newBid /\ again.newOffer = u.newOffer
      /\ again.todo = u.todo
  BY <1>5, <1>7 DEF Whole
<1>9. WorksOn(again)
  BY <1>2, <1>3, <1>8 DEF GoodSession, WorksOn, Assigns
<1>10. GoodSession(again)
  BY <1>2, <1>3, <1>8, <1>9 DEF GoodSession, RowsFit, LocksFit
<1>11. CASE Step(s, again)
  BY <1>1, <1>8, <1>10, <1>11, WorkKeeps
<1>12. CASE u.kind \in Retried /\ Step(s, [again EXCEPT !.pc = "lockload"])
  <2>1. PICK t : t = [again EXCEPT !.pc = "lockload"]
    OBVIOUS
  <2>2. /\ Whole(t) /\ t.pc = "lockload" /\ t.locks = {}
        /\ t.kind = u.kind /\ t.load = u.load /\ t.driver = u.driver /\ t.amount = u.amount
        /\ t.write = u.write /\ t.newLog = u.newLog /\ t.newOutbox = u.newOutbox
        /\ t.newPayment = u.newPayment /\ t.newBid = u.newBid /\ t.newOffer = u.newOffer
        /\ t.todo = u.todo
    BY <1>8, <2>1 DEF Whole
  <2>3. WorksOn(t)
    BY <1>2, <1>3, <1>12, <2>2 DEF GoodSession, WorksOn, Assigns
  <2>4. GoodSession(t)
    BY <1>2, <1>3, <2>2, <2>3 DEF GoodSession, RowsFit, LocksFit
  <2>5. Step(s, t)
    BY <1>12, <2>1
  <2>. QED
    BY <1>1, <2>2, <2>4, <2>5, WorkKeeps
<1>. QED
  BY <1>6, <1>11, <1>12, ThrowKeeps

-------------------------------------------------------------------------------
(* Committing. *)

\* What a session writes to the columns, by the kind of column.
LEMMA WritesFit ==
    ASSUME TxInv, NEW s \in Busy
    PROVE  /\ \A l \in Loads :
                 /\ LoadStatusOf(l) \in DOMAIN tx[s].write =>
                       loads[l].status # NoRow /\ tx[s].write[LoadStatusOf(l)] \in LoadStatus
                 /\ LoadDriverOf(l) \in DOMAIN tx[s].write =>
                       loads[l].status # NoRow /\ tx[s].write[LoadDriverOf(l)] \in Drivers
                 /\ LoadPriceOf(l) \in DOMAIN tx[s].write =>
                       loads[l].status # NoRow /\ tx[s].write[LoadPriceOf(l)] \in Amounts
           /\ \A b \in Bids : BidStatusOf(b) \in DOMAIN tx[s].write =>
                 bids[b].status # NoRow /\ tx[s].write[BidStatusOf(b)] \in BidStatus
           /\ \A i \in Listings : ListingStatusOf(i) \in DOMAIN tx[s].write =>
                 listings[i] # NoRow /\ tx[s].write[ListingStatusOf(i)] \in ListingStatus
           /\ \A o \in Offers : OfferStatusOf(o) \in DOMAIN tx[s].write =>
                 offers[o].status # NoRow /\ tx[s].write[OfferStatusOf(o)] \in OfferStatus
           /\ \A p \in Payments : PaymentStatusOf(p) \in DOMAIN tx[s].write =>
                 payments[p].status # NoRow /\ tx[s].write[PaymentStatusOf(p)] \in PaymentStatus
           /\ \A d \in Drivers : PendingOf(d) \in DOMAIN tx[s].write =>
                 /\ tx[s].write[PendingOf(d)] \in Int
                 /\ ModestRates => tx[s].write[PendingOf(d)] >= 0
           /\ \A u \in Users : WalletOf(u) \in DOMAIN tx[s].write => tx[s].write[WalletOf(u)] \in Int
<1>1. \A cell \in DOMAIN tx[s].write : Fits(cell, tx[s].write[cell])
  BY BusySession DEF GoodSession, ChangesFit
<1>. QED
  BY <1>1, FitsColumn

\* Inserting puts a new row, at most one, where there was none, and leaves the others alone.
LEMMA InsertedRows ==
    ASSUME NEW table, table = [k \in DOMAIN table |-> table[k]],
           NEW new, NEW result, result \in Inserted(table, new)
    PROVE  /\ result = [k \in DOMAIN table |-> result[k]]
           /\ \A k \in DOMAIN table :
                 \/ result[k] = table[k]
                 \/ table[k].status = NoRow /\ result[k] \in new
<1>1. CASE new = {}
  BY <1>1 DEF Inserted
<1>2. CASE new # {}
  <2>1. PICK k \in {k \in DOMAIN table : table[k].status = NoRow}, r \in new :
           result = [table EXCEPT ![k] = r]
    BY <1>2 DEF Inserted
  <2>. QED
    BY <2>1
<1>. QED
  BY <1>1, <1>2

\* A row whose status is written stays the row it was otherwise.
LEMMA CommittedLoads ==
    ASSUME TxInv, NEW s \in Busy, Commit(s)
    PROVE  /\ loads' \in [Loads -> LoadRecord]
           /\ \A l \in Loads : loads[l].status # NoRow => loads'[l].status # NoRow
<1>1. \A l \in Loads : loads[l] \in LoadRecord
  BY DEF TxInv, TypeOK
<1>2. loads' = [l \in Loads |-> [status |-> Written(s, LoadStatusOf(l), loads[l].status),
                                 driver |-> Written(s, LoadDriverOf(l), loads[l].driver),
                                 price |-> Written(s, LoadPriceOf(l), loads[l].price)]]
  BY DEF Commit
<1>3. ASSUME NEW l \in Loads
      PROVE  /\ loads'[l] \in LoadRecord
             /\ loads[l].status # NoRow => loads'[l].status # NoRow
  <2>1. loads'[l] = [status |-> Written(s, LoadStatusOf(l), loads[l].status),
                     driver |-> Written(s, LoadDriverOf(l), loads[l].driver),
                     price |-> Written(s, LoadPriceOf(l), loads[l].price)]
    BY <1>2
  <2>2. CASE loads[l].status = NoRow
    <3>1. /\ Written(s, LoadStatusOf(l), loads[l].status) = NoRow
          /\ Written(s, LoadDriverOf(l), loads[l].driver) = None
          /\ Written(s, LoadPriceOf(l), loads[l].price) = None
      BY <1>1, <2>2, WritesFit DEF Written, LoadRecord, LoadStatus, NoRow
    <3>. QED
      BY <2>1, <2>2, <3>1 DEF LoadRecord
  <2>3. CASE loads[l].status # NoRow
    <3>1. /\ loads[l].status \in LoadStatus /\ loads[l].driver \in Drivers \cup {None}
          /\ loads[l].price \in Amounts
      BY <1>1, <2>3 DEF LoadRecord
    <3>2. /\ Written(s, LoadStatusOf(l), loads[l].status) \in LoadStatus
          /\ Written(s, LoadDriverOf(l), loads[l].driver) \in Drivers \cup {None}
          /\ Written(s, LoadPriceOf(l), loads[l].price) \in Amounts
      BY <3>1, WritesFit DEF Written
    <3>. QED
      BY <2>1, <3>2 DEF LoadRecord, LoadStatus, NoRow
  <2>. QED
    BY <2>2, <2>3
<1>. QED
  BY <1>2, <1>3

LEMMA CommittedBids ==
    ASSUME TxInv, NEW s \in Busy, Commit(s)
    PROVE  /\ bids' \in [Bids -> BidRecord]
           /\ \A b \in Bids : bids[b].status # NoRow => bids'[b].status # NoRow
<1>. DEFINE table == Statuses(s, bids, "Bids")
<1>1. bids \in [Bids -> BidRecord]
  BY DEF TxInv, TypeOK
<1>2. ASSUME NEW b \in Bids
      PROVE  table[b] \in BidRecord /\ (bids[b].status # NoRow => table[b].status # NoRow)
  <2>1. table[b] = IF BidStatusOf(b) \in DOMAIN tx[s].write
                   THEN [bids[b] EXCEPT !.status = tx[s].write[BidStatusOf(b)]] ELSE bids[b]
    BY <1>1 DEF Statuses, BidStatusOf
  <2>2. CASE BidStatusOf(b) \in DOMAIN tx[s].write
    <3>1. PICK st \in BidStatus : st = tx[s].write[BidStatusOf(b)]
      BY <2>2, WritesFit
    <3>2. bids[b].status # NoRow /\ bids[b] \in BidRecord
      BY <1>1, <2>2, WritesFit
    <3>3. [bids[b] EXCEPT !.status = st] \in BidRecord /\ [bids[b] EXCEPT !.status = st].status = st
      BY <3>2, StatusUpdates DEF BidRecord
    <3>. QED
      BY <2>1, <2>2, <3>1, <3>3 DEF BidStatus, NoRow
  <2>3. CASE BidStatusOf(b) \notin DOMAIN tx[s].write
    BY <1>1, <2>1, <2>3
  <2>. QED
    BY <2>2, <2>3
<1>3. table = [b \in Bids |-> table[b]]
  BY <1>1 DEF Statuses
<1>4. bids' \in Inserted(table, tx[s].newBid)
  BY DEF Commit
<1>5. \A r \in tx[s].newBid : r \in BidRecord /\ r.status # NoRow
  BY BusySession DEF GoodSession, RowsFit
<1>. HIDE DEF table
<1>6. table \in [Bids -> BidRecord]
  BY <1>2, <1>3
<1>7. DOMAIN table = Bids /\ table = [b \in DOMAIN table |-> table[b]]
  BY <1>6
<1>8. /\ bids' = [b \in Bids |-> bids'[b]]
      /\ \A b \in Bids :
            \/ bids'[b] = table[b]
            \/ table[b].status = NoRow /\ bids'[b] \in tx[s].newBid
  BY <1>4, <1>7, InsertedRows
<1>. QED
  BY <1>2, <1>5, <1>6, <1>8

LEMMA CommittedOffers ==
    ASSUME TxInv, NEW s \in Busy, Commit(s)
    PROVE  /\ offers' \in [Offers -> OfferRecord]
           /\ \A o \in Offers : offers[o].status # NoRow => offers'[o].status # NoRow
<1>. DEFINE table == Statuses(s, offers, "ListingOffers")
<1>1. offers \in [Offers -> OfferRecord]
  BY DEF TxInv, TypeOK
<1>2. ASSUME NEW o \in Offers
      PROVE  table[o] \in OfferRecord /\ (offers[o].status # NoRow => table[o].status # NoRow)
  <2>1. table[o] = IF OfferStatusOf(o) \in DOMAIN tx[s].write
                   THEN [offers[o] EXCEPT !.status = tx[s].write[OfferStatusOf(o)]] ELSE offers[o]
    BY <1>1 DEF Statuses, OfferStatusOf
  <2>2. CASE OfferStatusOf(o) \in DOMAIN tx[s].write
    <3>1. PICK st \in OfferStatus : st = tx[s].write[OfferStatusOf(o)]
      BY <2>2, WritesFit
    <3>2. offers[o].status # NoRow /\ offers[o] \in OfferRecord
      BY <1>1, <2>2, WritesFit
    <3>3. [offers[o] EXCEPT !.status = st] \in OfferRecord
          /\ [offers[o] EXCEPT !.status = st].status = st
      BY <3>2, StatusUpdates
    <3>. QED
      BY <2>1, <2>2, <3>1, <3>3 DEF OfferStatus, NoRow
  <2>3. CASE OfferStatusOf(o) \notin DOMAIN tx[s].write
    BY <1>1, <2>1, <2>3
  <2>. QED
    BY <2>2, <2>3
<1>3. table = [o \in Offers |-> table[o]]
  BY <1>1 DEF Statuses
<1>4. offers' \in Inserted(table, tx[s].newOffer)
  BY DEF Commit
<1>5. \A r \in tx[s].newOffer : r \in OfferRecord /\ r.status # NoRow
  BY BusySession DEF GoodSession, RowsFit
<1>. HIDE DEF table
<1>6. table \in [Offers -> OfferRecord]
  BY <1>2, <1>3
<1>7. DOMAIN table = Offers /\ table = [o \in DOMAIN table |-> table[o]]
  BY <1>6
<1>8. /\ offers' = [o \in Offers |-> offers'[o]]
      /\ \A o \in Offers :
            \/ offers'[o] = table[o]
            \/ table[o].status = NoRow /\ offers'[o] \in tx[s].newOffer
  BY <1>4, <1>7, InsertedRows
<1>. QED
  BY <1>2, <1>5, <1>6, <1>8

LEMMA CommittedPayments ==
    ASSUME TxInv, NEW s \in Busy, Commit(s)
    PROVE  /\ payments' \in [Payments -> PaymentRecord]
           /\ \A p \in Payments : payments[p].status # NoRow => payments'[p].status # NoRow
<1>. DEFINE table == Statuses(s, payments, "PaymentTransactions")
<1>1. payments \in [Payments -> PaymentRecord]
  BY DEF TxInv, TypeOK
<1>2. ASSUME NEW p \in Payments
      PROVE  table[p] \in PaymentRecord /\ (payments[p].status # NoRow => table[p].status # NoRow)
  <2>1. table[p] = IF PaymentStatusOf(p) \in DOMAIN tx[s].write
                   THEN [payments[p] EXCEPT !.status = tx[s].write[PaymentStatusOf(p)]]
                   ELSE payments[p]
    BY <1>1 DEF Statuses, PaymentStatusOf
  <2>2. CASE PaymentStatusOf(p) \in DOMAIN tx[s].write
    <3>1. PICK st \in PaymentStatus : st = tx[s].write[PaymentStatusOf(p)]
      BY <2>2, WritesFit
    <3>2. payments[p].status # NoRow /\ payments[p] \in PaymentRecord
      BY <1>1, <2>2, WritesFit
    <3>3. [payments[p] EXCEPT !.status = st] \in PaymentRecord
          /\ [payments[p] EXCEPT !.status = st].status = st
      BY <3>2 DEF PaymentRecord
    <3>. QED
      BY <2>1, <2>2, <3>1, <3>3 DEF PaymentStatus, NoRow
  <2>3. CASE PaymentStatusOf(p) \notin DOMAIN tx[s].write
    BY <1>1, <2>1, <2>3
  <2>. QED
    BY <2>2, <2>3
<1>3. table = [p \in Payments |-> table[p]]
  BY <1>1 DEF Statuses
<1>4. payments' \in Inserted(table, tx[s].newPayment)
  BY DEF Commit
<1>5. \A r \in tx[s].newPayment : r \in PaymentRecord /\ r.status # NoRow
  BY BusySession DEF GoodSession, RowsFit
<1>. HIDE DEF table
<1>6. table \in [Payments -> PaymentRecord]
  BY <1>2, <1>3
<1>7. DOMAIN table = Payments /\ table = [p \in DOMAIN table |-> table[p]]
  BY <1>6
<1>8. /\ payments' = [p \in Payments |-> payments'[p]]
      /\ \A p \in Payments :
            \/ payments'[p] = table[p]
            \/ table[p].status = NoRow /\ payments'[p] \in tx[s].newPayment
  BY <1>4, <1>7, InsertedRows
<1>. QED
  BY <1>2, <1>5, <1>6, <1>8

\* The listings, the balances, the log and the outbox after a commit.
LEMMA CommittedRest ==
    ASSUME TxInv, NEW s \in Busy, Commit(s)
    PROVE  /\ listings' \in [Listings -> ListingStatus \cup {NoRow}]
           /\ \A i \in Listings : listings[i] # NoRow => listings'[i] # NoRow
           /\ pending' \in [Drivers -> Int]
           /\ ModestRates => \A d \in Drivers : pending'[d] >= 0
           /\ wallet' \in [Users -> Int]
           /\ log' \in [Loads -> Seq(LogRecord)]
           /\ outbox' \in [Loads -> Seq({"PickUp", "Delivery"})]
<1>0. TypeOK /\ (ModestRates => NeverOverdrawn) /\ RowsFit(tx[s])
  BY BusySession DEF TxInv, GoodSession
<1>1. /\ listings' \in [Listings -> ListingStatus \cup {NoRow}]
      /\ \A i \in Listings : listings[i] # NoRow => listings'[i] # NoRow
  <2>1. listings' = [i \in Listings |-> Written(s, ListingStatusOf(i), listings[i])]
    BY DEF Commit
  <2>2. \A i \in Listings :
           /\ Written(s, ListingStatusOf(i), listings[i]) \in ListingStatus \cup {NoRow}
           /\ listings[i] # NoRow => Written(s, ListingStatusOf(i), listings[i]) # NoRow
    BY <1>0, WritesFit DEF Written, TypeOK, ListingStatus, NoRow
  <2>. QED
    BY <2>1, <2>2
<1>2. pending' \in [Drivers -> Int] /\ (ModestRates => \A d \in Drivers : pending'[d] >= 0)
  <2>1. pending' = [d \in Drivers |-> Written(s, PendingOf(d), pending[d])]
    BY DEF Commit
  <2>2. \A d \in Drivers : /\ Written(s, PendingOf(d), pending[d]) \in Int
                           /\ ModestRates => Written(s, PendingOf(d), pending[d]) >= 0
    BY <1>0, WritesFit DEF Written, TypeOK, NeverOverdrawn
  <2>. QED
    BY <2>1, <2>2
<1>3. wallet' \in [Users -> Int]
  <2>1. wallet' = [u \in Users |-> Written(s, WalletOf(u), wallet[u])]
    BY DEF Commit
  <2>2. \A u \in Users : Written(s, WalletOf(u), wallet[u]) \in Int
    BY <1>0, WritesFit DEF Written, TypeOK
  <2>. QED
    BY <2>1, <2>2
<1>4. log' \in [Loads -> Seq(LogRecord)]
  <2>1. log' = [l \in Loads |-> IF l = tx[s].load THEN log[l] \o tx[s].newLog ELSE log[l]]
    BY DEF Commit
  <2>2. \A l \in Loads : log[l] \in Seq(LogRecord) /\ log[l] \o tx[s].newLog \in Seq(LogRecord)
    BY <1>0, ConcatProperties DEF TypeOK, RowsFit
  <2>. QED
    BY <2>1, <2>2
<1>5. outbox' \in [Loads -> Seq({"PickUp", "Delivery"})]
  <2>1. outbox' = [l \in Loads |-> IF l = tx[s].load THEN outbox[l] \o tx[s].newOutbox ELSE outbox[l]]
    BY DEF Commit
  <2>2. \A l \in Loads : /\ outbox[l] \in Seq({"PickUp", "Delivery"})
                         /\ outbox[l] \o tx[s].newOutbox \in Seq({"PickUp", "Delivery"})
    BY <1>0, ConcatProperties DEF TypeOK, RowsFit
  <2>. QED
    BY <2>1, <2>2
<1>. QED
  BY <1>1, <1>2, <1>3, <1>4, <1>5

\* The unique index: a load's log has one refund after the commit, too.
LEMMA CommittedRefunds ==
    ASSUME TxInv, NEW s \in Busy, Commit(s), NEW l \in Loads
    PROVE  OneRefundAmong(log'[l])
<1>1. /\ log[l] \in Seq(LogRecord) /\ OneRefundAmong(log[l])
      /\ tx[s].newLog \in Seq(LogRecord) /\ OneRefundAmong(tx[s].newLog)
  BY BusySession DEF TxInv, GoodSession, RowsFit, TypeOK
<1>2. log'[l] = IF l = tx[s].load THEN log[l] \o tx[s].newLog ELSE log[l]
  BY DEF Commit
<1>3. CASE l # tx[s].load
  BY <1>1, <1>2, <1>3
<1>4. CASE l = tx[s].load
  <2>1. Refunds(tx[s].newLog) = {} \/ Refunds(log[l]) = {}
    BY <1>4 DEF Commit, ViolatesUniqueRefund, Refunds, RowsOf
  <2>2. PICK a \in Seq(LogRecord), b \in Seq(LogRecord) : a = log[l] /\ b = tx[s].newLog
    BY <1>1
  <2>3. Refunds(a \o b) = Refunds(a) \cup {Len(a) + j : j \in Refunds(b)}
    BY RefundsOfConcat
  <2>4. Len(a) \in Nat
    BY <2>2
  <2>5. OneRefundAmong(a \o b)
    BY <1>1, <2>1, <2>2, <2>3, <2>4 DEF OneRefundAmong
  <2>. QED
    BY <1>2, <1>4, <2>2, <2>5
<1>. QED
  BY <1>3, <1>4

LEMMA CommitKeeps ==
    ASSUME TxInv, NEW s \in Sessions, Commit(s)
    PROVE  TxInv'
<1>1. tx[s].pc = "save" /\ tx' = [tx EXCEPT ![s] = Idle]
  BY DEF Commit
<1>2. s \in Busy
  BY <1>1, InFlight
<1>3. TypeOK' /\ RowsStay
  BY <1>2, CommittedLoads, CommittedBids, CommittedOffers, CommittedPayments, CommittedRest
  DEF TypeOK, RowsStay
<1>4. (ModestRates => NeverOverdrawn)'
  BY <1>2, CommittedRest DEF ModestRates, NeverOverdrawn
<1>5. (\A l \in Loads : OneRefundAmong(log[l]))'
  BY <1>2, CommittedRefunds
<1>6. SessionsGood' /\ LocksExclude'
  BY <1>1, <1>3, SessionsAfter DEF TxInv
<1>. QED
  BY <1>3, <1>4, <1>5, <1>6 DEF TxInv

-------------------------------------------------------------------------------
(* The specification. *)

LEMMA PublishKeeps ==
    ASSUME TxInv, Publish
    PROVE  TxInv'
<1>1. \/ \E l \in Loads, price \in Amounts \ {0} : CreateLoad(l, price)
      \/ \E i \in Listings : CreateListing(i)
  BY DEF Publish
<1>2. TypeOK
  BY DEF TxInv
<1>3. TypeOK'
  BY <1>1, <1>2, NextType DEF Next, LoadRequest, ListingRequest
<1>4. /\ RowsStay
      /\ UNCHANGED <<pending, log>>
  BY <1>1, <1>2 DEF CreateLoad, CreateListing, RowsStay, TypeOK, NoRow
<1>5. tx' = tx
  BY DEF Publish
<1>6. Idle' = Idle
  BY DEF Idle
<1>7. SessionsGood'
  <2>1. ASSUME NEW s \in Sessions PROVE tx[s] = Idle \/ GoodSession(tx[s])'
    <3>1. PICK t : t = tx[s]
      OBVIOUS
    <3>2. t = Idle \/ GoodSession(t)
      BY <3>1 DEF TxInv, SessionsGood
    <3>3. t = Idle \/ GoodSession(t)'
      BY <1>4, <3>2, StillGood
    <3>4. t = tx'[s]
      BY <1>5, <3>1
    <3>. QED
      BY <3>1, <3>3, <3>4 DEF GoodSession, Whole, ChangesFit, RowsFit, LocksFit, WorksOn, Assigns
  <2>. QED
    BY <1>5, <1>6, <2>1 DEF TxInv, SessionsGood
<1>8. LocksExclude'
  BY <1>5 DEF TxInv, LocksExclude, Busy
<1>9. (ModestRates => NeverOverdrawn)' /\ (\A l \in Loads : OneRefundAmong(log[l]))'
  BY <1>4 DEF TxInv, ModestRates, NeverOverdrawn, OneRefundAmong, Refunds
<1>. QED
  BY <1>3, <1>7, <1>8, <1>9 DEF TxInv

LEMMA TxInvStart == TxInit => TxInv
<1>. SUFFICES ASSUME TxInit PROVE TxInv
  OBVIOUS
<1>1. TypeOK
  BY InitType DEF TxInit
<1>2. (ModestRates => NeverOverdrawn) /\ \A l \in Loads : OneRefundAmong(log[l])
  BY RefundsOfNone DEF TxInit, Init, NeverOverdrawn, OneRefundAmong
<1>3. SessionsGood /\ LocksExclude
  BY DEF TxInit, SessionsGood, LocksExclude, Busy, Idle
<1>. QED
  BY <1>1, <1>2, <1>3 DEF TxInv

LEMMA TxInvStep == TxInv /\ [TxNext]_txVars => TxInv'
<1>. SUFFICES ASSUME TxInv, [TxNext]_txVars PROVE TxInv'
  OBVIOUS
<1>1. ASSUME NEW s \in Sessions, Proceed(s) PROVE TxInv'
  <2>1. CASE RejectOthers(s) \/ RejectRow(s) \/ HoldCheck(s) \/ HoldDriver(s)
    BY <2>1, RejectOthersKeeps, RejectRowKeeps, HoldCheckKeeps, HoldDriverKeeps
  <2>2. CASE FindBlocked(s) \/ LedgerRelease(s)
    BY <2>2, FindBlockedKeeps, LedgerReleaseKeeps
  <2>3. CASE LockLoad(s) \/ CancelRead(s) \/ LockPayments(s) \/ CancelRefund(s)
    BY <2>3, LockLoadKeeps, CancelReadKeeps, LockPaymentsKeeps, CancelRefundKeeps
  <2>4. CASE SaveRow(s) \/ Commit(s) \/ BreakDeadlock(s)
    BY <2>4, SaveRowKeeps, CommitKeeps, BreakDeadlockKeeps
  <2>5. CASE RefuseDuplicate(s)
    BY <2>5, ThrowKeeps DEF RefuseDuplicate
  <2>. QED
    BY <1>1, <2>1, <2>2, <2>3, <2>4, <2>5 DEF Proceed
<1>2. CASE UNCHANGED txVars
  <2>1. RowsStay /\ UNCHANGED vars /\ tx' = tx
    BY <1>2 DEF txVars, vars, RowsStay
  <2>2. SessionsGood'
    BY <2>1 DEF TxInv, SessionsGood, GoodSession, Whole, ChangesFit, RowsFit, LocksFit, WorksOn, Assigns,
                Fits, RowExists, Idle, OneRefundAmong, Refunds, vars, ModestRates, LoadRow
  <2>3. TypeOK' /\ LocksExclude'
    BY <2>1 DEF TxInv, TypeOK, LocksExclude, Busy, vars
  <2>4. (ModestRates => NeverOverdrawn)' /\ (\A l \in Loads : OneRefundAmong(log[l]))'
    BY <2>1 DEF TxInv, ModestRates, NeverOverdrawn, OneRefundAmong, Refunds, vars
  <2>. QED
    BY <2>2, <2>3, <2>4 DEF TxInv
<1>. QED
  BY <1>1, <1>2, PublishKeeps, SendRequestKeeps DEF TxNext

\* However requests overlap, deadlock and are retried, what each has in store fits the tables.
THEOREM SessionsFit == TxSpec => []TxInv
BY TxInvStart, TxInvStep, PTL DEF TxSpec

\* The tables hold well-formed rows only: what a request writes from its own copies goes to rows
\* that are there, whoever committed in between.
THEOREM TablesStayTyped == TxSpec => []TypeOK
<1>1. TxInv => TypeOK
  BY DEF TxInv
<1>. QED
  BY <1>1, SessionsFit, PTL

\* No driver's pending balance falls below zero, although releases, refunds and holds
\* read it without a lock and write it back as an absolute value, as long as the rates
\* leave the driver something of the price.  (Nothing in the code bounds the rates.)
THEOREM NeverOverdrawnHolds ==
    ASSUME ModestRates
    PROVE  TxSpec => []NeverOverdrawn
<1>1. TxInv => NeverOverdrawn
  BY DEF TxInv
<1>. QED
  BY <1>1, SessionsFit, PTL

\* No row is locked by two requests at a time.
THEOREM LocksExcludeHolds == TxSpec => []LocksExclude
<1>1. TxInv => LocksExclude
  BY DEF TxInv
<1>. QED
  BY <1>1, SessionsFit, PTL

-------------------------------------------------------------------------------
(* Isolation, and the unique index. *)

\* A step leaves a row as it is.
LeftAlone(row) ==
    /\ \A l \in Loads : row = LoadRow(l) => loads'[l] = loads[l]
    /\ \A b \in Bids : row = RowAt(BidStatusOf(b)) => bids'[b] = bids[b]
    /\ \A i \in Listings : row = RowAt(ListingStatusOf(i)) => listings'[i] = listings[i]
    /\ \A o \in Offers : row = RowAt(OfferStatusOf(o)) => offers'[o] = offers[o]
    /\ \A p \in Payments : row = RowAt(PaymentStatusOf(p)) => payments'[p] = payments[p]
    /\ \A d \in Drivers : row = RowAt(PendingOf(d)) => pending'[d] = pending[d]
    /\ \A u \in Users : row = RowAt(WalletOf(u)) => wallet'[u] = wallet[u]

\* What a request has locked nobody changes before it ends.
LockedRowsKept ==
    [][\A s \in Sessions : s \in Busy /\ tx'[s].pc # "idle" =>
          \A row \in tx[s].locks : LeftAlone(row)]_txVars

\* A commit leaves a row of a table with primary keys alone when it has not written its status.
LEMMA UnwrittenRow ==
    ASSUME NEW s, NEW name, NEW table, NEW new, NEW result,
           result \in Inserted(Statuses(s, table, name), new),
           NEW k \in DOMAIN table, table[k].status # NoRow,
           <<name, k, "Status">> \notin DOMAIN tx[s].write
    PROVE  result[k] = table[k]
<1>. DEFINE after == Statuses(s, table, name)
<1>1. /\ after = [j \in DOMAIN after |-> after[j]]
      /\ k \in DOMAIN after /\ after[k] = table[k]
  BY DEF Statuses
<1>. HIDE DEF after
<1>2. result \in Inserted(after, new)
  BY DEF after
<1>. QED
  BY <1>1, <1>2, InsertedRows

LEMMA CommitLeavesAlone ==
    ASSUME TxInv, NEW t \in Busy, Commit(t), NEW s \in Busy \ {t}, NEW row \in tx[s].locks
    PROVE  LeftAlone(row)
<1>1. RowExists(row) /\ TypeOK
  BY BusySession DEF GoodSession, LocksFit
<1>2. row \notin tx[t].locks
  BY BusySession
<1>3. \A cell \in DOMAIN tx[t].write : RowAt(cell) # row
  BY <1>2 DEF Commit, Unwritten
<1>. USE DEF RowAt, LoadStatusOf, LoadDriverOf, LoadPriceOf, BidStatusOf, ListingStatusOf, OfferStatusOf,
             PaymentStatusOf, PendingOf, WalletOf, LoadRow
<1>4. ASSUME NEW l \in Loads, row = LoadRow(l) PROVE loads'[l] = loads[l]
  <2>1. /\ LoadStatusOf(l) \notin DOMAIN tx[t].write
        /\ LoadDriverOf(l) \notin DOMAIN tx[t].write
        /\ LoadPriceOf(l) \notin DOMAIN tx[t].write
    BY <1>3, <1>4
  <2>2. loads'[l] = [status |-> loads[l].status, driver |-> loads[l].driver, price |-> loads[l].price]
    BY <2>1 DEF Commit, Written
  <2>3. loads[l] \in LoadRecord
    BY <1>1 DEF TypeOK
  <2>. QED
    BY <2>2, <2>3 DEF LoadRecord
<1>5. ASSUME NEW b \in Bids, row = RowAt(BidStatusOf(b)) PROVE bids'[b] = bids[b]
  <2>1. bids[b].status # NoRow
    BY <1>1, <1>5 DEF RowExists
  <2>2. BidStatusOf(b) \notin DOMAIN tx[t].write
    BY <1>3, <1>5
  <2>3. b \in DOMAIN bids /\ bids' \in Inserted(Statuses(t, bids, "Bids"), tx[t].newBid)
    BY <1>1 DEF Commit, TypeOK
  <2>. QED
    BY <2>1, <2>2, <2>3, UnwrittenRow
<1>6. ASSUME NEW o \in Offers, row = RowAt(OfferStatusOf(o)) PROVE offers'[o] = offers[o]
  <2>1. offers[o].status # NoRow
    BY <1>1, <1>6 DEF RowExists
  <2>2. OfferStatusOf(o) \notin DOMAIN tx[t].write
    BY <1>3, <1>6
  <2>3. o \in DOMAIN offers /\ offers' \in Inserted(Statuses(t, offers, "ListingOffers"), tx[t].newOffer)
    BY <1>1 DEF Commit, TypeOK
  <2>. QED
    BY <2>1, <2>2, <2>3, UnwrittenRow
<1>7. ASSUME NEW p \in Payments, row = RowAt(PaymentStatusOf(p)) PROVE payments'[p] = payments[p]
  <2>1. payments[p].status # NoRow
    BY <1>1, <1>7 DEF RowExists
  <2>2. PaymentStatusOf(p) \notin DOMAIN tx[t].write
    BY <1>3, <1>7
  <2>3. /\ p \in DOMAIN payments
        /\ payments' \in Inserted(Statuses(t, payments, "PaymentTransactions"), tx[t].newPayment)
    BY <1>1 DEF Commit, TypeOK
  <2>. QED
    BY <2>1, <2>2, <2>3, UnwrittenRow
<1>8. ASSUME NEW i \in Listings, row = RowAt(ListingStatusOf(i)) PROVE listings'[i] = listings[i]
  <2>1. ListingStatusOf(i) \notin DOMAIN tx[t].write
    BY <1>3, <1>8
  <2>. QED
    BY <2>1 DEF Commit, Written
<1>9. ASSUME NEW d \in Drivers, row = RowAt(PendingOf(d)) PROVE pending'[d] = pending[d]
  <2>1. PendingOf(d) \notin DOMAIN tx[t].write
    BY <1>3, <1>9
  <2>. QED
    BY <2>1 DEF Commit, Written
<1>10. ASSUME NEW u \in Users, row = RowAt(WalletOf(u)) PROVE wallet'[u] = wallet[u]
  <2>1. WalletOf(u) \notin DOMAIN tx[t].write
    BY <1>3, <1>10
  <2>. QED
    BY <2>1 DEF Commit, Written
<1>. QED
  BY <1>4, <1>5, <1>6, <1>7, <1>8, <1>9, <1>10 DEF LeftAlone

\* Publishing adds a row where there is none, so no locked one.
LEMMA PublishLeavesAlone ==
    ASSUME TxInv, Publish, NEW s \in Busy, NEW row \in tx[s].locks
    PROVE  LeftAlone(row)
<1>1. RowExists(row) /\ TypeOK
  BY BusySession DEF GoodSession, LocksFit
<1>. USE DEF RowAt, LoadStatusOf, BidStatusOf, ListingStatusOf, OfferStatusOf, PaymentStatusOf, PendingOf,
             WalletOf, LoadRow
<1>2. CASE \E l \in Loads, price \in Amounts \ {0} : CreateLoad(l, price)
  <2>1. PICK l \in Loads, price \in Amounts \ {0} : CreateLoad(l, price)
    BY <1>2
  <2>2. \A k \in Loads : row = LoadRow(k) => k # l
    BY <1>1, <2>1 DEF RowExists, CreateLoad
  <2>. QED
    BY <1>1, <2>1, <2>2 DEF LeftAlone, CreateLoad, TypeOK
<1>3. CASE \E i \in Listings : CreateListing(i)
  <2>1. PICK i \in Listings : CreateListing(i)
    BY <1>3
  <2>2. \A k \in Listings : row = RowAt(ListingStatusOf(k)) => k # i
    BY <1>1, <2>1 DEF RowExists, CreateListing
  <2>. QED
    BY <1>1, <2>1, <2>2 DEF LeftAlone, CreateListing, TypeOK
<1>. QED
  BY <1>2, <1>3 DEF Publish

\* A step that leaves the tables alone leaves every row alone.
LEMMA NothingChanged ==
    ASSUME UNCHANGED vars, NEW row
    PROVE  LeftAlone(row)
BY DEF LeftAlone, vars

\* The other steps of a session only read.
LEMMA OthersOnlyRead ==
    ASSUME NEW s \in Sessions, SendRequest(s) \/ Proceed(s)
    PROVE  Commit(s) \/ UNCHANGED vars
<1>. USE DEF Step, Throw
<1>1. CASE SendRequest(s)
  <2>. USE DEF Send
  <2>1. ASSUME NEW l \in Loads, SendLoadRequest(s, l) PROVE UNCHANGED vars
    <3>1. \A d, amount : SendSubmitBid(s, l, d, amount) => UNCHANGED vars
      BY DEF SendSubmitBid
    <3>2. \A price : SendEditLoad(s, l, price) => UNCHANGED vars
      BY DEF SendEditLoad
    <3>3. SendPickup(s, l) \/ SendArrive(s, l) \/ SendDeliver(s, l) \/ SendBackfill(s, l)
          => UNCHANGED vars
      BY DEF SendPickup, SendArrive, SendDeliver, SendBackfill
    <3>4. \A kind : SendCancel(s, l, kind) => UNCHANGED vars
      BY DEF SendCancel
    <3>. QED
      BY <2>1, <3>1, <3>2, <3>3, <3>4 DEF SendLoadRequest
  <2>2. ASSUME NEW b \in Bids, SendCancelBid(s, b) \/ SendAcceptBid(s, b) PROVE UNCHANGED vars
    BY <2>2 DEF SendCancelBid, SendAcceptBid
  <2>3. ASSUME NEW i \in Listings, SendListingRequest(s, i) PROVE UNCHANGED vars
    <3>1. \A l, amount : SendCreateOffer(s, i, l, amount) => UNCHANGED vars
      BY DEF SendCreateOffer
    <3>2. SendCancelListing(s, i) \/ SendAdminCancelListing(s, i) => UNCHANGED vars
      BY DEF SendCancelListing, SendAdminCancelListing
    <3>. QED
      BY <2>3, <3>1, <3>2 DEF SendListingRequest
  <2>4. ASSUME NEW o \in Offers, SendOfferRequest(s, o) PROVE UNCHANGED vars
    <3>1. SendAcceptOffer(s, o) => UNCHANGED vars
      BY DEF SendAcceptOffer
    <3>2. \A kind, status : SendCloseOffer(s, o, kind, status) => UNCHANGED vars
      BY DEF SendCloseOffer
    <3>. QED
      BY <2>4, <3>1, <3>2 DEF SendOfferRequest
  <2>5. ASSUME NEW p \in Payments, SendAdminRelease(s, p) PROVE UNCHANGED vars
    BY <2>5 DEF SendAdminRelease
  <2>. QED
    BY <1>1, <2>1, <2>2, <2>3, <2>4, <2>5 DEF SendRequest
<1>2. CASE RejectOthers(s) \/ RejectRow(s) \/ HoldCheck(s) \/ HoldDriver(s) \/ FindBlocked(s)
           \/ LedgerRelease(s)
  BY <1>2 DEF RejectOthers, RejectRow, HoldCheck, HoldDriver, FindBlocked, LedgerRelease
<1>3. CASE LockLoad(s) \/ CancelRead(s) \/ LockPayments(s) \/ CancelRefund(s) \/ SaveRow(s)
           \/ RefuseDuplicate(s) \/ BreakDeadlock(s)
  BY <1>3 DEF LockLoad, CancelRead, LockPayments, CancelRefund, SaveRow, RefuseDuplicate, BreakDeadlock
<1>. QED
  BY <1>1, <1>2, <1>3 DEF Proceed

\* PostgreSQL's write locks as the model has them do what they are for: between the moment a
\* request has written or locked a row and the moment it ends, no other request changes that row,
\* whatever it read before and however it was retried.
THEOREM LockedRowsAreKept == TxSpec => LockedRowsKept
<1>1. ASSUME TxInv, [TxNext]_txVars, NEW s \in Sessions, s \in Busy, tx'[s].pc # "idle",
             NEW row \in tx[s].locks
      PROVE  LeftAlone(row)
  <2>1. CASE Publish
    BY <1>1, <2>1, PublishLeavesAlone
  <2>2. ASSUME NEW t \in Sessions, SendRequest(t) \/ Proceed(t) PROVE LeftAlone(row)
    <3>1. CASE UNCHANGED vars
      BY <3>1, NothingChanged
    <3>2. CASE Commit(t)
      <4>1. t \in Busy /\ tx'[t] = Idle
        BY <1>1, <3>2, InFlight DEF Commit, TxInv, SessionsGood
      <4>2. t # s
        BY <1>1, <4>1 DEF Idle
      <4>. QED
        BY <1>1, <3>2, <4>1, <4>2, CommitLeavesAlone
    <3>. QED
      BY <2>2, <3>1, <3>2, OthersOnlyRead
  <2>3. CASE UNCHANGED txVars
    BY <2>3, NothingChanged DEF txVars
  <2>. QED
    BY <1>1, <2>1, <2>2, <2>3 DEF TxNext
<1>2. TxInv /\ [TxNext]_txVars =>
          [\A s \in Sessions : s \in Busy /\ tx'[s].pc # "idle" =>
              \A row \in tx[s].locks : LeftAlone(row)]_txVars
  BY <1>1
<1>. QED
  BY <1>2, SessionsFit, PTL DEF TxSpec, LockedRowsKept

\* The log of a load has one customer refund at most: two cancellations that both saw the load
\* uncancelled do not both refund (the filtered unique index of YukleDbContext).
THEOREM OneRefundRowHolds == TxSpec => []OneRefundRowEach
<1>1. TxInv => OneRefundRowEach
  <2>. SUFFICES ASSUME TxInv, NEW l \in Loads
                PROVE  Cardinality(RowsOf(l, "CustomerRefund")) =< 1
    BY DEF OneRefundRowEach
  <2>1. RowsOf(l, "CustomerRefund") = Refunds(log[l])
    BY DEF RowsOf, Refunds
  <2>2. RowsOf(l, "CustomerRefund") = {} \/ \E i : RowsOf(l, "CustomerRefund") = {i}
    BY <2>1 DEF TxInv, OneRefundAmong
  <2>3. CASE RowsOf(l, "CustomerRefund") = {}
    BY <2>3, FS_EmptySet
  <2>4. CASE \E i : RowsOf(l, "CustomerRefund") = {i}
    <3>1. PICK i : RowsOf(l, "CustomerRefund") = {i}
      BY <2>4
    <3>2. Cardinality({i}) = 1
      BY FS_Singleton
    <3>. QED
      BY <3>1, <3>2
  <2>. QED
    BY <2>2, <2>3, <2>4
<1>. QED
  BY <1>1, SessionsFit, PTL

-------------------------------------------------------------------------------
(* What a customer is paid back. *)

\* The customers whose wallets a request is going to write, ...
Credits(w) == {c \in Customers : WalletOf(c) \in DOMAIN w}

\* ... nobody's, as long as it has no refund in store; ...
Clean(t) == Credits(t.write) = {} /\ Refunds(t.newLog) = {}

\* ... and with a refund in store the load's owner's, whose wallet it read at a time when no
\* more than what he is paid back by now was in it.
Staged(t) ==
    /\ t.load \in Loads
    /\ Credits(t.write) = {Owner[t.load]}
    /\ \E i \in Refunds(t.newLog), read \in 0 .. PaidBack(Owner[t.load]) :
          /\ t.newLog[i].amount \in Nat
          /\ t.write[WalletOf(Owner[t.load])] = read + t.newLog[i].amount

\* A request has a refund in store only when it is about to save it.
CreditFits(t) ==
    /\ Clean(t) \/ Staged(t)
    /\ t.pc \notin {"save", "lockload"} => Clean(t)
    /\ \A cell \in t.todo, c \in Customers : cell # WalletOf(c)

WalletFits(c) ==
    /\ wallet[c] \in 0 .. PaidBack(c)
    /\ OneLoadRefunded(c) => wallet[c] = PaidBack(c)

WalletInv ==
    /\ \A l \in Loads : Total(l, "CustomerRefund") \in Nat
    /\ \A c \in Customers : WalletFits(c)
    /\ \A s \in Busy : CreditFits(tx[s])

\* What the one refund among some rows comes to.
LEMMA RefundTotal ==
    ASSUME NEW rows \in Seq(LogRecord), OneRefundAmong(rows)
    PROVE  /\ Refunds(rows) = {} => SumOfRows(rows, "CustomerRefund") = 0
           /\ \A i \in Refunds(rows) : SumOfRows(rows, "CustomerRefund") = rows[i].amount
<1>. DEFINE f == [i \in DOMAIN rows |-> rows[i].amount]
<1>1. SumOfRows(rows, "CustomerRefund") = SumOver(f, Refunds(rows))
  BY DEF SumOfRows, Refunds
<1>2. ASSUME NEW i \in Refunds(rows) PROVE SumOver(f, Refunds(rows)) = rows[i].amount
  <2>1. Refunds(rows) = {i} /\ i \in DOMAIN rows
    BY <1>2 DEF OneRefundAmong, Refunds
  <2>2. f[i] = rows[i].amount
    BY <2>1
  <2>. HIDE DEF f
  <2>3. rows[i] \in LogRecord
    BY <2>1
  <2>4. f[i] \in Int
    BY <2>2, <2>3 DEF LogRecord
  <2>5. IsFiniteSet({i}) /\ {i} \ {i} = {}
    BY FS_Singleton
  <2>6. SumOver(f, {i}) = f[i] + SumOver(f, {i} \ {i})
    BY <2>5, <2>4, SumWithout
  <2>7. SumOver(f, {i} \ {i}) = 0
    BY <2>5, SumOfNothing
  <2>8. SumOver(f, {i}) = f[i]
    BY <2>6, <2>7, <2>4
  <2>. QED
    BY <2>1, <2>2, <2>8
<1>. HIDE DEF f
<1>3. SumOver(f, {}) = 0
  BY SumOfNothing
<1>. QED
  BY <1>1, <1>2, <1>3

\* What a customer has been paid back is the sum over his loads, ...
LEMMA PaidBackType ==
    ASSUME \A l \in Loads : Total(l, "CustomerRefund") \in Nat, NEW c
    PROVE  /\ PaidBack(c) \in Nat
           /\ (\A l \in Loads : Owner[l] = c => Total(l, "CustomerRefund") = 0) => PaidBack(c) = 0
<1>. DEFINE f == [l \in Loads |-> Total(l, "CustomerRefund")]
            mine == {l \in Loads : Owner[l] = c}
<1>1. IsFiniteSet(mine)
  BY FiniteKeys, FS_Subset
<1>2. \A l \in mine : f[l] \in Nat /\ f[l] = Total(l, "CustomerRefund")
  OBVIOUS
<1>3. PaidBack(c) = SumOver(f, mine)
  BY DEF PaidBack
<1>4. (\A l \in Loads : Owner[l] = c => Total(l, "CustomerRefund") = 0) => \A l \in mine : f[l] = 0
  BY <1>2
<1>. HIDE DEF f, mine
<1>. QED
  BY <1>1, <1>2, <1>3, <1>4, SumBoundsEach, SumOfZeros

\* ... which is the same while those loads' logs are, ...
LEMMA PaidBackSame ==
    ASSUME NEW c, \A l \in Loads : Owner[l] = c => Total(l, "CustomerRefund")' = Total(l, "CustomerRefund")
    PROVE  PaidBack(c)' = PaidBack(c)
<1>. DEFINE f == [l \in Loads |-> Total(l, "CustomerRefund")]
            g == [l \in Loads |-> Total(l, "CustomerRefund")']
            mine == {l \in Loads : Owner[l] = c}
<1>1. IsFiniteSet(mine)
  BY FiniteKeys, FS_Subset
<1>2. \A l \in mine : f[l] = g[l]
  OBVIOUS
<1>3. PaidBack(c) = SumOver(f, mine) /\ PaidBack(c)' = SumOver(g, mine)
  BY DEF PaidBack, SumOver, MapThenSumSet, MapThenFoldSet
<1>. HIDE DEF f, g, mine
<1>. QED
  BY <1>1, <1>2, <1>3, SumSame

\* ... and grows by what one of them is paid back more.
LEMMA PaidBackMore ==
    ASSUME NEW k \in Loads,
           \A l \in Loads : Total(l, "CustomerRefund") \in Nat /\ Total(l, "CustomerRefund")' \in Nat,
           \A l \in Loads \ {k} : Total(l, "CustomerRefund")' = Total(l, "CustomerRefund")
    PROVE  PaidBack(Owner[k])' =
              PaidBack(Owner[k]) - Total(k, "CustomerRefund") + Total(k, "CustomerRefund")'
<1>. DEFINE f == [l \in Loads |-> Total(l, "CustomerRefund")]
            g == [l \in Loads |-> Total(l, "CustomerRefund")']
            mine == {l \in Loads : Owner[l] = Owner[k]}
<1>1. IsFiniteSet(mine) /\ k \in mine
  BY FiniteKeys, FS_Subset
<1>2. /\ \A l \in mine : f[l] \in Int /\ g[l] \in Int
      /\ \A l \in mine \ {k} : f[l] = g[l]
      /\ f[k] = Total(k, "CustomerRefund") /\ g[k] = Total(k, "CustomerRefund")'
  OBVIOUS
<1>3. PaidBack(Owner[k]) = SumOver(f, mine) /\ PaidBack(Owner[k])' = SumOver(g, mine)
  BY DEF PaidBack, SumOver, MapThenSumSet, MapThenFoldSet
<1>. HIDE DEF f, g, mine
<1>. QED
  BY <1>1, <1>2, <1>3, SumChanged

\* A refund is never less than nothing.
LEMMA RefundAmountType ==
    ASSUME NEW x \in Int
    PROVE  RefundAmount(x) \in Nat
BY SettlementType, RatesAssumption DEF RefundAmount, GrossRefund

\* A request keeps what it has in store, or less, while others only read.
LEMMA CreditKept ==
    ASSUME NEW u, CreditFits(u), NEW t, t.load = u.load, t.write = u.write, t.newLog = u.newLog,
           t.todo \subseteq u.todo, t.pc \notin {"save", "lockload"} => Clean(u)
    PROVE  CreditFits(t)
BY DEF CreditFits, Clean, Staged

LEMMA CleanFits ==
    ASSUME NEW t, Clean(t), \A cell \in t.todo, c \in Customers : cell # WalletOf(c)
    PROVE  CreditFits(t)
BY DEF CreditFits

\* What is paid back only grows, and with it what fits.
LEMMA CreditStays ==
    ASSUME NEW t, CreditFits(t), \A l \in Loads : Total(l, "CustomerRefund") \in Nat,
           \A c \in Customers : PaidBack(c)' \in Nat /\ PaidBack(c) =< PaidBack(c)'
    PROVE  CreditFits(t)'
<1>1. Clean(t)' <=> Clean(t)
  BY DEF Clean, Refunds, Credits, WalletOf
<1>2. ASSUME Staged(t) PROVE Staged(t)'
  <2>1. PICK i \in Refunds(t.newLog), read \in 0 .. PaidBack(Owner[t.load]) :
           /\ t.newLog[i].amount \in Nat
           /\ t.write[WalletOf(Owner[t.load])] = read + t.newLog[i].amount
    BY <1>2 DEF Staged
  <2>2. Owner[t.load] \in Customers /\ t.load \in Loads
    BY <1>2, FreightAssumption DEF Staged
  <2>3. PaidBack(Owner[t.load]) \in Nat
    BY PaidBackType
  <2>4. read \in 0 .. PaidBack(Owner[t.load])'
    BY <2>2, <2>3
  <2>. QED
    BY <1>2, <2>1, <2>4 DEF Staged, Refunds, Credits, WalletOf
<1>. QED
  BY <1>1, <1>2 DEF CreditFits, WalletOf

\* Which customers' wallets are written.
LEMMA CreditsOf ==
    /\ Credits(NoWrites) = {}
    /\ \A f, g : Credits(f ++ g) = Credits(f) \cup Credits(g)
    /\ \A value :
          /\ \A x : /\ Credits(Change(LoadStatusOf(x), value)) = {}
                    /\ Credits(Change(LoadDriverOf(x), value)) = {}
                    /\ Credits(Change(LoadPriceOf(x), value)) = {}
                    /\ Credits(Change(BidStatusOf(x), value)) = {}
                    /\ Credits(Change(ListingStatusOf(x), value)) = {}
                    /\ Credits(Change(OfferStatusOf(x), value)) = {}
                    /\ Credits(Change(PaymentStatusOf(x), value)) = {}
                    /\ Credits(Change(PendingOf(x), value)) = {}
          /\ \A d \in Drivers : Credits(Change(WalletOf(d), value)) = {}
          /\ \A c \in Customers : Credits(Change(WalletOf(c), value)) = {c}
<1>. USE DEF Credits, WalletOf
<1>1. Credits(NoWrites) = {}
  BY DEF NoWrites
<1>2. \A f, g : Credits(f ++ g) = Credits(f) \cup Credits(g)
  BY DEF ++
<1>3. ASSUME NEW value, NEW x
      PROVE  /\ Credits(Change(LoadStatusOf(x), value)) = {}
             /\ Credits(Change(LoadDriverOf(x), value)) = {}
             /\ Credits(Change(LoadPriceOf(x), value)) = {}
             /\ Credits(Change(BidStatusOf(x), value)) = {}
             /\ Credits(Change(ListingStatusOf(x), value)) = {}
             /\ Credits(Change(OfferStatusOf(x), value)) = {}
             /\ Credits(Change(PaymentStatusOf(x), value)) = {}
             /\ Credits(Change(PendingOf(x), value)) = {}
  BY DEF Change, LoadStatusOf, LoadDriverOf, LoadPriceOf, BidStatusOf, ListingStatusOf, OfferStatusOf,
         PaymentStatusOf, PendingOf
<1>4. \A value : \A d \in Drivers : Credits(Change(WalletOf(d), value)) = {}
  BY FreightAssumption DEF Change
<1>5. \A value : \A c \in Customers : Credits(Change(WalletOf(c), value)) = {c}
  BY DEF Change
<1>. QED
  BY <1>1, <1>2, <1>3, <1>4, <1>5

\* A request is sent with nobody's wallet in store.
Quiet(t) == Clean(t) /\ t.todo = {}

LEMMA FirstQuiet ==
    ASSUME NEW kind, NEW id, NEW pc, NEW l, NEW w, Credits(w) = {},
           NEW d, NEW a, NEW events, NEW bid, NEW offer
    PROVE  /\ Quiet(Session(kind, id, pc, l))
           /\ Quiet([Session(kind, id, pc, l) EXCEPT !.newBid = bid])
           /\ Quiet([Session(kind, id, pc, l) EXCEPT !.newOffer = offer])
           /\ Quiet([Session(kind, id, pc, l) EXCEPT !.write = w])
           /\ Quiet([Session(kind, id, pc, l) EXCEPT !.write = w, !.newOutbox = events])
           /\ Quiet([Session(kind, id, pc, l) EXCEPT !.driver = d])
           /\ Quiet([Session(kind, id, pc, l) EXCEPT !.driver = d, !.amount = a])
           /\ Quiet([Session(kind, id, pc, l) EXCEPT !.driver = d, !.amount = a, !.write = w])
           /\ Quiet([Session(kind, id, pc, l) EXCEPT !.driver = d, !.write = w, !.newOutbox = events])
<1>1. PICK first : first = Session(kind, id, pc, l)
  OBVIOUS
<1>2. /\ Whole(first) /\ Credits(first.write) = {}
      /\ first.newLog = <<>> /\ first.todo = {}
  BY <1>1, NewSession, CreditsOf
<1>3. /\ Quiet(first)
      /\ Quiet([first EXCEPT !.newBid = bid])
      /\ Quiet([first EXCEPT !.newOffer = offer])
      /\ Quiet([first EXCEPT !.write = w])
      /\ Quiet([first EXCEPT !.write = w, !.newOutbox = events])
      /\ Quiet([first EXCEPT !.driver = d])
      /\ Quiet([first EXCEPT !.driver = d, !.amount = a])
      /\ Quiet([first EXCEPT !.driver = d, !.amount = a, !.write = w])
      /\ Quiet([first EXCEPT !.driver = d, !.write = w, !.newOutbox = events])
  BY <1>2, RefundsOfNone DEF Quiet, Clean, Whole
<1>. QED
  BY <1>1, <1>3

LEMMA SentQuiet ==
    ASSUME NEW s \in Sessions, SendRequest(s)
    PROVE  \E t : Send(s, t) /\ Quiet(t)
<1>0. Credits(NoWrites) = {}
  BY CreditsOf
<1>1. ASSUME NEW l \in Loads, SendLoadRequest(s, l) PROVE \E t : Send(s, t) /\ Quiet(t)
  <2>1. ASSUME NEW d, NEW amount, SendSubmitBid(s, l, d, amount) PROVE \E t : Send(s, t) /\ Quiet(t)
    <3>. DEFINE new == {[status |-> "Pending", load |-> l, driver |-> d, amount |-> amount]}
    <3>1. Quiet([Session("SubmitBid", <<l, d>>, "save", l) EXCEPT !.newBid = new])
      BY <1>0, FirstQuiet, Zenon
    <3>. QED
      BY <2>1, <3>1 DEF SendSubmitBid
  <2>2. ASSUME NEW price, SendEditLoad(s, l, price) PROVE \E t : Send(s, t) /\ Quiet(t)
    <3>1. Credits(Change(LoadPriceOf(l), price)) = {}
      BY CreditsOf
    <3>2. Quiet([Session("EditLoad", l, "save", l) EXCEPT !.write = Change(LoadPriceOf(l), price)])
      BY <3>1, FirstQuiet, Zenon
    <3>. QED
      BY <2>2, <3>2 DEF SendEditLoad
  <2>3. CASE SendPickup(s, l)
    <3>1. Credits(Change(LoadStatusOf(l), "OnWay")) = {}
      BY CreditsOf
    <3>2. Quiet([Session("Pickup", l, "save", l) EXCEPT
                    !.write = Change(LoadStatusOf(l), "OnWay"), !.newOutbox = <<"PickUp">>])
      BY <3>1, FirstQuiet, Zenon
    <3>. QED
      BY <2>3, <3>2 DEF SendPickup
  <2>4. CASE SendArrive(s, l)
    <3>1. Credits(Change(LoadStatusOf(l), "Arrived")) = {}
      BY CreditsOf
    <3>2. Quiet([Session("Arrive", l, "save", l) EXCEPT !.write = Change(LoadStatusOf(l), "Arrived")])
      BY <3>1, FirstQuiet, Zenon
    <3>. QED
      BY <2>4, <3>2 DEF SendArrive
  <2>5. CASE SendDeliver(s, l)
    <3>1. Credits(Change(LoadStatusOf(l), "Delivered")) = {}
      BY CreditsOf
    <3>2. Quiet([Session("Deliver", l, "blocked", l) EXCEPT
                    !.driver = loads[l].driver,
                    !.write = Change(LoadStatusOf(l), "Delivered"), !.newOutbox = <<"Delivery">>])
      BY <3>1, FirstQuiet, Zenon
    <3>. QED
      BY <2>5, <3>2 DEF SendDeliver
  <2>6. CASE SendBackfill(s, l)
    <3>1. Quiet([Session("Backfill", l, "hold", l) EXCEPT
                    !.driver = loads[l].driver, !.amount = BackfillAmount(l)])
      BY <1>0, FirstQuiet, Zenon
    <3>. QED
      BY <2>6, <3>1, Zenon DEF SendBackfill
  <2>7. \A kind : SendCancel(s, l, kind) => \E t : Send(s, t) /\ Quiet(t)
    BY <1>0, FirstQuiet, Zenon DEF SendCancel
  <2>. QED
    BY <1>1, <2>1, <2>2, <2>3, <2>4, <2>5, <2>6, <2>7 DEF SendLoadRequest
<1>2. ASSUME NEW b \in Bids, SendCancelBid(s, b) PROVE \E t : Send(s, t) /\ Quiet(t)
  <2>1. Credits(Change(BidStatusOf(b), "Cancelled")) = {}
    BY CreditsOf
  <2>2. Quiet([Session("CancelBid", b, "save", bids[b].load) EXCEPT
                  !.write = Change(BidStatusOf(b), "Cancelled")])
    BY <2>1, FirstQuiet, Zenon
  <2>. QED
    BY <1>2, <2>2 DEF SendCancelBid
<1>3. ASSUME NEW b \in Bids, SendAcceptBid(s, b) PROVE \E t : Send(s, t) /\ Quiet(t)
  <2>1. Credits(Change(BidStatusOf(b), "Accepted") ++ AssignTo(bids[b].load, bids[b].driver)) = {}
    BY CreditsOf DEF AssignTo
  <2>2. Quiet([Session("AcceptBid", b, "others", bids[b].load) EXCEPT
                  !.driver = bids[b].driver, !.amount = bids[b].amount,
                  !.write = Change(BidStatusOf(b), "Accepted")
                            ++ AssignTo(bids[b].load, bids[b].driver)])
    BY <2>1, FirstQuiet, Zenon
  <2>. QED
    BY <1>3, <2>2 DEF SendAcceptBid
<1>4. ASSUME NEW i \in Listings, SendListingRequest(s, i) PROVE \E t : Send(s, t) /\ Quiet(t)
  <2>1. ASSUME NEW l, NEW amount, SendCreateOffer(s, i, l, amount) PROVE \E t : Send(s, t) /\ Quiet(t)
    <3>. DEFINE new == {[status |-> "Pending", listing |-> i, load |-> l, amount |-> amount]}
    <3>1. Quiet([Session("CreateOffer", <<i, l>>, "save", l) EXCEPT !.newOffer = new])
      BY <1>0, FirstQuiet, Zenon
    <3>. QED
      BY <2>1, <3>1 DEF SendCreateOffer
  <2>2. Credits(Change(ListingStatusOf(i), "Cancelled")) = {}
    BY CreditsOf
  <2>3. CASE SendCancelListing(s, i)
    <3>1. Quiet([Session("CancelListing", i, "save", None) EXCEPT
                    !.write = Change(ListingStatusOf(i), "Cancelled")])
      BY <2>2, FirstQuiet, Zenon
    <3>. QED
      BY <2>3, <3>1 DEF SendCancelListing
  <2>4. CASE SendAdminCancelListing(s, i)
    <3>1. Quiet([Session("AdminCancelListing", i, "others", None) EXCEPT
                    !.write = Change(ListingStatusOf(i), "Cancelled")])
      BY <2>2, FirstQuiet, Zenon
    <3>. QED
      BY <2>4, <3>1 DEF SendAdminCancelListing
  <2>. QED
    BY <1>4, <2>1, <2>3, <2>4 DEF SendListingRequest
<1>5. ASSUME NEW o \in Offers, SendOfferRequest(s, o) PROVE \E t : Send(s, t) /\ Quiet(t)
  <2>1. CASE SendAcceptOffer(s, o)
    <3>. DEFINE i == offers[o].listing
                w == Change(OfferStatusOf(o), "Accepted") ++ Change(ListingStatusOf(i), "Matched")
                     ++ AssignTo(offers[o].load, ListingDriver[i])
    <3>1. Credits(w) = {}
      BY CreditsOf DEF AssignTo
    <3>2. Quiet([Session("AcceptOffer", o, "others", offers[o].load) EXCEPT
                    !.driver = ListingDriver[i], !.amount = OfferedAmount(o), !.write = w])
      BY <3>1, FirstQuiet, Zenon
    <3>. QED
      BY <2>1, <3>2 DEF SendAcceptOffer
  <2>2. ASSUME NEW kind, NEW status, SendCloseOffer(s, o, kind, status)
        PROVE  \E t : Send(s, t) /\ Quiet(t)
    <3>1. Credits(Change(OfferStatusOf(o), status)) = {}
      BY CreditsOf
    <3>2. Quiet([Session(kind, o, "save", offers[o].load) EXCEPT
                    !.write = Change(OfferStatusOf(o), status)])
      BY <3>1, FirstQuiet, Zenon
    <3>. QED
      BY <2>2, <3>2 DEF SendCloseOffer
  <2>. QED
    BY <1>5, <2>1, <2>2 DEF SendOfferRequest
<1>6. ASSUME NEW p \in Payments, SendAdminRelease(s, p) PROVE \E t : Send(s, t) /\ Quiet(t)
  <2>1. Quiet([Session("AdminRelease", p, "blocked", payments[p].load) EXCEPT
                  !.driver = loads[payments[p].load].driver])
    BY <1>0, FirstQuiet, Zenon
  <2>. QED
    BY <1>6, <2>1 DEF SendAdminRelease
<1>. QED
  BY <1>1, <1>2, <1>3, <1>4, <1>5, <1>6 DEF SendRequest

\* A step that leaves the tables alone keeps what customers are paid back, ...
LEMMA PaidBackUnchanged ==
    ASSUME log' = log
    PROVE  /\ \A l \in Loads : Total(l, "CustomerRefund")' = Total(l, "CustomerRefund")
           /\ \A l \in Loads : RowsOf(l, "CustomerRefund")' = RowsOf(l, "CustomerRefund")
           /\ \A c : PaidBack(c)' = PaidBack(c)
<1>1. \A l \in Loads : Total(l, "CustomerRefund")' = Total(l, "CustomerRefund")
  BY DEF Total, SumOfRows, SumOver, MapThenSumSet, MapThenFoldSet
<1>2. \A l \in Loads : RowsOf(l, "CustomerRefund")' = RowsOf(l, "CustomerRefund")
  BY DEF RowsOf
<1>. QED
  BY <1>1, <1>2, PaidBackSame

\* ... and the wallets in order, as long as what the session has in store fits.
LEMMA StepKeepsWallets ==
    ASSUME TxInv, WalletInv, NEW s \in Sessions, NEW t, Step(s, t), t = Idle \/ CreditFits(t)
    PROVE  WalletInv'
<1>1. /\ log' = log /\ wallet' = wallet
      /\ \A u \in Sessions : tx'[u] = IF u = s THEN t ELSE tx[u]
  BY DEF Step, vars, TxInv, SessionsGood
<1>2. /\ \A l \in Loads : Total(l, "CustomerRefund")' = Total(l, "CustomerRefund")
      /\ \A l \in Loads : RowsOf(l, "CustomerRefund")' = RowsOf(l, "CustomerRefund")
      /\ \A c : PaidBack(c)' = PaidBack(c)
  BY <1>1, PaidBackUnchanged
<1>3. \A l \in Loads : Total(l, "CustomerRefund") \in Nat
  BY DEF WalletInv
<1>4. \A c \in Customers : PaidBack(c)' \in Nat /\ PaidBack(c) =< PaidBack(c)'
  BY <1>2, <1>3, PaidBackType
<1>5. \A c \in Customers : WalletFits(c)'
  BY <1>1, <1>2 DEF WalletInv, WalletFits, OneLoadRefunded
<1>6. ASSUME NEW u \in Busy' PROVE CreditFits(tx[u])'
  <2>1. u \in Sessions /\ tx'[u].pc # "idle"
    BY <1>6 DEF Busy
  <2>2. tx'[u] # Idle
    BY <2>1 DEF Idle
  <2>3. PICK x : x = tx'[u]
    OBVIOUS
  <2>4. CreditFits(x)
    BY <1>1, <2>1, <2>2, <2>3 DEF WalletInv, Busy
  <2>5. CreditFits(x)'
    BY <1>3, <1>4, <2>4, CreditStays
  <2>. QED
    BY <2>3, <2>5 DEF CreditFits, Clean, Staged
<1>. QED
  BY <1>2, <1>3, <1>5, <1>6 DEF WalletInv

\* A request that is sent has no refund in store.
LEMMA SendKeepsWallets ==
    ASSUME TxInv, WalletInv, NEW s \in Sessions, SendRequest(s)
    PROVE  WalletInv'
<1>1. PICK t : Send(s, t) /\ Quiet(t)
  BY SentQuiet
<1>2. CreditFits(t)
  BY <1>1, CleanFits DEF Quiet
<1>. QED
  BY <1>1, <1>2, StepKeepsWallets DEF Send, Step

\* Neither has one that goes on before it saves, ...
LEMMA BusyCredit ==
    ASSUME TxInv, WalletInv, NEW s \in Sessions, tx[s].pc # "idle"
    PROVE  /\ Whole(tx[s]) /\ GoodSession(tx[s]) /\ CreditFits(tx[s])
           /\ tx[s].pc \notin {"save", "lockload"} => Clean(tx[s])
<1>1. s \in Busy
  BY DEF Busy
<1>. QED
  BY <1>1, BusySession DEF WalletInv, CreditFits, GoodSession

\* ... for rejecting others, ...
LEMMA RejectKeepsWallets ==
    ASSUME TxInv, WalletInv, NEW s \in Sessions, RejectOthers(s) \/ RejectRow(s)
    PROVE  WalletInv'
<1>1. tx[s].pc \in {"others", "reject"}
  BY DEF RejectOthers, RejectRow
<1>2. PICK u : u = tx[s]
  OBVIOUS
<1>3. Whole(u) /\ CreditFits(u) /\ Clean(u)
  BY <1>1, <1>2, BusyCredit
<1>4. CASE RejectOthers(s)
  <2>1. PICK todo, pc : todo = Rivals(u) /\ pc = IF todo = {} THEN AfterReject(u) ELSE "reject"
    OBVIOUS
  <2>2. PICK t : t = [u EXCEPT !.todo = todo, !.pc = pc]
    OBVIOUS
  <2>3. Step(s, t)
    BY <1>2, <1>4, <2>1, <2>2 DEF RejectOthers
  <2>4. t.todo = todo /\ t.write = u.write /\ t.newLog = u.newLog
    BY <1>3, <2>2 DEF Whole
  <2>5. \A cell \in todo, c \in Customers : cell # WalletOf(c)
    BY <2>1 DEF Rivals, BidStatusOf, OfferStatusOf, WalletOf
  <2>6. CreditFits(t)
    BY <1>3, <2>4, <2>5, CleanFits DEF Clean
  <2>. QED
    BY <2>3, <2>6, StepKeepsWallets
<1>5. CASE RejectRow(s)
  <2>1. PICK cell \in u.todo :
           LET rest == u.todo \ {cell}
               next == [u EXCEPT !.todo = rest,
                                 !.pc = IF rest = {} THEN AfterReject(u) ELSE "reject"]
           IN  Step(s, IF StillPending(cell)
                       THEN [next EXCEPT !.write = Change(cell, "Rejected") ++ @,
                                         !.locks = @ \cup {RowAt(cell)}]
                       ELSE next)
    BY <1>2, <1>5 DEF RejectRow
  <2>2. PICK rest, pc : rest = u.todo \ {cell} /\ pc = IF rest = {} THEN AfterReject(u) ELSE "reject"
    OBVIOUS
  <2>3. PICK next : next = [u EXCEPT !.todo = rest, !.pc = pc]
    OBVIOUS
  <2>4. Whole(next) /\ next.todo = rest /\ next.write = u.write /\ next.newLog = u.newLog
    BY <1>3, <2>3 DEF Whole
  <2>5. PICK w, locks : w = Change(cell, "Rejected") ++ u.write /\ locks = next.locks \cup {RowAt(cell)}
    OBVIOUS
  <2>6. PICK t : t = [next EXCEPT !.write = w, !.locks = locks]
    OBVIOUS
  <2>7. t.todo = rest /\ t.write = w /\ t.newLog = u.newLog
    BY <2>4, <2>6 DEF Whole
  <2>8. Step(s, t) \/ Step(s, next)
    BY <2>1, <2>2, <2>3, <2>4, <2>5, <2>6
  <2>9. \A x \in rest, c \in Customers : x # WalletOf(c)
    BY <1>3, <2>2 DEF CreditFits
  <2>10. Credits(w) = {}
    <3>1. \A c \in Customers : cell # WalletOf(c)
      BY <1>3 DEF CreditFits
    <3>2. Credits(Change(cell, "Rejected")) = {}
      BY <3>1 DEF Credits, Change
    <3>. QED
      BY <1>3, <2>5, <3>2, CreditsOf DEF Clean
  <2>11. CreditFits(t) /\ CreditFits(next)
    BY <1>3, <2>4, <2>7, <2>9, <2>10, CleanFits DEF Clean
  <2>. QED
    BY <2>8, <2>11, StepKeepsWallets
<1>. QED
  BY <1>4, <1>5

\* ... for a hold, ...
LEMMA HoldKeepsWallets ==
    ASSUME TxInv, WalletInv, NEW s \in Sessions, HoldCheck(s) \/ HoldDriver(s)
    PROVE  WalletInv'
<1>1. tx[s].pc \in {"hold", "driver"}
  BY DEF HoldCheck, HoldDriver
<1>2. PICK u : u = tx[s]
  OBVIOUS
<1>3. Whole(u) /\ GoodSession(u) /\ CreditFits(u) /\ Clean(u)
  BY <1>1, <1>2, BusyCredit
<1>4. CASE HoldCheck(s)
  <2>1. PICK t : t = [u EXCEPT !.pc = "driver"]
    OBVIOUS
  <2>2. Step(s, t) \/ Step(s, Idle)
    BY <1>2, <1>4, <2>1 DEF HoldCheck, Throw
  <2>3. t.todo = u.todo /\ t.write = u.write /\ t.newLog = u.newLog
    BY <1>3, <2>1 DEF Whole
  <2>4. CreditFits(t)
    BY <1>3, <2>3, CleanFits DEF Clean, CreditFits
  <2>. QED
    BY <2>2, <2>4, StepKeepsWallets
<1>5. CASE HoldDriver(s)
  <2>1. tx[s].pc = "driver" /\ TypeOK
    BY <1>5 DEF HoldDriver, TxInv
  <2>2. PICK d \in Drivers, a \in Nat : d = u.driver /\ a = u.amount
    BY <1>2, <1>3, <2>1 DEF GoodSession, WorksOn, Assigns
  <2>. DEFINE net == DriverNet(a, Corporate[d])
              w == Change(PendingOf(d), pending[d] + net) ++ u.write
              payment == [status |-> "Blocked", load |-> u.load, amount |-> CustomerTotal(a)]
              rows == <<Row("Hold", d, net), Row("Fees", d, Fees(a, Corporate[d]))>>
  <2>3. Step(s, [u EXCEPT !.pc = "save", !.write = w, !.newPayment = {payment}, !.newLog = rows])
    BY <1>2, <1>5, <2>2 DEF HoldDriver
  <2>4. Refunds(rows) = {}
    <3>1. DOMAIN rows = {1, 2} /\ rows[1].type = "Hold" /\ rows[2].type = "Fees"
      BY DEF Row
    <3>. QED
      BY <3>1 DEF Refunds
  <2>5. Credits(w) = {}
    <3>1. Credits(Change(PendingOf(d), pending[d] + net)) = {}
      BY CreditsOf
    <3>. QED
      BY <1>3, <3>1, CreditsOf DEF Clean
  <2>. HIDE DEF w, payment, rows
  <2>6. PICK t : t = [u EXCEPT !.pc = "save", !.write = w, !.newPayment = {payment}, !.newLog = rows]
    OBVIOUS
  <2>7. t.todo = u.todo /\ t.write = w /\ t.newLog = rows
    BY <1>3, <2>6 DEF Whole
  <2>8. CreditFits(t)
    BY <1>3, <2>4, <2>5, <2>7, CleanFits DEF Clean, CreditFits
  <2>. QED
    BY <2>3, <2>6, <2>8, StepKeepsWallets
<1>. QED
  BY <1>4, <1>5

\* ... and for a release, which credits a driver.
LEMMA ReleaseKeepsWallets ==
    ASSUME TxInv, WalletInv, NEW s \in Sessions, FindBlocked(s) \/ LedgerRelease(s)
    PROVE  WalletInv'
<1>1. tx[s].pc \in {"blocked", "ledger"}
  BY DEF FindBlocked, LedgerRelease
<1>2. PICK u : u = tx[s]
  OBVIOUS
<1>3. Whole(u) /\ GoodSession(u) /\ CreditFits(u) /\ Clean(u)
  BY <1>1, <1>2, BusyCredit
<1>4. CASE Step(s, Idle)
  BY <1>4, StepKeepsWallets
<1>5. CASE FindBlocked(s) /\ BlockedOn(u.load) # {}
  <2>1. PICK p : Step(s, [u EXCEPT !.pc = "ledger", !.write = Change(PaymentStatusOf(p), "Released") ++ @])
    BY <1>2, <1>5 DEF FindBlocked
  <2>2. PICK w : w = Change(PaymentStatusOf(p), "Released") ++ u.write
    OBVIOUS
  <2>3. PICK t : t = [u EXCEPT !.pc = "ledger", !.write = w]
    OBVIOUS
  <2>4. Step(s, t)
    BY <2>1, <2>2, <2>3
  <2>5. t.todo = u.todo /\ t.write = w /\ t.newLog = u.newLog
    BY <1>3, <2>3 DEF Whole
  <2>6. Credits(w) = {}
    <3>1. Credits(Change(PaymentStatusOf(p), "Released")) = {}
      BY CreditsOf
    <3>. QED
      BY <1>3, <2>2, <3>1, CreditsOf DEF Clean
  <2>7. CreditFits(t)
    BY <1>3, <2>5, <2>6, CleanFits DEF Clean, CreditFits
  <2>. QED
    BY <2>4, <2>7, StepKeepsWallets
<1>6. CASE LedgerRelease(s) /\ ~Step(s, Idle)
  <2>1. PICK d \in Drivers : d = u.driver
    BY <1>2, <1>3, <1>6 DEF LedgerRelease, GoodSession, WorksOn
  <2>. DEFINE h == LatestHold(u.load, d)
              w == Change(PendingOf(d), pending[d] - h) ++ Change(WalletOf(d), wallet[d] + h) ++ u.write
              rows == <<Row("Release", d, h)>>
  <2>2. Step(s, [u EXCEPT !.pc = "save", !.write = w, !.newLog = rows])
    BY <1>2, <1>6, <2>1 DEF LedgerRelease, Throw
  <2>3. Refunds(rows) = {}
    <3>1. DOMAIN rows = {1} /\ rows[1].type = "Release"
      BY DEF Row
    <3>. QED
      BY <3>1 DEF Refunds
  <2>4. Credits(w) = {}
    <3>1. /\ Credits(Change(PendingOf(d), pending[d] - h)) = {}
          /\ Credits(Change(WalletOf(d), wallet[d] + h)) = {}
      BY CreditsOf
    <3>. QED
      BY <1>3, <3>1, CreditsOf DEF Clean
  <2>. HIDE DEF w, rows
  <2>5. PICK t : t = [u EXCEPT !.pc = "save", !.write = w, !.newLog = rows]
    OBVIOUS
  <2>6. t.todo = u.todo /\ t.write = w /\ t.newLog = rows
    BY <1>3, <2>5 DEF Whole
  <2>7. CreditFits(t)
    BY <1>3, <2>3, <2>4, <2>6, CleanFits DEF Clean, CreditFits
  <2>. QED
    BY <2>2, <2>5, <2>7, StepKeepsWallets
<1>. QED
  BY <1>2, <1>4, <1>5, <1>6 DEF FindBlocked, Throw

\* A cancellation that locks keeps what it has; it starts over only with nothing in store.
LEMMA LocksKeepWallets ==
    ASSUME TxInv, WalletInv, NEW s \in Sessions, LockLoad(s) \/ LockPayments(s) \/ SaveRow(s)
    PROVE  WalletInv'
<1>1. tx[s].pc \in {"lockload", "lockpay", "save"}
  BY DEF LockLoad, LockPayments, SaveRow
<1>2. PICK u : u = tx[s]
  OBVIOUS
<1>3. Whole(u) /\ CreditFits(u) /\ (u.pc \notin {"save", "lockload"} => Clean(u))
  BY <1>1, <1>2, BusyCredit
<1>4. CASE LockLoad(s)
  <2>1. PICK pc, locks : /\ locks = {LoadRow(u.load)}
                         /\ pc = IF u.write = NoWrites THEN "read" ELSE "save"
    OBVIOUS
  <2>2. PICK t : t = [u EXCEPT !.locks = locks, !.pc = pc]
    OBVIOUS
  <2>3. Step(s, t)
    BY <1>2, <1>4, <2>1, <2>2 DEF LockLoad
  <2>4. t.pc = pc /\ t.load = u.load /\ t.todo = u.todo /\ t.write = u.write /\ t.newLog = u.newLog
    BY <1>3, <2>2 DEF Whole
  <2>5. u.write = NoWrites => Clean(u)
    BY <1>3, CreditsOf DEF CreditFits, Staged
  <2>6. CreditFits(t)
    BY <1>3, <2>1, <2>4, <2>5, CreditKept
  <2>. QED
    BY <2>3, <2>6, StepKeepsWallets
<1>5. CASE LockPayments(s)
  <2>1. PICK locks : locks = u.locks \cup PaymentRows(u.load)
    OBVIOUS
  <2>2. PICK t : t = [u EXCEPT !.pc = "refund", !.locks = locks]
    OBVIOUS
  <2>3. Step(s, t) /\ u.pc = "lockpay"
    BY <1>2, <1>5, <2>1, <2>2 DEF LockPayments
  <2>4. t.load = u.load /\ t.todo = u.todo /\ t.write = u.write /\ t.newLog = u.newLog
    BY <1>3, <2>2 DEF Whole
  <2>5. CreditFits(t)
    BY <1>3, <2>3, <2>4, CreditKept
  <2>. QED
    BY <2>3, <2>5, StepKeepsWallets
<1>6. CASE SaveRow(s)
  <2>1. PICK row : Step(s, [u EXCEPT !.locks = @ \cup {row}])
    BY <1>2, <1>6 DEF SaveRow
  <2>2. PICK locks : locks = u.locks \cup {row}
    OBVIOUS
  <2>3. PICK t : t = [u EXCEPT !.locks = locks]
    OBVIOUS
  <2>4. Step(s, t)
    BY <2>1, <2>2, <2>3
  <2>5. /\ t.pc = u.pc /\ t.load = u.load /\ t.todo = u.todo /\ t.write = u.write
        /\ t.newLog = u.newLog
    BY <1>3, <2>3 DEF Whole
  <2>6. CreditFits(t)
    BY <1>3, <2>5, CreditKept
  <2>. QED
    BY <2>4, <2>6, StepKeepsWallets
<1>. QED
  BY <1>4, <1>5, <1>6

\* So does one that is retried after a deadlock.
LEMMA RetryKeepsWallets ==
    ASSUME TxInv, WalletInv, NEW s \in Sessions, BreakDeadlock(s)
    PROVE  WalletInv'
<1>1. s \in Busy
  BY DEF BreakDeadlock, InDeadlock
<1>2. PICK u : u = tx[s]
  OBVIOUS
<1>3. Whole(u) /\ CreditFits(u)
  BY <1>1, <1>2, BusyCredit DEF Busy
<1>4. PICK retries : retries = u.retries + 1
  OBVIOUS
<1>5. PICK again : again = [u EXCEPT !.locks = {}, !.retries = retries]
  OBVIOUS
<1>6. PICK anew : anew = [again EXCEPT !.pc = "lockload"]
  OBVIOUS
<1>7. Step(s, Idle) \/ Step(s, anew) \/ Step(s, again)
  BY <1>2, <1>4, <1>5, <1>6 DEF BreakDeadlock, Throw
<1>8. /\ Whole(again) /\ again.pc = u.pc /\ again.load = u.load /\ again.todo = u.todo
      /\ again.write = u.write /\ again.newLog = u.newLog
  BY <1>3, <1>5 DEF Whole
<1>9. /\ anew.pc = "lockload" /\ anew.load = u.load /\ anew.todo = u.todo
      /\ anew.write = u.write /\ anew.newLog = u.newLog
  BY <1>6, <1>8 DEF Whole
<1>10. CreditFits(again) /\ CreditFits(anew)
  BY <1>3, <1>8, <1>9, CreditKept DEF CreditFits
<1>. QED
  BY <1>7, <1>10, StepKeepsWallets

LEMMA CancelReadKeepsWallets ==
    ASSUME TxInv, WalletInv, NEW s \in Sessions, CancelRead(s)
    PROVE  WalletInv'
<1>1. tx[s].pc = "read"
  BY DEF CancelRead
<1>2. PICK u : u = tx[s]
  OBVIOUS
<1>3. Whole(u) /\ CreditFits(u) /\ Clean(u)
  BY <1>1, <1>2, BusyCredit
<1>4. PICK l : l = u.load
  OBVIOUS
<1>. DEFINE w == Change(LoadStatusOf(l), "Cancelled") ++ ClosedBidWrites(l)
            d == loads[l].driver
            a == AcceptedBidAmount(l)
<1>5. Step(s, Idle) \/ \E pc : Step(s, [u EXCEPT !.pc = pc, !.driver = d, !.amount = a, !.write = w])
  BY <1>2, <1>4 DEF CancelRead, Throw
<1>6. Credits(w) = {}
  <2>1. Credits(Change(LoadStatusOf(l), "Cancelled")) = {}
    BY CreditsOf
  <2>2. Credits(ClosedBidWrites(l)) = {}
    BY DEF Credits, ClosedBidWrites, BidStatusOf, WalletOf
  <2>. QED
    BY <2>1, <2>2, CreditsOf
<1>. HIDE DEF w, d, a
<1>7. ASSUME NEW pc, Step(s, [u EXCEPT !.pc = pc, !.driver = d, !.amount = a, !.write = w])
      PROVE  WalletInv'
  <2>1. PICK t : t = [u EXCEPT !.pc = pc, !.driver = d, !.amount = a, !.write = w]
    OBVIOUS
  <2>2. t.todo = u.todo /\ t.write = w /\ t.newLog = u.newLog
    BY <1>3, <2>1 DEF Whole
  <2>3. CreditFits(t)
    BY <1>3, <1>6, <2>2, CleanFits DEF Clean, CreditFits
  <2>. QED
    BY <1>7, <2>1, <2>3, StepKeepsWallets
<1>. QED
  BY <1>5, <1>7, StepKeepsWallets

\* A refund is put on top of the wallet as it is now.
LEMMA CancelRefundKeepsWallets ==
    ASSUME TxInv, WalletInv, NEW s \in Sessions, CancelRefund(s)
    PROVE  WalletInv'
<1>1. tx[s].pc = "refund"
  BY DEF CancelRefund
<1>2. PICK u : u = tx[s]
  OBVIOUS
<1>3. Whole(u) /\ GoodSession(u) /\ CreditFits(u) /\ Clean(u) /\ TypeOK
  BY <1>1, <1>2, BusyCredit DEF TxInv
<1>4. PICK l \in Loads, d \in Drivers, a \in Nat : l = u.load /\ d = u.driver /\ a = u.amount
  BY <1>1, <1>2, <1>3 DEF GoodSession, WorksOn
<1>5. PICK saved : saved = [u EXCEPT !.pc = "save"]
  OBVIOUS
<1>6. /\ Whole(saved) /\ saved.pc = "save" /\ saved.load = l /\ saved.todo = u.todo
      /\ saved.write = u.write /\ saved.newLog = u.newLog
  BY <1>3, <1>4, <1>5 DEF Whole
<1>. DEFINE c == Owner[l]
            n(p) == RefundAmount(payments[p].amount)
            held == HoldRows(l, d) # {}
            back == IF held THEN Change(PendingOf(d), pending[d] - LatestHold(l, d)) ELSE NoWrites
            w(p) == Change(PaymentStatusOf(p), "Refunded") ++ Change(WalletOf(c), wallet[c] + n(p))
                    ++ back ++ saved.write
            rows(p) == RefundRows(l, d, p, a)
<1>7. \/ Step(s, saved)
      \/ Step(s, Idle)
      \/ \E p \in PaymentsOf(l) : Step(s, [saved EXCEPT !.write = w(p), !.newLog = rows(p)])
  BY <1>2, <1>4, <1>5 DEF CancelRefund, Throw
<1>8. CreditFits(saved)
  BY <1>3, <1>4, <1>6, CreditKept
<1>9. ASSUME NEW p \in PaymentsOf(l), Step(s, [saved EXCEPT !.write = w(p), !.newLog = rows(p)])
      PROVE  WalletInv'
  <2>1. n(p) \in Nat /\ c \in Customers
    <3>1. p \in Payments /\ payments[p].status # NoRow /\ payments[p] \in PaymentRecord
      BY <1>3 DEF PaymentsOf, TypeOK
    <3>2. payments[p].amount \in Int
      BY <3>1 DEF PaymentRecord
    <3>. QED
      BY <3>2, RefundAmountType, FreightAssumption
  <2>2. wallet[c] \in 0 .. PaidBack(c)
    BY <2>1 DEF WalletInv, WalletFits
  <2>3. OneRefund(rows(p), n(p))
    BY <1>3, OneRefundRow
  <2>4. Credits(w(p)) = {c}
    <3>1. /\ Credits(Change(PaymentStatusOf(p), "Refunded")) = {}
          /\ Credits(Change(WalletOf(c), wallet[c] + n(p))) = {c}
          /\ Credits(Change(PendingOf(d), pending[d] - LatestHold(l, d))) = {}
          /\ Credits(NoWrites) = {}
      BY <2>1, CreditsOf
    <3>2. Credits(back) = {}
      BY <3>1
    <3>3. Credits(saved.write) = {}
      BY <1>3, <1>6 DEF Clean
    <3>. HIDE DEF back, n, c
    <3>. QED
      BY <3>1, <3>2, <3>3, CreditsOf
  <2>5. w(p)[WalletOf(c)] = wallet[c] + n(p)
    <3>. HIDE DEF back, n, c
    <3>. QED
      BY DEF ++, Change, PaymentStatusOf, WalletOf
  <2>. HIDE DEF w, rows, n, c
  <2>6. PICK t : t = [saved EXCEPT !.write = w(p), !.newLog = rows(p)]
    OBVIOUS
  <2>7. /\ t.pc = "save" /\ t.load = l /\ t.todo = u.todo
        /\ t.write = w(p) /\ t.newLog = rows(p)
    BY <1>6, <2>6 DEF Whole
  <2>8. Staged(t)
    <3>1. PICK i \in Nat : Refunds(rows(p)) = {i} /\ rows(p)[i].amount = n(p)
      BY <2>3 DEF OneRefund
    <3>2. t.write[WalletOf(c)] = wallet[c] + t.newLog[i].amount
      BY <2>5, <2>7, <3>1
    <3>. QED
      BY <2>1, <2>2, <2>4, <2>7, <3>1, <3>2 DEF Staged, c
  <2>9. CreditFits(t)
    BY <1>3, <2>7, <2>8 DEF CreditFits
  <2>. QED
    BY <1>9, <2>6, <2>9, StepKeepsWallets
<1>. QED
  BY <1>7, <1>8, <1>9, StepKeepsWallets

\* What a commit does to the refund row of a load.
LEMMA CommittedTotals ==
    ASSUME TxInv, NEW s \in Busy, Commit(s), NEW l \in Loads
    PROVE  /\ RowsOf(l, "CustomerRefund") = {} => Total(l, "CustomerRefund") = 0
           /\ l # tx[s].load \/ Refunds(tx[s].newLog) = {} =>
                 /\ Total(l, "CustomerRefund")' = Total(l, "CustomerRefund")
                 /\ RowsOf(l, "CustomerRefund")' = RowsOf(l, "CustomerRefund")
           /\ l = tx[s].load => \A i \in Refunds(tx[s].newLog) :
                 /\ RowsOf(l, "CustomerRefund") = {}
                 /\ RowsOf(l, "CustomerRefund")' # {}
                 /\ Total(l, "CustomerRefund")' = tx[s].newLog[i].amount
<1>1. /\ log[l] \in Seq(LogRecord) /\ OneRefundAmong(log[l])
      /\ tx[s].newLog \in Seq(LogRecord)
  BY BusySession DEF TxInv, GoodSession, RowsFit, TypeOK
<1>2. PICK before, new, after : before = log[l] /\ new = tx[s].newLog /\ after = log'[l]
  OBVIOUS
<1>3. after \in Seq(LogRecord) /\ OneRefundAmong(after)
  BY <1>2, CommittedRest, CommittedRefunds
<1>4. after = IF l = tx[s].load THEN before \o new ELSE before
  BY <1>2 DEF Commit
<1>5. /\ RowsOf(l, "CustomerRefund") = Refunds(before)
      /\ RowsOf(l, "CustomerRefund")' = Refunds(after)
  BY <1>2 DEF RowsOf, Refunds
<1>6. /\ Total(l, "CustomerRefund") = SumOfRows(before, "CustomerRefund")
      /\ Total(l, "CustomerRefund")' = SumOfRows(after, "CustomerRefund")
  BY <1>2 DEF Total, SumOfRows, SumOver, MapThenSumSet, MapThenFoldSet
<1>7. /\ Refunds(before) = {} => SumOfRows(before, "CustomerRefund") = 0
      /\ \A i \in Refunds(before) : SumOfRows(before, "CustomerRefund") = before[i].amount
      /\ Refunds(after) = {} => SumOfRows(after, "CustomerRefund") = 0
      /\ \A i \in Refunds(after) : SumOfRows(after, "CustomerRefund") = after[i].amount
  BY <1>1, <1>2, <1>3, RefundTotal
<1>8. /\ Refunds(before \o new) = Refunds(before) \cup {Len(before) + j : j \in Refunds(new)}
      /\ \A i \in Refunds(before) : (before \o new)[i] = before[i]
      /\ \A j \in Refunds(new) : (before \o new)[Len(before) + j] = new[j]
  <2>1. before \in Seq(LogRecord) /\ new \in Seq(LogRecord)
    BY <1>1, <1>2
  <2>. QED
    BY <2>1, RefundsOfConcat
<1>9. ASSUME l # tx[s].load \/ Refunds(new) = {}
      PROVE  Refunds(after) = Refunds(before)
             /\ SumOfRows(after, "CustomerRefund") = SumOfRows(before, "CustomerRefund")
  <2>1. Refunds(after) = Refunds(before) /\ \A i \in Refunds(before) : after[i] = before[i]
    BY <1>4, <1>8, <1>9
  <2>. QED
    BY <1>7, <2>1
<1>10. ASSUME l = tx[s].load, NEW i \in Refunds(new)
       PROVE  /\ Refunds(before) = {} /\ Refunds(after) # {}
              /\ SumOfRows(after, "CustomerRefund") = new[i].amount
  <2>1. Refunds(before) = {}
    BY <1>2, <1>5, <1>10 DEF Commit, ViolatesUniqueRefund, Refunds
  <2>2. Len(before) + i \in Refunds(after) /\ after[Len(before) + i] = new[i]
    BY <1>4, <1>8, <1>10
  <2>. QED
    BY <1>7, <2>1, <2>2
<1>. QED
  BY <1>2, <1>5, <1>6, <1>7, <1>9, <1>10

\* A commit keeps the wallets in order: the row it adds and the amount it writes agree, the
\* first refund of a customer is put on an empty wallet, and what others have in store still fits.
LEMMA CommitKeepsWallets ==
    ASSUME TxInv, WalletInv, NEW s \in Sessions, Commit(s)
    PROVE  WalletInv'
<1>1. tx[s].pc = "save" /\ tx' = [tx EXCEPT ![s] = Idle]
  BY DEF Commit
<1>2. s \in Busy /\ TypeOK
  BY <1>1, InFlight DEF TxInv
<1>3. PICK u : u = tx[s]
  OBVIOUS
<1>4. CreditFits(u)
  BY <1>1, <1>3, BusyCredit
<1>5. \A l \in Loads : Total(l, "CustomerRefund") \in Nat
  BY DEF WalletInv
<1>6. \A c \in Customers : wallet'[c] = IF c \in Credits(u.write) THEN u.write[WalletOf(c)] ELSE wallet[c]
  <2>1. wallet' = [x \in Users |-> Written(s, WalletOf(x), wallet[x])]
    BY DEF Commit
  <2>. QED
    BY <1>3, <2>1 DEF Users, Written, Credits
<1>7. \A c \in Customers : PaidBack(c) \in Nat
  BY <1>5, PaidBackType
<1>8. /\ \A l \in Loads : Total(l, "CustomerRefund")' \in Nat
      /\ \A c \in Customers : PaidBack(c)' \in Nat /\ PaidBack(c) =< PaidBack(c)'
      /\ \A c \in Customers : WalletFits(c)'
  <2>1. CASE Clean(u)
    <3>1. \A l \in Loads : /\ Total(l, "CustomerRefund")' = Total(l, "CustomerRefund")
                           /\ RowsOf(l, "CustomerRefund")' = RowsOf(l, "CustomerRefund")
      BY <1>2, <1>3, <2>1, CommittedTotals DEF Clean
    <3>2. \A c \in Customers : PaidBack(c)' = PaidBack(c)
      BY <3>1, PaidBackSame
    <3>3. \A c \in Customers : wallet'[c] = wallet[c]
      BY <1>6, <2>1 DEF Clean
    <3>4. ASSUME NEW c \in Customers PROVE WalletFits(c)'
      BY <3>1, <3>2, <3>3 DEF WalletInv, WalletFits, OneLoadRefunded
    <3>. QED
      BY <1>5, <1>7, <3>1, <3>2, <3>4
  <2>2. CASE Staged(u)
    <3>1. PICK k \in Loads, c \in Customers : k = u.load /\ c = Owner[k] /\ Credits(u.write) = {c}
      BY <2>2, FreightAssumption DEF Staged
    <3>2. PICK i \in Refunds(u.newLog), read \in 0 .. PaidBack(c) :
             u.newLog[i].amount \in Nat /\ u.write[WalletOf(c)] = read + u.newLog[i].amount
      BY <2>2, <3>1 DEF Staged
    <3>3. PICK n \in Nat : n = u.newLog[i].amount
      BY <3>2
    <3>4. \A l \in Loads \ {k} : /\ Total(l, "CustomerRefund")' = Total(l, "CustomerRefund")
                                 /\ RowsOf(l, "CustomerRefund")' = RowsOf(l, "CustomerRefund")
      BY <1>2, <1>3, <3>1, CommittedTotals
    <3>5. /\ RowsOf(k, "CustomerRefund") = {} /\ Total(k, "CustomerRefund") = 0
          /\ RowsOf(k, "CustomerRefund")' # {} /\ Total(k, "CustomerRefund")' = n
      BY <1>2, <1>3, <3>1, <3>2, <3>3, CommittedTotals
    <3>6. \A l \in Loads : Total(l, "CustomerRefund")' \in Nat
      BY <1>5, <3>4, <3>5
    <3>7. PaidBack(c)' = PaidBack(c) + n
      <4>1. PaidBack(Owner[k])' =
               PaidBack(Owner[k]) - Total(k, "CustomerRefund") + Total(k, "CustomerRefund")'
        BY <1>5, <3>4, <3>6, PaidBackMore
      <4>. QED
        BY <1>7, <3>1, <3>5, <4>1
    <3>8. wallet'[c] = read + n
      BY <1>6, <3>1, <3>2, <3>3
    <3>9. wallet'[c] \in 0 .. PaidBack(c)'
      BY <1>7, <3>7, <3>8
    <3>10. ASSUME OneLoadRefunded(c)' PROVE wallet'[c] = PaidBack(c)'
      <4>1. ASSUME NEW l \in Loads, Owner[l] = c PROVE Total(l, "CustomerRefund") = 0
        <5>1. CASE l = k
          BY <3>5, <5>1
        <5>2. CASE l # k
          <6>1. RowsOf(l, "CustomerRefund")' = {}
            BY <3>1, <3>5, <3>10, <4>1, <5>2 DEF OneLoadRefunded
          <6>2. RowsOf(l, "CustomerRefund") = {}
            BY <3>4, <5>2, <6>1
          <6>. QED
            BY <1>2, <6>2, CommittedTotals
        <5>. QED
          BY <5>1, <5>2
      <4>2. PaidBack(c) = 0
        BY <1>5, <4>1, PaidBackType
      <4>. QED
        BY <3>7, <3>8, <4>2
    <3>11. ASSUME NEW x \in Customers, x # c
           PROVE  PaidBack(x)' = PaidBack(x) /\ WalletFits(x)'
      <4>1. \A l \in Loads : Owner[l] = x => l # k
        BY <3>1, <3>11
      <4>2. PaidBack(x)' = PaidBack(x)
        BY <3>4, <4>1, PaidBackSame
      <4>3. wallet'[x] = wallet[x]
        BY <1>6, <3>1, <3>11
      <4>4. OneLoadRefunded(x)' => OneLoadRefunded(x)
        BY <3>4, <4>1 DEF OneLoadRefunded
      <4>. QED
        BY <4>2, <4>3, <4>4 DEF WalletInv, WalletFits
    <3>12. WalletFits(c)'
      BY <3>9, <3>10 DEF WalletFits
    <3>. QED
      BY <1>7, <3>6, <3>7, <3>11, <3>12
  <2>. QED
    BY <1>4, <2>1, <2>2 DEF CreditFits
<1>9. ASSUME NEW v \in Busy' PROVE CreditFits(tx[v])'
  <2>1. v \in Sessions /\ v # s /\ tx'[v] = tx[v]
    BY <1>1, <1>9 DEF Busy, Idle, TxInv, SessionsGood
  <2>2. PICK x : x = tx[v]
    OBVIOUS
  <2>3. CreditFits(x)
    BY <1>9, <2>1, <2>2 DEF WalletInv, Busy
  <2>4. CreditFits(x)'
    BY <1>5, <1>8, <2>3, CreditStays
  <2>. QED
    BY <2>1, <2>2, <2>4 DEF CreditFits, Clean, Staged
<1>. QED
  BY <1>8, <1>9 DEF WalletInv

LEMMA WalletInvStart == TxInit => WalletInv
<1>. SUFFICES ASSUME TxInit PROVE WalletInv
  OBVIOUS
<1>1. ASSUME NEW l \in Loads
      PROVE  Total(l, "CustomerRefund") = 0 /\ RowsOf(l, "CustomerRefund") = {}
  <2>1. log[l] = <<>> /\ <<>> \in Seq(LogRecord) /\ Refunds(<<>>) = {}
    BY RefundsOfNone DEF TxInit, Init
  <2>2. PICK rows : rows = log[l]
    OBVIOUS
  <2>3. OneRefundAmong(rows) /\ SumOfRows(rows, "CustomerRefund") = 0
    BY <2>1, <2>2, RefundTotal DEF OneRefundAmong
  <2>. QED
    BY <2>1, <2>2, <2>3 DEF Total, RowsOf, Refunds
<1>2. \A c \in Customers : PaidBack(c) = 0
  BY <1>1, PaidBackType
<1>3. \A c \in Customers : wallet[c] = 0
  BY DEF TxInit, Init, Users
<1>4. Busy = {}
  BY DEF TxInit, Busy, Idle
<1>. QED
  BY <1>1, <1>2, <1>3, <1>4 DEF WalletInv, WalletFits

LEMMA WalletInvStep == TxInv /\ WalletInv /\ [TxNext]_txVars => WalletInv'
<1>. SUFFICES ASSUME TxInv, WalletInv, [TxNext]_txVars PROVE WalletInv'
  OBVIOUS
<1>1. ASSUME NEW s \in Sessions, Proceed(s) PROVE WalletInv'
  <2>1. CASE RejectOthers(s) \/ RejectRow(s) \/ HoldCheck(s) \/ HoldDriver(s)
    BY <2>1, RejectKeepsWallets, HoldKeepsWallets
  <2>2. CASE FindBlocked(s) \/ LedgerRelease(s)
    BY <2>2, ReleaseKeepsWallets
  <2>3. CASE LockLoad(s) \/ CancelRead(s) \/ LockPayments(s) \/ CancelRefund(s)
    BY <2>3, LocksKeepWallets, CancelReadKeepsWallets, CancelRefundKeepsWallets
  <2>4. CASE SaveRow(s) \/ Commit(s) \/ BreakDeadlock(s)
    BY <2>4, LocksKeepWallets, CommitKeepsWallets, RetryKeepsWallets
  <2>5. CASE RefuseDuplicate(s)
    BY <2>5, StepKeepsWallets DEF RefuseDuplicate, Throw
  <2>. QED
    BY <1>1, <2>1, <2>2, <2>3, <2>4, <2>5 DEF Proceed
<1>2. CASE Publish \/ UNCHANGED txVars
  <2>1. log' = log /\ wallet' = wallet /\ tx' = tx
    BY <1>2 DEF Publish, CreateLoad, CreateListing, txVars, vars
  <2>2. /\ \A l \in Loads : Total(l, "CustomerRefund")' = Total(l, "CustomerRefund")
        /\ \A l \in Loads : RowsOf(l, "CustomerRefund")' = RowsOf(l, "CustomerRefund")
        /\ \A c : PaidBack(c)' = PaidBack(c)
    BY <2>1, PaidBackUnchanged
  <2>3. \A l \in Loads : Total(l, "CustomerRefund") \in Nat
    BY DEF WalletInv
  <2>4. \A c \in Customers : PaidBack(c)' \in Nat /\ PaidBack(c) =< PaidBack(c)'
    BY <2>2, <2>3, PaidBackType
  <2>5. \A c \in Customers : WalletFits(c)'
    BY <2>1, <2>2 DEF WalletInv, WalletFits, OneLoadRefunded
  <2>6. ASSUME NEW v \in Busy' PROVE CreditFits(tx[v])'
    <3>1. PICK x : x = tx[v]
      OBVIOUS
    <3>2. CreditFits(x)'
      BY <2>1, <2>3, <2>4, <2>6, <3>1, CreditStays DEF WalletInv, Busy
    <3>. QED
      BY <2>1, <3>1, <3>2 DEF CreditFits, Clean, Staged
  <2>. QED
    BY <2>2, <2>3, <2>5, <2>6 DEF WalletInv
<1>. QED
  BY <1>1, <1>2, SendKeepsWallets DEF TxNext

\* Each load has one refund row, at most; a customer's wallet never holds more than the refund
\* rows of his loads say, and, as long as only one of them was refunded, exactly that, however
\* cancellations of one load overlap, deadlock and are retried.
THEOREM RefundPaidOnceHolds == TxSpec => []RefundPaidOnce
<1>1. TxInit => TxInv /\ WalletInv
  BY TxInvStart, WalletInvStart
<1>2. TxInv /\ WalletInv /\ [TxNext]_txVars => (TxInv /\ WalletInv)'
  BY TxInvStep, WalletInvStep
<1>3. WalletInv /\ OneRefundRowEach => RefundPaidOnce
  BY DEF WalletInv, WalletFits, RefundPaidOnce
<1>. QED
  BY <1>1, <1>2, <1>3, OneRefundRowHolds, PTL DEF TxSpec

===============================================================================
