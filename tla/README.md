# Formal model of YÜK-LE

TLA+ specifications, TLC model checks and TLAPS proofs for YÜK-LE, a freight marketplace:
customers publish loads, drivers bid on them or publish listings that customers make offers to,
the price is held in escrow, the driver picks up, arrives and delivers, and the escrow is released
to him or refunded to the customer. The models cover the back end and both of its clients, the
web pages and the phone app.

Paths are relative to `apps/api/Yukle.Api/` unless they start with `apps/` or `docs/`; *web* is
`apps/web/src/`, *phone* is `apps/mobile/yukle-mobile/`.

| file | what it is |
|---|---|
| `Settlement.tla` | how a price is split, rounded and refunded |
| `Freight.tla` | the load life cycle and its escrow, one action per request |
| `FreightTx.tla` | the same requests, several at a time, one action per SQL statement; implements `Freight` |
| `Sums.tla`, `SumsProofs.tla` | sums over finite sets of rows, and theorems about them |
| `FreightProofs.tla` | theorems about `Settlement` and `Freight` |
| `FreightTxProofs.tla` | theorems about `FreightTx`: what holds whatever overlaps |
| `Notices.tla` | what the outbox to the ministry promises |
| `UetdsOutbox.tla` | the worker that keeps the promise; implements `Notices` |
| `UetdsOutboxProofs.tla` | theorems about `UetdsOutbox`, the refinement among them |
| `Sessions.tla` | sign-in, token renewal and its replay defence, the clients' request queues |
| `Registration.tla`, `Onboarding.tla` | how an account comes to be, and a driver's papers; `Onboarding` extends `Registration` |
| `AccountsProofs.tla` | theorems about `Sessions`, `Registration` and `Onboarding` |
| `Pages.tla`, `CustomerPages.tla`, `DriverPages.tla`, `AdminPages.tla` | what each page fetches and which buttons it shows |
| `Screens.tla` | one of those pages open over the requests of `Freight` |
| `ScreensProofs.tla` | theorems about `Screens` and the pages in it |
| `LoadForm.tla` | the form in which a load is written or edited |
| `LoadFormProofs.tla` | theorems about `LoadForm` |
| `SupportDesk.tla`, `LoadChat.tla`, `Position.tla`, `Ratings.tla`, `Bell.tla`, `AddressBook.tla`, `DriverProfile.tla`, `Limits.tla` | eight parts that share no state |
| `Panels.tla` | these eight in one specification |
| `PanelsProofs.tla` | theorems about the eight |
| `MC*.tla`, `MC*.cfg` | the instances for TLC |
| `PROJECT.json` | components, runs, mutants, map to the source, findings, hazards, theorems |

## 1. The system

.NET 9, ASP.NET Core, EF Core on PostgreSQL at READ COMMITTED. A controller calls a scoped
service; controller, service, notification service and ledger of one request share one
`DbContext`. Background jobs and SignalR hubs open scopes of their own. **No entity has a
concurrency token**: an `UPDATE` writes the changed columns as absolute values, whatever the row
has become since it was read. A cancellation and its refund take `SELECT ... FOR UPDATE` row
locks (`Infrastructure/PostgresRowLock.cs`); nothing else does. The clients are a React site and
an Expo app; both keep what they fetched in the state of a page, poll some of it, and receive
SignalR pushes for chat and notifications only.

### Components

| component | state | operations | what makes it correct | in the model |
|---|---|---|---|---|
| Settlement calculator (`Services/WalletSettlementCalculator.cs`, the two option readers) | none | split of a price, refund | the parts add up to what the customer pays; a refund is never negative nor more than was paid | `Settlement` |
| Loads (`LoadService`, `LoadEditService`, `LoadCancellationRules`) | `Loads.Status/DriverId/Price`, `UetdsOutboxes` | create, edit, pick up, deliver | forward only; the outbox follows the trip; a delivered load is settled | `Freight`, `FreightTx` |
| Arrival (`LocationController`, `TrackingHub`) | `Loads.Status` | OnWay → Arrived within the radius | only ever overwrites OnWay | `Freight`, `FreightTx` |
| Bids (`BidService`) | `Bids` | submit, cancel, accept with bulk rejection and hold | one agreement per load | `Freight`, `FreightTx` |
| Listings and offers (`DriverListingService`) | `DriverListings`, `ListingOffers` | create, cancel, moderate; offer, reject, withdraw, accept | one agreement per load, across both markets | `Freight`, `FreightTx` |
| Escrow and ledger (`MockPaymentService`, `WalletLedgerService`) | `PaymentTransactions`, balances of `Users`, `WalletAuditLogs` | hold, release, refund | at most one Blocked payment per load; balances equal the ledger and cover what is to be paid; one refund, one release | `Freight`, `FreightTx` |
| Cancellation (`CancellationService`, `PostgresRowLock`) | the above | customer or administrator cancels | refund once; bids closed; retry is harmless | `Freight`, `FreightTx` |
| Administration of loads and money (`AdminController`) | the above | release a payment, cancel a load or listing | as above | `Freight`, `FreightTx` |
| Backfill (`BackgroundServices/PaymentBackfillJob.cs`) | the above | at start-up: hold again for loads in transit without a Blocked payment | idempotent | `Freight` |
| Database (`Data/YukleDbContext.cs`, `Program.cs`) | transactions, locks | retry on deadlock, unique refund index | every request ends | `FreightTx` |
| U-ETDS worker (`BackgroundServices/UetdsBackgroundWorker.cs`) | `UetdsOutboxes.Status/RetryCount` | poll, send ≤ 50, save once | at least once, in order, eventually | `Notices`, `UetdsOutbox` |
| Sign-in and renewal (`AuthService`, `TokenService`; web `api/client.ts`, `store/auth.ts`; phone `src/services/api.client.ts`) | one refresh token per account; each device's stored tokens; the clients' queues | sign in, renew, close on replay, sign out | the owner is not shut out; a sign-out lasts; every request is answered | `Sessions` |
| Registration (`AuthController`, `AuthService`; web `pages/auth/`, phone `app/(auth)/`) | account, code; the form and the number a page holds | register, verify, send again, log in, reset | what the page lets through the server takes; there is always a way on | `Registration` |
| Onboarding (`AuthService`, `AdminController`; both Documents, Reviews and Users pages) | status, activity, papers of `Users`; administrators' views | upload through the AI, decide, suspend, activate | active means papers; an administrator is told what he did, and decides what he saw | `Onboarding` |
| Pages on loads, bids, listings, payments (web `pages/{customer,driver,admin}`, phone `app/(customer|driver|admin)`) | fetched rows | open, press, patch or fetch again | a button is a request the server accepts; the price shown is the price agreed | `Pages`, `*Pages`, `Screens` |
| Form of a load (web `LoadCreate.tsx`, phone `create-load.tsx`) | fields, pins, suggestion, saves in flight | fill in, go on, ask for a price, save, edit, cancel | what it sends the server takes; saved once; what was not touched stays | `LoadForm` |
| Support (`SupportController`, both clients' desks) | tickets, messages | ask, AI answers, hand over, answer, close | whoever waits for a person is in a person's list; a page writes into the ticket it shows | `SupportDesk` |
| Chat (`ChatHub`, three pages) | rooms, messages | join, history, push, reconnect | a page that is in the room misses nothing | `LoadChat` |
| Position (`LocationController`, `useDriverLocationTracking`, `ActiveLoad.tsx`, followers) | last position per driver, timers | share, post, follow | positions only of the trip under way | `Position` |
| Ratings (`RatingsController`) | rows, running average | rate, delete | average = rows | `Ratings` |
| Notifications (`NotificationService`, phone store) | rows, badge | push, count, mark | badge = unread rows | `Bell` |
| Addresses and profiles (`DeliveryAddressesController`, `UsersController`) | addresses, company text, profile | edit, default, delete | one default; what was typed stays | `AddressBook`, `DriverProfile` |
| Limits on messages and tries (`AuthService`) | counters and a blacklist in the cache | count, refuse, shut out, let in again | a limit holds; nobody else is shut out | `Limits` |
| Clean-up of accounts (`BackgroundServices/DocumentCleanupJob.cs`) | none | select, delete by key | nobody goes who was let in | `Onboarding` |
| Gemini queue (`BackgroundServices/GeminiTaskQueue.cs`, `GeminiQueueProcessor.cs`) | two channels | enqueue, process | documents are not starved by prices | not modelled |
| Matching, pricing, fuel, routes, seeders, encryption, SMS, dashboards, marketing, shared package | — | — | — | not modelled: see the end |

### How they interact

* `LoadsController`, `BidsController`, `DriverListingController` → one service each, which call
  `IPaymentService` (`MockPaymentService`) → `WalletLedgerService`, all inside the request's
  transaction; notifications follow the commit.
* `AdminController` calls `MockPaymentService` and `CancellationService` directly.
* Bids and listings do not know each other: they meet only in `Load.Status` and in the test for a
  Blocked payment.
* `LoadService` writes outbox rows that the U-ETDS worker reads later.
* `PaymentBackfillJob` runs in `StartAsync`, before this server takes requests; in `FreightTx` it
  overlaps with the requests of another server on the same database (a rolling restart).
* A page meets the back end twice: when it fetches, and when a button is pressed. In between the
  rows go on without it (`Screens`), and so does the row an upload or an administrator's page has
  read (`Onboarding`).
* All tabs of a browser share one stored session, each phone has its own, and all of them share
  the account's only refresh token (`Sessions`).
* Registration hands over to onboarding: a verified customer may work, a verified driver uploads.
* The position of a driver decides the arrival, and so the status of his load.

### What is hard

Read-check-write requests that overlap without locks; the same row reached through two markets;
the retry of a transaction on the context of its first attempt; lock orders that differ
(`ExecuteUpdate` first, `SaveChanges` in table order, cancellation load first); money that is
rounded part by part; long sequences of legal requests (early release, restart, delivery); slow
calls to an AI between a read and a save; pages that act on rows they read once; answers that
overtake each other or are lost; effects and timers that outlive the page state they were set up
for; two sets of rules, the form's and the server's, for one input. The full list, each with its
line, is `hazards` in `PROJECT.json`.

## 2. The modules and the code

### Settlement

Money is counted in kuruş, rates in ten-thousandths, so that `decimal.Round(x, 2,
AwayFromZero)` is an integer division (`RoundShare`). `RatesAssumption` is what the two option
readers let through; nothing bounds a rate from above. `Fees` merges the three audit rows of a
hold that are not the driver's (`Commission`, `CustomerCommission`, `Tax`).
The refund percentage is an integer.

### Freight: requests one at a time

One variable per table. One action is one **whole request**, its transaction included, with every
call it makes: `Deliver` changes the load, writes the outbox, releases the payment, moves the
balance and writes the audit row. A request that throws rolls back, so a throw is an action that
is not enabled. The pools `Bids`, `Offers`, `Payments`, `Loads`, `Listings` are the primary keys a
run may use; they are the bounds of the state space and nothing else is bounded.

`RefundEscrow` keeps the unordered `FirstOrDefaultAsync` of `MockPaymentService.cs:122`: **any**
payment of the load may be the one it looks at.

`LoadsController` asks for more before it calls `DeliverAsync`: the customer's code and a position of the driver near the
destination (`LoadsController.cs:366-424`). `Freight.Deliver` has neither, so its deliveries are more than the code allows and what
holds of them holds of the code; `Screens` has both.

### FreightTx: requests as SQL statements

`tx[s]` is a request in flight: the changed columns of its tracked copies (`write`), the rows it
will insert, the row locks it holds, its program counter. The tables of `Freight` are the
committed database; nothing uncommitted is visible.

| code | actions |
|---|---|
| read, check, save | `SendX` (the reads on which all checks are made) … `SaveRow`\* `Commit` |
| `AcceptBidAsync`, `AcceptOfferAsync` | `Send`, `RejectOthers`/`RejectRow` (the bulk `UPDATE`, row by row, testing again a row it waited for), `HoldCheck`, `HoldDriver`, save |
| `DeliverAsync`, `ReleasePayment` | `Send`, `FindBlocked`, `LedgerRelease`, save |
| `CancelAsync` | `Send`, `LockLoad`, `CancelRead`, `LockPayments`, `CancelRefund`, save |
| `SaveChangesAsync` | `SaveRow` takes the locks table by table (`Rank`), `Commit` makes everything visible |
| unique index on a load's refund row | `ViolatesUniqueRefund`, `RefuseDuplicate` |
| foreign keys to `Loads` | `BarredFrom`: an insert waits for a cancellation's `FOR UPDATE` |
| deadlock detector, `EnableRetryOnFailure` | `InDeadlock`, `BreakDeadlock`: retried with the **same** context |

The retry matters: `CancelAsync` runs its whole body again, but the context still tracks the load
as `Cancelled`, so the second attempt takes the early return and saves what the first computed.

Abstractions: `LockPayments` takes a load's payment rows in one step; reads of one service method
that no other statement separates are one step (`CancelRefund`, `LedgerRelease`); inserted rows
appear at commit, which is when others can see them.
Only deadlocks are retried; lost connections are not modelled. Notifications are left out. A tracker's changes are functions
from the columns changed (`Change`, `++`, which a proof can expand).

### Notices and UetdsOutbox: a promise and the worker that keeps it

`Notices` has no worker: a recorded pick-up or delivery waits until it is settled, once and for
all, because the ministry has received it or has refused it three times, and a delivery is not
received before its pick-up was received or refused. `Promised` in `UetdsOutbox` maps the outbox to
it (`Fate` of a row; `told` and `refused`, what the ministry saw).

`WriteRow` is what `PickupAsync` and `DeliverAsync` insert; that the pick-up's row comes first and each
comes once is `TripFollowed` and `DeliveredIsSettled` of `Freight`. `Poll` takes the oldest due
rows into tracked copies, `SendAccepted`/`SendRefused` is one turn of the loop, `Save` writes all
copies at once. What can come between: `Crash`, `SaveFails` (the context and its marks are gone),
and `Shutdown`. The last is subtle in the code: a cancelled token makes every remaining
`Task.Delay` throw, the handler counts each as a failed attempt (`SendCancelled`), and then the
save throws on the same token (`SaveCancelled`), so none of it is recorded.

The ministry is outside. Its call is a mock that always succeeds in this build
(`MinistryMayFail = FALSE`); with `TRUE`, which the run uses, it may refuse, or accept and lose the
answer, which is what the retry code is for. One worker is modelled: two servers on one database
would each send, for the worker claims nothing.

### Sessions

A number stands for the pair of tokens issued together; `expired` says up to which number the
access tokens have run out. `disk` is what each device persists, `shown` what a client's store in
memory says, `req` the requests with their interceptor's marks, `refresh` a renewal in flight,
`login` a sign-in answer in flight.

| code | actions |
|---|---|
| `RefreshTokenAsync`: read, compare, then rotate or close the account | `ReadUser`, `Rotate`, `CloseAccount`: two statements, so that two renewals may overlap |
| the interceptors' 401 branch | `Serve`, `GiveUp`, `Join` (a renewal is under way), `StartRenewal`, `NothingToRenew` |
| the answer of the renewal, and the queue it empties | `Refreshed`, `RefreshFailed`, `LoseRenewal`; `ResentFirst`/`Resent` differ because the page marks only the first request as retried, the phone all |
| the sign-in form and the store | `LogIn`, `SignIn`, `DiscardLogin`, `Logout`, `Restart` |

The page writes its new tokens into the copy of the store it read **before** the renewal
(web `api/client.ts:108`): modelled as it is. Histories (`owner`, `orphan`, `crossed`) exist to say
exactly when the replay defence may hit the owner.

### Registration and Onboarding

One person with one number. `Registration` has the form (which fields pass which side's rules), the
code page, the login that sends an unverified owner back to the code page **with a masked number**
(`AuthController` 102–121), and the three steps of a forgotten password. `Onboarding` adds the
server's row: `StartUpload` reads it, `FinishUpload` writes the columns that changed against that
copy (`Saved`), after the AI's verdict (`good`, `grey`, `bad`, `failed`). `Look`, `Press` and `Decide`
are the administrators' pages: they act on the row they show (`views`).
A second session of the driver and two uploads of one paper at once are left out.

The nightly clean-up reads a list of accounts (`SelectExpired`), deletes them by their keys without looking at
them again (`DeleteSelected`), and may stop or fail in between (`CleanupFails`); an upload that finds its row
gone fails (`UploadFails`). That an account is old enough may come true at any time. The rows that keep an account
(bids, loads, ratings, ledger, messages) all come of work, which is left out. The bound `MaxOthers` counts expiries, acts of
administrators and nights of the job; a deleted account is not registered again.

### Pages, CustomerPages, DriverPages, AdminPages, Screens

For each page three operators: `...Looks` (its fetches, with the server's query behind them),
`...Buttons` (the conditions in its JSX) and, where it acts, `...After` (does it fetch again, patch its own rows,
leave, or stay). `Screens` opens one page (`Open`), lets other requests of `Freight` pass
(`Meanwhile`, at most `MaxOthers`), and presses (`Press`, at most `MaxPresses`): the server does the whole request of
`Freight` or refuses, the answer may be lost, and the fetch after it may fail. `Overlooks` names, for
every page, what it does **not** look at before it shows a button: the property says that there is nothing else. The pools of rows are
a bound of the model: where a request needs a new row and the pool is used up, `Overlooks` says "no row left".
`Ready` gathers what each request asks of the rows before its first write. It stands for `ENABLED`, which neither a proof nor a
quick check can evaluate, and has no property of its own.

What `Freight` leaves out of a delivery and what follows it is here:

* the customer's code, made while the load is `Assigned` or `OnWay` and valid for a quarter of an hour (`ShowQr`, `QrExpires`);
* the driver's last known position. `near` holds the loads whose destination it is near enough to
  (`Delivery:MaxDistanceKm`, half a kilometre), `Moves` changes it as the driver likes. A request for an arrival
  carries a position within 200 metres, which is near; that the one distance is not set below the other is assumed.
  `EnforceGps` is `Delivery:EnforceGpsDistanceCheck`, off in Development;
* the ratings (`rated`): one of each party for a load, from any of the pages or another client (`RateLoad`), and the
  administrator may delete it (`DeleteRating`). The phone's trip page notes for itself, while it is open, that it has
  rated; that note is left out. The rating form of the phone's page of one past trip (`history-detail.tsx`) is not
  among the pages.

`PhoneTrip` looks for the trip on the first page of twenty loads (`PhoneTripCrowded` is the page that does not find
it), the web asks for all pages in turn. To both, the server's list shows of a driver's own loads only the latest
(`GetActiveLoads`), so an older trip waits for its turn.

### LoadForm

One form, of one of three kinds (web, phone, edit on the phone), against `CreateLoadDto` and `LoadEditService`. `Fill`
and its parts are the fields, `Forward`/`Back` the steps with their checks, `Suggest` … `Hear` the price suggestion,
`Save` … `Store`/`Refuse`/`GiveUp`/`CancelCreate` the requests, `Tick` the clock. The web asks for its suggestion with
the centres of the towns (`LoadCreate.tsx:208-211`), the phone with the points the load will be stored at (`Inputs`);
whoever turns the page gives up the question, and its answer may come all the same. A city is one of the list, another
text, or one longer than the server takes, which only the web's field lets in. Numbers with limits (weight, volume,
lengths of texts) are the points on either side of each limit (`Details`). Days are counted in the user's zone on the
form and in UTC on the server.

### The eight panels

They share no state. `Panels` puts them into one specification of which one is in use, so that
their states add up and one run checks them all; each module can be read and instantiated alone.

* `SupportDesk` — a handler reads the ticket, may wait for the AI, then saves; pages poll, press,
  time out and resend. Web pages that do not give the thread a key keep their draft
  when another ticket is chosen (`Remounted` are those that do).
* `LoadChat` — the hub's rooms against what three pages take for "live"; `Reconnected` is a new
  connection, which the phone's chat joins again and the inbox does not.
* `Position` — React's effect as set-up and tear-down (`Becomes`), asynchronous on the phone
  (`Begin`); `ref` is the one timer that a clean-up knows of. A tick that is in flight when its timer is cleared posts all the same
  (`Post`, from a set-up that is done). Followers poll by the status they show.
* `Ratings` — read, save, and for a deletion two saves; the requests overlap. An average is counted in parts of a star
  (`StarParts`), enough of them for every division in it to be exact.
* `Bell` — rows, pushes, marks and counts, which cross; the badge adds and subtracts.
* `AddressBook` — the company's text lives in the first address; edits send the whole form back.
* `DriverProfile` — filled once, the IBAN masked, sent back with everything else.
* `Limits` — the counters of one phone number: read, compared and written back in separate calls of the cache, each
  with another minute to live; the blacklist of those who asked for a message too often. A registration's code and
  that of a forgotten password have a counter each; the request that sets the new password compares the second once
  more and counts nothing (`SetPassword`). `passed` counts what really went through, `uncounted` what of it no counter
  saw.

## 3. The runs

Settlement rates are the defaults (2 %, 2 %, 1 %), refund 100 %, fee 10 kuruş. The price 10.25 TRY
makes 2 % of it a half kuruş, so that rounding goes both ways. Driver `d1` is a company (no
withholding), `d2` is not. Symmetry is used in safety runs only, for keys that are
interchangeable in every definition. `CHECK_DEADLOCK FALSE` everywhere, because pools of keys and
bounds run out.

| run | cfg | bounds | shows | states |
|---|---|---|---|---|
| Freight | `MCFreight.cfg` | 2 loads, 2 drivers, 2 bids, 1 listing, 1 offer, 2 payments, 2 prices, both cancellation options on | requests one at a time | 872,013 |
| TxCompatible | `MCFreightTxCompatible.cfg` | 1 load, 1 bid, 1 listing, 1 offer, 2 payments, 2 sessions, all 17 kinds | `Atomic`: 113 of the 153 pairs of requests may overlap | 301,633 |
| TxOverlap | `MCFreightTxOverlap.cfg` | 1 load, 2 drivers, 2 bids, 2 payments, 2 sessions, every overlap of nine kinds | what survives **any** overlap, deadlock and retry | 335,966 |
| TxProgress | `MCFreightTxProgress.cfg` | as above, the kinds that can deadlock, no symmetry | `RequestsEnd` under fairness | 109,125 |
| Outbox | `MCUetdsOutbox.cfg` | 2 loads, batches of 2 of 4 rows, 1 stop, refusals | the worker implements `Notices`, and nothing waits for ever | 492,782 |
| Sessions | `MCSessions.cfg` | a tab and a phone, 3 requests, 2 sign-ins | renewals, sign-outs and lost answers in every order | 256,770 |
| Screens | `MCScreens.cfg` | 1 load, 2 drivers, 1 bid, 1 listing, 1 offer, 1 payment, 2 prices, default options, positions enforced, 2 presses and 1 foreign request per page | 30 pages, fresh and stale | 1,255,602 |
| LoadForm | `MCLoadForm.cfg` | 2 cities, a misspelt and an overlong one, 2 districts, a saved address in each town, details on either side of each limit, 3 points in time, 1 change going back, 2 saves | the form against the server | 1,442,089 |
| Accounts | `MCOnboarding.cfg` | 2 papers, 3 uploads, 2 foreign events (acts of administrators, expiries, nights of the clean-up) | from the first digit to the suspension or the deletion | 1,673,989 |
| Panels | `MCPanels.cfg` | 2 of each kind of row, 3 requests of the desk and of the ratings, 1 user's page and 1 desk, 2 lines, 2 timers, 2 requests against limits of 2, 1 uncounted code | the eight panels | 1,443,759 |
| PaidOnce | `MCFreightPaidOnce.cfg` | 1 load, 1 bid, 2 payments | finding 1 | violation |
| TxDoubleClick | `MCFreightTxDoubleClick.cfg` | 1 load, 1 bid, 2 sessions | finding 2 | violation |

**Why the bounds are enough.** `MCFreight` has both cancellation options on because each only adds behaviour: with it
off, the same guard asks for more. Two payments let one load be held, released or refunded, and held again; two loads
of one driver make the balance a sum; two bids of two drivers make rivals; the price of 5 kuruş is one whose refund
the fee swallows. Two sessions suffice for every clash of two requests; `MaxRetryCount` is 1 where the code has 5: a
second retry does what the first did. Batches of two with twice as many rows make rows wait for a later batch, which
is all the 50 of the code does; a stop interrupts a batch and the one that repeats it is free to fail. In `Sessions`,
two requests of one client make one wait in the queue while the other renews, and two devices are what the replay
defence is about; a second sign-in is what can be overwritten. In `Screens`, one foreign request makes a page stale
and two presses are a double press; one row of each kind suffices for a page whose buttons look at one row, and two
drivers make rivals. In `LoadForm`, two cities and two districts make a pin wrong, a saved address in the capital is
where a town of no list lies, the clock crosses midnight, and two saves are the retry. Two papers make "all papers"
differ from "one"; the third upload repeats one; two foreign events are a suspension and the activation after it, an
expiry and a decision, or a night of the clean-up and a hand that activates the account it has selected. In `Panels`
two of each make a mix-up possible, and three requests let one pass between the read and the save of another. The
limits on messages and codes are 3 in the code and 2 in the run: two requests that cross reach either by the same
steps, and `LimitsAreKept` is proved for any limit. The numbers of presses, saves, uploads and the like are bounds of
the model, named `Max...`.

### The properties

Requests on loads and money:

* `OneAgreement` — a load in transit or delivered has exactly one accepted bid **or** offer, by its
  driver; a load on the market has none.
* `EscrowFollowsTrip` — escrow and outbox against the load's status: `OneEscrow`, `EscrowedInTransit` and `DeliveredIsSettled`.
  (`TypeOK` and `TripFollowed`, what the outbox says of every trip, are proved and not run.)
* `BooksBalance` (drivers' pending balances and customers' payments are the sums of the audit log),
  `RefundedOnce`.
* `BlockedCanBePaid` — while a payment is Blocked, its load's driver has a hold and the pending balance that covers it: neither
  a delivery nor an early release is refused for want of money, whatever else was held or taken back.
* `ForwardOnly` — no request moves a load back, revives a cancelled one or changes its driver.
* `Atomic` — refinement: every step of `FreightTx` is one whole request of `Freight` or a stutter
  (the same variables; the mapping hides `tx`).
* `RefundPaidOnce`, `NeverOverdrawn` — one refund row per load (`OneRefundRowEach`), a customer's wallet never above
  those rows and equal to them while one of his loads was refunded; no negative pending balance, under any overlap.
* `RequestsEnd` — every request ends.

The outbox: `KeepsPromise` — refinement of `Notices`; `EventuallySettled` — every notification ends
sent or given up.

Sessions:

* `NoFalseAlarm` — the replay defence closes an account only if another device signed in since, an answer was
  lost or given up, or two of renewal, sign-in and sign-out were in flight on one device. The history
  variables name these; there is no other way to shut the owner out.
* `SignedOutStaysOut` — a device on which nobody is shown as signed in keeps no tokens, unless such a
  crossing happened.
* `RequestsAnswered` — no request waits in a queue for ever.

Screens:

* `ButtonsHonoured` — a button on a freshly opened page is a request the server accepts, except for what
  `Overlooks` lists for that page.
* `AsIfReopened` — as long as nobody else did anything, a page shows the buttons it would show if it
  were opened again: what it patches into its own rows is what the server did.
* `ShownPriceAgreed` — the price beside a button is the price of the agreement it makes, however old
  the page, but for an offer that names none.
* `PressedTwice` — pressing the same button again, after its answer was lost or the page could not be
  fetched again, changes nothing (an action property: a second request that the server would carry out changes no table).
* `TripGoesOn` — whichever of his trips with a held payment the server takes for a driver's current one, both trip
  pages, opened afresh, lead on to its end: they show the request that is next, and nothing but the driver's proofs
  can be missing from it, each of which there is or can be had (a code the customer's pages can show, a position the
  page still shares). Three exceptions: on `Arrived` no new code is made; there the phone shares no position any more;
  on a crowded board the phone does not find the trip.

LoadForm: `ServerAgrees` (what the form lets through the server takes, with five named gaps), `PointOfPlace` (the pin
belongs to the town and district, as far as the code resolves them; the web keeps a mark as long as the town's centre
stays where it is, see section 4), `SuggestionIsCurrent` (the price suggested is the answer to what the page would ask
now, however late answers are; on the web that is a question about the towns, not about the marks), `UntouchedKept`
(an edit changes nothing the user did not touch, except the vehicle type and the marked point), `SavedOnce` ("saved"
means stored as shown and published once, as long as no save was given up or cancelled before its answer).

Accounts: `ActiveHasPapers` (where an upload or a decision had the last word, and no upload was saved over a row it
had not read, flag and status agree and active means every paper is approved), `ToldTheTruth` (what the administrator
is told he did is what the row says, except on the web with a stale list), `WayOn` (the number can be typed, what the
form passes the server takes, who has registered is on the page that sends the code to his own number, who is verified
and may not work is a driver or was suspended, and a driver who is neither active nor suspended can send a paper or
has one waiting; `DeadEnd` names the exceptions: eight digits on the web, names only the server checks, an account
whose owner has left the code page before it was verified or never got to it, crossed uploads), `DecidedWhatWasShown`
(a decision changes no other paper than the one on the administrator's page, except on a stale web page),
`OnlyUnapprovedGo` (the clean-up deletes no account with an approved paper or the right to work, unless that was saved
after it had selected it, or the flag was set without the status).

Panels: `WaitingIsListed`, `WritesWhatItShows` (support), `NothingMissed` (chat),
`SharesOnlyTheTrip` (position), `AverageOfRows` (ratings: after the last request the average is the rows',
unless two overlapped), `BadgeRight` (the bell is right once nothing is in flight, unless two of them crossed), `BookInOrder`
(one default address at most, and an address says what was typed for it), `TypedStays` (a driver's profile
keeps what was typed and saved), `LimitsHold` (no more messages and wrong codes pass than the limits say and nobody else is
shut out, but for the codes that a new password is set with, which nothing counts, and unless two requests, or one and the end of its
minute, crossed).

Many of these are **exact borders**: the code does not promise the plain statement, and the property
says under which named circumstances it fails and that there are no others. The exceptions are the
divergences listed in section 4.

`OneEscrow`, `BooksBalance` and others hold for requests one at a time and are false when
some requests overlap; the next table is the exact border.

### Which requests may overlap

`ClashesWith` in `MCFreightTx` lists the 40 pairs that may not overlap on one load; TLC gives a
counterexample to `Atomic` for each, and checks the other 113 together (run TxCompatible).
Some clashes only leave a row that a serial execution would not have; others break an invariant:

| pair | breaks |
|---|---|
| SubmitBid × {SubmitBid, AcceptBid, AcceptOffer, cancellations} | `Atomic` only (a duplicate or orphaned pending bid) |
| CancelBid × cancellations; AcceptBid × {CreateOffer, EditLoad}; EditLoad × {AcceptOffer, cancellations} | `Atomic` only |
| CreateOffer × {CreateOffer, listing cancellations, cancellations}; RejectOffer × WithdrawOffer; WithdrawOffer × AdminCancelListing; AcceptOffer × listing cancellations | `Atomic` only |
| AdminCancel × Backfill, Backfill × Backfill, AdminRelease × AdminRelease | `Atomic`; the backfill runs before requests are taken, so these need a second server |
| CancelBid × AcceptBid; {RejectOffer, WithdrawOffer} × AcceptOffer | `OneAgreement` |
| AcceptBid × AcceptBid; AcceptOffer × AcceptOffer | `OneEscrow`, `BooksBalance`, then `DeliveredIsSettled` |
| AcceptBid × AcceptOffer | the same, `OneAgreement` and `ForwardOnly` |
| {AcceptBid, AcceptOffer} × cancellations | `ForwardOnly` |
| Pickup × Pickup; Deliver × Deliver | `DeliveredIsSettled` (doubled events; also `BooksBalance`) |
| Pickup × AdminCancel | `OneAgreement`, `EscrowedInTransit`, `RefundedOnce`, `ForwardOnly` |
| Arrive × Deliver | `ForwardOnly`, `DeliveredIsSettled` |
| Deliver × AdminRelease; AdminCancel × AdminRelease | `BooksBalance` (the second also `RefundedOnce`) |

On two loads of **one driver**, any two of AcceptBid, AcceptOffer, Deliver, AdminRelease,
AdminCancel, Backfill may lose an update of his balance (`WalletLedgerService.cs:22`); pairs with at most one of
them stay `Atomic`. These two facts about two loads come from explorations that are not runs here.

### Fairness

`TxFairSpec` assumes `SF(Proceed(s))` for each session. The server runs every request it
has accepted, and PostgreSQL serves the waiters of a row lock in the order they came, so a
statement that again and again could run does run. Sending a request is never assumed. Without the
deadlock detector `RequestsEnd` is false (its mutant).

`FairSpec` of `UetdsOutbox` assumes `WF(WorkerStep)`: the loop has a timer of its own and catches every
exception, and a server that stopped is started again. Stops, failed saves and refusals are never
assumed, only bounded (`MaxStops`).

`FairSessions` of `Sessions` assumes `WF(HandleRequest(r))`, `WF(ServerStep(c))` and `WF(AnswerRenewal(c))`: the
server answers, or the request fails, and a promise that is settled runs its handlers. The phone and the web's other
requests have a timeout; the web's request for a renewal has none (`client.ts`), so that it fails when its connection
does. Sending, signing in and restarting are never assumed.

### Mutants

Each property of a passing run has a mutant in `PROJECT.json`: an operator beside the definition
it replaces, changed as a plausible bug would change it (a dropped check, an inverted sort, a missing
index, a clean-up that forgets its timer), under which TLC finds the property violated.

## 4. Findings

1. **A driver can be paid twice for one load** (run PaidOnce): early release by an administrator,
   restart, backfill, delivery. The job and the documents call both steps idempotent.
2. **A double click on "accept" can block the money twice** (run TxDoubleClick). The documents
   say the status check and the transaction prevent it.

The quotes are in `PROJECT.json`. Other divergences, met while modelling and without a run of their own;
those of the clients are the exceptions the properties name.

*Loads and money*

* Two acceptances for one driver on two loads can lose a hold (`WalletLedgerService.cs:22`); the
  documents say that only the release lacks a row lock (`docs/TUTARLILIK-DENETIMI.md:163`,
  `docs/SORUN-TARAMA-3.md:145`).
* So can two cancellations of two loads of **one customer**: each reads his `WalletBalance` and writes it back
  (`WalletLedgerService.cs:150-158`), both refund rows are kept and one refund is missing in the wallet. The row locks of a
  cancellation are on the load and its payments, not on the customer. Met by TLC on two loads (an exploration; the runs
  have one load), when `RefundPaidOnce` still asked the wallet to equal the rows of all loads.
* `docs/SORUN-TARAMA-3.md:145` lists the edit among the requests with a row lock;
  `LoadEditService` takes none.
* An accepted offer leaves the load's pending bids open, although the comment at
  `DriverListingService.cs:267-269` calls its assignment identical to `AcceptBidAsync`'s, whose other
  pending bids are rejected (`docs/SISTEM-AYRINTILI.md:318`). Pending offers stay open, too, when
  their load leaves the market.
* After an early release and a second hold, the unordered query of
  `MockPaymentService.cs:122` may see the Released row first; the cancelled load then keeps a
  Blocked payment, which `docs/SISTEM-AYRINTILI.md:307` calls refunded.
* After an early release the driver's `DeliverAsync` throws until the next restart.
* A load that has arrived gets no QR code (`LoadsController.cs:344-345`), where the comment says it is used
  on arrival (`:331-332`).

*Sessions and accounts*

* One refresh token per account: a sign-in on the phone signs the browser out at its next renewal, and with
  it the phone, for the old token counts as a replay. Web: a queued request is not marked as retried.
* `ChangePassword` (`AuthService` 346–357) leaves the refresh token valid.
* Web: the field for the number takes ten characters, blanks included, so eight digits (`Register.tsx:225`,
  `ForgotPassword.tsx:106`). The code page that the login leads to has only the masked number: with it neither a code
  nor a new message finds the account, and the number cannot be registered again, so whoever leaves the code page of
  his registration before he has verified it cannot come back to it. Names of blanks, or of more than 100 letters,
  pass the form and not the server.
* `User.cs:96-101` says no code path activates a driver without papers; the administrator's switch does.
  The comment of `SuspendUser` (771–772) says that the login is refused, which needs the status Active, too.
* The clean-up job looks at the status and not at the flag that lets a driver work: an account that an administrator activated by
  hand, whose status still says PendingReview, is deleted with the rest (`DocumentCleanupJob.cs:101-118`); and what
  was approved between the selection and the deletion is not seen (`:153`). `docs/SORUN-TARAMA-3.md:27` describes an
  earlier form of the job, before it looked at the papers.
* Requests for a message at the same moment count as one, where the comments speak of a counter that is raised for each
  (`AuthService.cs:145-159`). The code of a forgotten password is counted where it is verified and not where the new
  password is set (`:329-344`), which compares it again.
* Both pages ask the AI before they upload and send nothing it does not pass: while it is down, nothing
  reaches the manual queue that exists for that. Web: a paper that went to review is shown as approved; the
  "manual" button of a review sends nothing (`Reviews.tsx:142-145`); the switch on a stale list does the
  opposite; a decision names no paper.

*Pages and forms*

* Phone: the administrator's refund is computed from another price than the payment's (`app/(admin)/(tabs)/loads.tsx`
  95–103); a driver whose bid was cancelled is offered a bid the server refuses. Both: the driver's delivery is
  offered without a look at the position the server asks for, a load he or his customer has rated already can be rated
  again on the web's load page and the phone's, in vain; the phone does not find a trip beyond the first twenty loads
  and shares no position after the arrival. Web: the bid form and the administrator's cancel buttons are shown too
  often; bid lists link to loads that may no longer be viewed.
* The web's suggestion is for the centres of the towns while the load is stored at the marks (`LoadCreate.tsx` 208–211, 128–146); its
  field for the city takes more than the 100 letters the server does.
* The form's coordinates ignore the district; on the web a mark made while the town's name was misspelt is kept when a
  saved address in the capital is chosen, where a town of no list is taken to be (`LoadCreate.tsx` 128–146); days are
  local on the form and UTC on the server; volumes below ten litres and, on the phone, long texts pass only the form;
  cancelling stops a creation but not an edit.

*Panels*

* Support: the thread has no key on the web (`MySupport:135`, administrators' `Support:93`), so an answer may be shown
  over another ticket and a draft follows the selection; time-outs shorter than the AI's answer make duplicates.
* Chat: the history's answer wipes a message that arrived meanwhile; the inbox is in no room after a
  reconnection; the phone calls itself live before it is in the room.
* Position: a set-up that is late overwrites the ref of its successor, whose timer is then never cleared;
  leaving the foreground ends sharing for good. `docs/SISTEM-AYRINTILI.md:263` says the web posts every 20 s,
  `ActiveLoad.tsx:90` every 10.
* Addresses: the company's text is kept in the first delivery address, which changes; `SetDefault` does not test that
  the row exists; the phone's edit copies `isDefault` and keeps the coordinates of the old place.
* Profile: the masked IBAN is sent back, so a save is refused until the field is emptied or typed again; an
  emptied text is kept although the page says it was saved.

Known to the project already: the duplicate bid (`docs/SORUN-TARAMA-3.md:70-72`) and the
customer's cancellation after acceptance that refunds nothing (`:85`).

## 5. The proofs

From nothing, `tlapm` takes about six minutes each on `ScreensProofs.tla` and `PanelsProofs.tla`, five on
`FreightTxProofs.tla`, three on `FreightProofs.tla`, and a minute or less on the other four. The theorems hold for
every value of the constants that satisfies the named assumptions:

* `RatesAssumption`, `FreightAssumption`: any number of loads, drivers, bids, offers and payments, any rates, both
  options; `FiniteKeys`: there are finitely many loads and payments, for sums over them to have a value;
  `SessionAssumption`: any number of sessions, any set of pairs that may overlap, any number of retries. The proofs
  about `Screens` need none of their own: any number of presses and of other people's requests.
* `OutboxAssumption`: any batch size, any number of stops, a ministry that fails or not; those of `Sessions`: any number of
  tabs, phones and requests.
* `OnboardingAssumption`: any set of papers but the empty one (a driver without papers to send would have no next
  step), any number of uploads.
* `LoadFormAssumption`: any towns, districts and saved addresses; what may be typed are numbers, and there is something to type.
* those of the panels: `RunsAssumption` (set-ups are numbered from 1), `AddressesAssumption` (an address book is
  finite), `LimitsAssumption` (limits are positive), `RatingsAssumption` (finitely many loads to rate; a star has as many parts as make
  an average of them exact). Nothing is assumed of the bell and the support desk.

Four theorems have a hypothesis about the rates. `NeverOverdrawnHolds` needs `ModestRates`, that the driver's
commission and his withholding together are less than the price; `DriversCanBePaid`, and with it `ButtonsAreHonoured`
and `TripsGoOn`, the weaker `NetsAreOwed`: no price leaves the driver less than nothing. The option readers test only
that no rate is negative. With rates above that a hold of its own takes the balance down, so the hypotheses are what
the properties mean; the defaults are 2 % and 1 %, and TLC evaluates `NetsAreOwed` on `MCFreight`.

| theorem | statement |
|---|---|
| `SplitIsComplete` | net + commissions + withholding = what the customer pays, for every price |
| `RefundIsBounded` | 0 ≤ refund ≤ payment |
| `TypeCorrect` | `Spec => []TypeOK` |
| `InvHolds` | `Spec => []FreightInv`, the inductive invariant |
| `EscrowIsUnique`, `TransitIsEscrowed`, `DeliverySettles`, `TripIsReported`, `AgreementIsUnique` | its parts |
| `EscrowHolds` | `Spec => []EscrowFollowsTrip`, the first three together |
| `TripGoesForward` | `Spec => ForwardOnly` |
| `RefundIsOnce` | `Spec => []RefundedOnce` |
| `BlockedStaysHeld`, `BooksStayBalanced` | `Spec => []BlockedIsHeld`, `[]BooksBalance`: the sums of the audit log |
| `DriversCanBePaid` | `NetsAreOwed` implies `Spec => []BlockedCanBePaid` |
| `OutboxHolds`, `OutboxTypeCorrect` | `Spec => []OutboxInv`, and its `TypeOK`, of the outbox |
| `SentIsTold`, `PickUpIsFirst`, `ThreeRefusals` | `[]SentWasTold`, `[]PickUpFirst`, `[]GivenUpAfterThree` |
| `OutboxKeepsPromise` | `Spec => KeepsPromise`: the worker implements `Notices` |
| `SessionsHold` | `[]SessionsInv`, the inductive invariant of the sign-ins |
| `DefenceSparesOwner`, `SignOutLasts` | `[]NoFalseAlarm`, `[]SignedOutStaysOut` |
| `SessionsFit`, `TablesStayTyped` | `TxSpec => []TxInv`, the inductive invariant of overlapping requests, and `[]TypeOK` |
| `NeverOverdrawnHolds` | `ModestRates` implies `TxSpec => []NeverOverdrawn` |
| `LocksExcludeHolds`, `LockedRowsAreKept` | no row is locked twice; while it is locked no other request changes it (an action property) |
| `OneRefundRowHolds` | `TxSpec => []OneRefundRowEach`, whatever overlaps and is retried |
| `RefundPaidOnceHolds` | `TxSpec => []RefundPaidOnce`: the row and the customers' wallets |
| `ScreenHolds` | `ScreenSpec => []ScreenInv`, the inductive invariant of the pages |
| `AsIfReopenedHolds`, `ShownPriceAgreedHolds` | `ScreenSpec => []AsIfReopened`, `[]ShownPriceAgreed` |
| `PressesAreRequests` | `ScreenSpec => Spec` of `Freight`: all that is proved of it holds behind the pages |
| `PressedTwiceHolds` | `ScreenSpec => PressedTwice`, an action property |
| `ButtonsAreHonoured` | `NetsAreOwed` implies `ScreenSpec => []ButtonsHonoured` |
| `TripsGoOn` | `NetsAreOwed` implies `ScreenSpec => []TripGoesOn` |
| `LoadFormHolds`, `PointOfPlaceHolds`, `SuggestionIsCurrentHolds`, `UntouchedKeptHolds`, `SavedOnceHolds`, `ServerAgreesHolds` | `[]LoadFormInv` and the five properties of the form |
| `OnboardingHolds`, `ActiveHasPapersHolds`, `ToldTheTruthHolds`, `WayOnHolds`, `OnlyUnapprovedGoHolds` | `[]OnboardingInv` and the invariants of the accounts |
| `DecidedWhatWasShownHolds` | `Spec => DecidedWhatWasShown`, an action property |
| `ChatMissesNothing`, `PositionOfTheTrip`, `BookStaysInOrder`, `ProfileKeepsTyped`, `DeskWritesWhatItShows`, `WaitingStaysListed`, `BellShowsUnread`, `LimitsAreKept`, `AverageIsOfRows` | `PanelsSpec =>` `[]NothingMissed`, `[]SharesOnlyTheTrip`, `[]BookInOrder`, `[]TypedStays`, `[]WritesWhatItShows`, `[]WaitingIsListed`, `[]BadgeRight`, `[]LimitsHold`, `[]AverageOfRows` |

**Why the invariant is what it is.** `DeliveredIsSettled` is not inductive alone: that a delivery
leaves nothing Blocked needs `OneEscrow` (the release clears one payment, so there must have been
one only), and that the outbox then reads pick-up, delivery needs `TripFollowed` (it read pick-up
before, and nothing before the pick-up). `EscrowedInTransit` needs `OneAgreement`: an active load
has no driver, so nobody's refund can take away the payment the assignment has just made.
`OneAgreement` needs to know that a load on the market has no agreement, for the acceptance to
make the first. `ForwardOnly` needs `OneAgreement` too: only a load without a driver is assigned.

`RefundedOnce` is not inductive alone either. Its own second half closes the loop: a load that has a refund row is
Cancelled, only one that is Assigned is refunded, and a cancelled load stays cancelled (`CancelledStays`); a Refunded payment
stays as it is (`PaymentsKept`). The bound on the amount rests on `RefundIsBounded`, which needs what was charged to be a
natural number (`PaidAmounts`). `LogStep` summarises what each request appends to a load's log: nothing, rows
without a refund, or rows with exactly one, by which the load is cancelled.

`BooksBalance` needs `BlockedIsHeld`: a release or a refund takes back the **latest** hold of a load's driver, so what
is outstanding on a load whose payment is Blocked has to be exactly that hold, or a balance and its rows drift apart.
It is kept because a second hold comes only when nothing is Blocked, and then nothing is outstanding; that the driver
of a load never changes keeps the hold his. Each request appends rows to one load's log, so it moves one summand of
each sum (`SumChanged`, in `SumsProofs`). `DriversCanBePaid` adds that nothing outstanding is negative
(`NothingOwedBack`): then a driver's pending balance, being the sum of what is outstanding on his loads, covers each
of them.

`SumOver` is a fold of the community modules, a recursive function over the subsets of a set. The induction theorems
of the library take an operator and cannot be used here; `SumsProofs` argues by a least counterexample instead
(`WFMin` on the finite subsets, ordered by inclusion), from which follow the value of an empty sum, of a sum with one
more element, and what one changed summand does to it. `BooksBalance`, `AverageOfRows` and the wallets rest on these
few lemmas.

`OutboxInv` follows a batch. `SentWasTold` needs it of the copies before they are saved; `PickUpFirst`
needs that a batch never holds a delivery without its pick-up unless that was heard of
(`BatchOrdered`), which needs that the pick-up's row is older (`PickUpOlder`);
`GivenUpAfterThree` needs that no **saved** row counts more failures than there were, while the copies
of a worker that is being stopped may (`CopiesSound`). `OutboxKeepsPromise` uses it step by step: writing a row is
`Happens`, a turn of the loop is `Receive` or `Refuse` or a stutter, a save is one `Settle` of all rows it changes,
and everything else, the crashes included, is a stutter, because what is lost are copies.

`SessionsInv` says of every device that one thing at most is in flight (a renewal or a sign-in), that a renewal presents the
pair the device keeps unless another has crossed it, that what the server will answer is the newest pair, and
that the device that owns the account's token keeps it or has it under way. Beside the types, all of it holds only while
nothing `crossed`, which is the exception `NoFalseAlarm` names.

Each panel has an invariant of its own, and the others leave its variables alone. Chat (`ChatSound`): what a page must
not miss is stored, is on the page or on the wire, and is in the history that will replace its list. Position: the
set-ups that are current know their timer (`CurrentShares`, `RefKnows`), one that waits is the current one, a number
that was not used has no timer, and the followers see a load under way (`WatchInv`). Address book (`Says`,
`DraftFaithful`, `OneDefault`): what a row, a form and a page say of an address is what was typed for it. Profile
(`ShowsColumn`): a sheet that is not behind shows the columns. Support desk (`PollsSelected`): the answer to a poll is
about the ticket that is selected. Limits (`CountsWhatPassed`, `Knows`): a counter that nothing crossed says what has
passed beside what nothing counts, and a request that is not late knows the counter.

Support desk, what waits for a person (`WaitInv`): a message on a ticket is that of one request, which has loaded the ticket; a
request that nothing overtook has seen the ticket's status as it still is and knows whether a person is in charge, and
its message comes after all that are in the table (`ReadAsItIs`). Bell (`BellInv`): badge + what is to be pushed + what is on its way =
unread rows + marks that are saved and not yet taken off (`SumKept`), except between marking all as read and the phone's zero,
where there is nothing to sum up; a count that nothing crossed is right as long as it is on its way (`CountsAreRight`).

`TxInv` is what survives **every** overlap. A session writes back what it computed long ago, so nothing says that it
is still sensible; what can be said is that it fits the tables as they are (`GoodSession`): the columns it changed
belong to rows that exist and may take their values, the rows it will insert are well formed and hold one refund at
most, the rows it has locked exist, and what a statement needs has been read before it. Rows are never removed, so
another's commit keeps all of that. `NeverOverdrawn` is in it because a balance is written back as an absolute value:
every value on its way must be a balance of zero or more, which a release and a refund test and a hold is by
`ModestRates`. `OneRefundRowEach` needs no lock: the unique index refuses the commit. A customer's wallet is written
back like the balances, but only by the commit of a refund, together with its row, and all a cancellation can have
read of it is what the rows of his **other** loads say: so it never holds more than the rows, and exactly them while
one load has one (`RefundPaidOnceHolds`). `LockedRowsKept` follows from `LocksExclude`, that no two sessions hold the
same row: whoever writes a row holds it.

`ScreenInv` compares a page with the page it would be if it were fetched again (`UpToDate`), as long as nothing
happened since that the page was not told. Equality is too strong for two kinds of page, which is what `Alike` says:
the phone's bid form forgets a cancelled bid, and a trip page keeps a trip that is over, neither of which any button
looks at. `TripIsHis` is what makes the second inductive: a trip page holds its own driver's load only, so the request
that ended it is his. `ShownPriceAgreed` has an invariant beside it (`PricesTrue`), which speaks of old pages, too: a
row that exists keeps its amount whatever the request (`BidTermsKept`, `OfferTermsKept`), patches change statuses
only, and no button of the listings page changes a load's price.

`PressedTwice` follows what a request leaves behind (`Done`): each of the fourteen leaves the row that makes it refuse
the second time, and as long as a page is behind by its own press alone nobody has taken that row back (`LastIsDone`).
`ButtonsHonoured` goes page by page: a page that is up to date shows what it would show now (`ShownNow`), and every
condition in its JSX implies the checks of the server, but for what `Overlooks` names. What the page cannot see comes
from `Freight`: a load on the market has nothing Blocked (`MarketIsFree`), a Blocked payment has a driver and a
covered hold (`CarriedBySomebody`, `BlockedCanBePaid`). `TripGoesOn` needs no page that is open: a fresh trip page
holds the trip, its status picks the request, the covered hold lets the payment through, and the code page of a load
on its way shows a code (`CodeIsShown`).

`RatingInv` says of every request that is not late that it has read the average as it is and will write what the rows make of it
(`ReadsTrue`); the parts of a star make the running average and the average of the rows the same number (`WholeParts`).

`LoadFormInv` follows a pin from the form into a request (`PinFits`), the old load's fields from the form through the
requests on their way into the server's row (`UntouchedEverywhere`), and a save from the press to its answer: as long
as each was waited for there is one at a time, it carries what the form shows, and between storing it and telling so
the page is one load behind (`OneAtATime`). The induction on `PointOfPlace` found a case an earlier instance could not
reach, having no saved address in the capital: the web's mark for a misspelt town (section 4).

`OnboardingInv` needs to know that an account that may work under a status that forbids it was activated by hand or by
a crossing (`HandActivates`), that the clean-up's selection had no paper and was verified (`SelectedNobody`), and that
a driver who is neither active nor suspended has a paper left to send or to be decided on (`HasNextStep`), which with
the form's width and who is on the code page is `WayOn`.

**Layout.** Type lemmas, one per operator (`HoldType`, `ReleaseType`, `RefundType`, …) and one per
group of requests; then, in `FreightProofs`, the lemmas that summarise how rows move, whatever the request (`LoadStep`:
which status and driver changes exist; `PaymentStep`: which payments can appear or change, and
with which load's move; `AgreementStep`: which agreements appear or end); then one step lemma per
conjunct of the invariant, from these summaries; then `InitInv`, `NextInv`, `InvHolds`.

The other modules have one lemma per group of actions that keeps the invariant, and under it one step per conjunct
that the group can disturb; `ScreensProofs` first proves which requests each page can send, then what each of its
patches does.

**Only model-checked**, and why:

* `Atomic`: the refinement holds of 113 pairs out of 153, each for its own reason; a proof would have to follow two
  requests statement by statement through every one of them.
* `EventuallySettled`, `RequestsEnd`, `RequestsAnswered`: liveness under fairness.

## 6. Not modelled

* *Gemini queue*: neither client calls the two endpoints that fill it, nor listens to its pushes; the calls that they
  do make wait for the answer, slow as it may be, which `Onboarding` and `LoadForm` have.
* *The phone's page of one past trip* and its rating form, and the trip page's own note that it has rated (section 2).
* *Google sign-in*. The phone's login tries once more on a transient error (`auth.service.ts` 130–145).
* *Lost database connections*: only deadlocks are retried in `FreightTx`. *Two servers* with an outbox worker each.
* *Notifications after a commit* (`BidService.cs:205`: a failing one makes the handler roll back a finished transaction),
  and the hub that runs two saves on one context at once (`TrackingHub.cs:209`), which EF Core refuses.
* *Matching, pricing, fuel prices, routes, AI price*: formulas over external data, no state others depend on.
* *Seeders, encryption, SMS gateways, Firebase push*: I/O. *Dashboards, figures, styles, routing between pages,
  marketing site, shared package*: presentation.

## 7. Plan

Done: `Settlement`, `Freight`, `FreightTx`, `UetdsOutbox` with `Notices`; `Sessions`; `Registration` and `Onboarding`; the
pages over `Freight`; `LoadForm`; the panels; the clean-up job beside `Onboarding`; the limits; the proofs of section 5.

Next: two outbox workers; the Gemini queue, once a client uses it. Theorems: a request of `FreightTx` that runs alone
is one of `Freight` (the part of `Atomic` without an overlap); that the retry of a cancellation saves what its first
attempt computed.
