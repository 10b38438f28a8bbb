-------------------------------- MODULE Pages --------------------------------
(***************************************************************************)
(* What the pages of the web client and the phone app have in common.  A   *)
(* page fetches some rows when it opens and shows its buttons by what those *)
(* rows said at that moment.  A VIEW is the fetched part of the tables; a   *)
(* BUTTON is a request the page would send, for a row, with the price the   *)
(* page shows beside it.                                                   *)
(***************************************************************************)
EXTENDS Freight, Functions

Sees(ls, bs, is, os, ps) ==
    [loads |-> Restrict(loads, ls), bids |-> Restrict(bids, bs),
     listings |-> Restrict(listings, is), offers |-> Restrict(offers, os),
     payments |-> Restrict(payments, ps)]

Button(op, on, price) == [op |-> op, on |-> on, price |-> price]
Buttons(op, rows) == {Button(op, r, None) : r \in rows}

\* The rows of a view with one of the given statuses.
LoadsIn(v, S) == {l \in DOMAIN v.loads : v.loads[l].status \in S}
BidsIn(v, S) == {b \in DOMAIN v.bids : v.bids[b].status \in S}
ListingsIn(v, S) == {i \in DOMAIN v.listings : v.listings[i] \in S}
OffersIn(v, S) == {o \in DOMAIN v.offers : v.offers[o].status \in S}
PaymentsIn(v, S) == {p \in DOMAIN v.payments : v.payments[p].status \in S}

\* What the lists of the server return.
Stored == {l \in Loads : loads[l].status # NoRow}
LoadsOf(u) == {l \in Stored : Owner[l] = u}
BidsFor(ls) == {b \in Bids : bids[b].status # NoRow /\ bids[b].load \in ls}
BidsBy(d) == {b \in Bids : bids[b].status # NoRow /\ bids[b].driver = d}
OffersAbout(ls) == {o \in Offers : offers[o].status # NoRow /\ offers[o].load \in ls}
OffersAt(is) == {o \in Offers : offers[o].status # NoRow /\ offers[o].listing \in is}
WithStatus(ls, S) == {l \in ls : loads[l].status \in S}

\* LoadsController.CanViewLoad for a driver.
MayView(d) == {l \in Stored : loads[l].status = "Active" \/ loads[l].driver = d}

\* GetActiveLoads for a driver: the market, and the latest of his trips in front.
\* Which trip is the latest is left open where he has several.
Trips(d) == {l \in WithStatus(Stored, EscrowStates) : loads[l].driver = d}
Board(d, l) == WithStatus(Stored, {"Active"}) \cup ({l} \cap Trips(d))

\* A view after the page itself changed some rows of it.
OffersShown(v, f) == [v EXCEPT !.offers = [o \in DOMAIN v.offers |->
                         IF o \in DOMAIN f THEN [v.offers[o] EXCEPT !.status = f[o]]
                                           ELSE v.offers[o]]]
ListingShown(v, i, status) == [v EXCEPT !.listings[i] = status]

-------------------------------------------------------------------------------
(* What a page does once the server has accepted a request. *)

Reload == "reload"              \* fetches again; if that fails the old rows stay
ReloadOrBlank == "reloadOrBlank" \* fetches again; if that fails the page is emptied
Patch == "patch"                \* changes its own rows as it expects the server to
Stay == "stay"                  \* leaves its rows as they are
Leave == "leave"                \* goes to another page
===============================================================================
