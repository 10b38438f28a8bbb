------------------------------ MODULE AdminPages ------------------------------
(***************************************************************************)
(* The administrator's pages that act on loads, payments and listings.     *)
(***************************************************************************)
EXTENDS Pages

\* Mutant: the phone offers to cancel a load under way as well.
CancelUnderWay(v) == Buttons("AdminCancelLoad", LoadsIn(v, {"Active", "Assigned", "OnWay"}))

PhoneAdminLoadsLooks == Sees(Stored, {}, {}, {}, {})
PhoneCancelLoad(v) == Buttons("AdminCancelLoad", LoadsIn(v, {"Active", "Assigned"}))
PhoneAdminLoadsButtons(v) == PhoneCancelLoad(v)
PhoneAdminLoadsAfter == [AdminCancelLoad |-> ReloadOrBlank]

\* The web shows the button on every row of the list, and on a load's own page
\* while it is neither cancelled nor delivered.
WebAdminLoadsLooks == Sees(Stored, {}, {}, {}, {})
WebAdminLoadsButtons(v) ==
    Buttons("AdminCancelLoad", DOMAIN v.loads) \cup Buttons("Link", DOMAIN v.loads)
WebAdminLoadsAfter == [AdminCancelLoad |-> Reload]

WebAdminLoadLooks(l) ==
    Sees({l} \cap Stored, BidsFor({l}), {}, {}, PaymentsOf(l))
WebAdminLoadButtons(v) ==
    Buttons("AdminCancelLoad", LoadsIn(v, LoadStatus \ {"Cancelled", "Delivered"}))
WebAdminLoadAfter == [AdminCancelLoad |-> Reload]

WebAdminPaymentsLooks == Sees({}, {}, {}, {}, {p \in Payments : payments[p].status # NoRow})
WebAdminPaymentsButtons(v) == Buttons("AdminRelease", PaymentsIn(v, {"Blocked"}))
WebAdminPaymentsAfter == [AdminRelease |-> Reload]

PhoneAdminPaymentsLooks == Sees({}, {}, {}, {}, {p \in Payments : payments[p].status # NoRow})
PhoneAdminPaymentsButtons(v) == Buttons("AdminRelease", PaymentsIn(v, {"Blocked"}))
PhoneAdminPaymentsAfter == [AdminRelease |-> ReloadOrBlank]

WebAdminListingsLooks ==
    LET all == {i \in Listings : listings[i] # NoRow} IN Sees({}, {}, all, OffersAt(all), {})
WebAdminListingsButtons(v) == Buttons("AdminCancelListing", ListingsIn(v, {"Active"}))
WebAdminListingsAfter == [AdminCancelListing |-> Patch]

\* The page sets its copy of the listing and rejects the offers it has fetched.
ListingTakenDown(v, i) ==
    LET open == {o \in OffersIn(v, {"Pending"}) : v.offers[o].listing = i}
    IN  ListingShown(OffersShown(v, [o \in open |-> "Rejected"]), i, "Cancelled")
===============================================================================
