----------------------------- MODULE MCFreightTx ------------------------------
(* Small instances of FreightTx: which requests may overlap. *)
EXTENDS FreightTx, TLC

CONSTANTS d1, c1

MCOwner == [l \in Loads |-> c1]
MCListingDriver == [i \in Listings |-> d1]
MCCorporate == [d \in Drivers |-> d = d1]
Symmetry == Permutations(Sessions) \cup Permutations(Loads) \cup Permutations(Bids)
            \cup Permutations(Offers) \cup Permutations(Payments)

AllKinds == {"SubmitBid", "CancelBid", "AcceptBid", "EditLoad", "Pickup", "Arrive", "Deliver",
             "CreateOffer", "RejectOffer", "WithdrawOffer", "AcceptOffer", "CancelListing",
             "AdminCancelListing", "CustomerCancel", "AdminCancel", "AdminRelease", "Backfill"}

Cancels == {"CustomerCancel", "AdminCancel"}
ListingCancels == {"CancelListing", "AdminCancelListing"}

\* The requests that a request of a kind must not overlap with, on the same load:
\* each of these pairs has a run in which one of the two acts on what it read
\* before the other committed.
ClashesWith(kind) ==
    CASE kind = "SubmitBid" -> {"SubmitBid", "AcceptBid", "AcceptOffer"} \cup Cancels
      [] kind = "CancelBid" -> {"AcceptBid"} \cup Cancels
      [] kind = "AcceptBid" -> {"AcceptBid", "AcceptOffer", "CreateOffer", "EditLoad"} \cup Cancels
      [] kind = "EditLoad" -> {"AcceptOffer"} \cup Cancels
      [] kind = "CreateOffer" -> {"CreateOffer"} \cup ListingCancels \cup Cancels
      [] kind = "AcceptOffer" -> {"AcceptOffer"} \cup ListingCancels \cup Cancels
      [] kind = "RejectOffer" -> {"WithdrawOffer", "AcceptOffer"}
      [] kind = "WithdrawOffer" -> {"AcceptOffer", "AdminCancelListing"}
      [] kind = "Pickup" -> {"Pickup", "AdminCancel"}
      [] kind = "Arrive" -> {"Deliver"}
      [] kind = "Deliver" -> {"Deliver", "AdminRelease"}
      [] kind = "AdminRelease" -> {"AdminRelease", "AdminCancel"}
      [] kind = "Backfill" -> {"Backfill", "AdminCancel"}
      [] OTHER -> {}

Pairs(kinds) == {{k, m} : k \in kinds, m \in kinds}

Compatible == {pair \in Pairs(AllKinds) :
                  ~\E k \in pair, m \in pair : /\ pair = {k, m}
                                              /\ m \in ClashesWith(k)}

\* The requests that move money or the load along the trip, with the bids that
\* start it; bids are made one at a time.
TripKinds == {"SubmitBid", "CancelBid", "AcceptBid", "Pickup", "Deliver", "CustomerCancel",
              "AdminCancel", "AdminRelease", "Backfill"}
AnyTripOverlap == Pairs(TripKinds \ {"SubmitBid"})

\* The requests that can wait for each other in a circle.
CircularKinds == {"SubmitBid", "AcceptBid", "AdminCancel", "AdminRelease"}
AnyCircularOverlap == Pairs(CircularKinds \ {"SubmitBid"})

AcceptKinds == {"SubmitBid", "AcceptBid"}
TwoAcceptances == {{"AcceptBid"}}
===============================================================================
