------------------------------ MODULE MCFreight -------------------------------
(* Small instances of Freight: default rates, an odd price whose 2% is a half  *)
(* kurus, and one driver of two who pays no withholding.                       *)
EXTENDS Freight, TLC

CONSTANTS d1, c1

MCOwner == [l \in Loads |-> c1]
MCListingDriver == [i \in Listings |-> d1]
MCCorporate == [d \in Drivers |-> d = d1]

\* What the theorem on paying drivers asks of the rates holds of this instance.
ASSUME MCNetsAreOwed == NetsAreOwed

\* Loads, bids, offers and payments are keys the requests never compare with a
\* constant; all loads have the same owner.
Symmetry == Permutations(Loads) \cup Permutations(Bids) \cup Permutations(Offers)
            \cup Permutations(Payments)
===============================================================================
