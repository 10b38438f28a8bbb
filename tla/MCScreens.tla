------------------------------ MODULE MCScreens -------------------------------
(* One load, two drivers, one bid, one offer, two prices, every page.          *)
EXTENDS Screens, TLC

CONSTANTS d1, c1, admin

MCOwner == [l \in Loads |-> c1]
MCListingDriver == [i \in Listings |-> d1]
MCCorporate == [d \in Drivers |-> TRUE]

===============================================================================
