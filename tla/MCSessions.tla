------------------------------ MODULE MCSessions ------------------------------
(* Instances of Sessions for TLC. *)
EXTENDS Sessions

CONSTANTS tab1, phone, r1, r2, r3

\* Two requests of a tab, one of a phone.
MCFrom == [r \in Requests |-> IF r = r3 THEN phone ELSE tab1]
===============================================================================
