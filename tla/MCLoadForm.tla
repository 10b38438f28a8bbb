------------------------------ MODULE MCLoadForm ------------------------------
(* Two towns with a saved address in each, two districts, texts and numbers on
   either side of each limit. *)
EXTENDS LoadForm

CONSTANTS Ankara, Izmir, d1, d2

Detail(weight, volume, text) == [weight |-> weight, volume |-> volume, text |-> text]
MCPlaces == {[city |-> Izmir, district |-> d1], [city |-> Ankara, district |-> d2]}
MCDetails == {Detail(40000, 10000000, 500), Detail(1, 1, 501), Detail(1, 10000001, 1)}
===============================================================================
