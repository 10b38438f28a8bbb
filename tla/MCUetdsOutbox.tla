---------------------------- MODULE MCUetdsOutbox -----------------------------
(* A small instance of UetdsOutbox: more rows than fit into a batch. *)
EXTENDS UetdsOutbox
===============================================================================
