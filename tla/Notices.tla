-------------------------------- MODULE Notices -------------------------------
(***************************************************************************)
(* What the U-ETDS outbox promises, without its worker, its batches and    *)
(* its crashes: a pick-up or a delivery that the database has recorded     *)
(* waits until it is settled, once and for all, either because the         *)
(* ministry has received it or because it has been refused three times.    *)
(***************************************************************************)
EXTENDS Naturals

CONSTANT Loads

VARIABLES
    fate,    \* of each event: "none", "waiting", "received" or "given up"
    known,   \* the events the ministry has received
    refusals \* how often an event has been refused, three at the most

nvars == <<fate, known, refusals>>

Notified == Loads \X {"PickUp", "Delivery"}
Enough == 3

NInit ==
    /\ fate = [e \in Notified |-> "none"]
    /\ known = {}
    /\ refusals = [e \in Notified |-> 0]

\* The pick-up of a load comes before its delivery ...
Happens(e) ==
    /\ fate[e] = "none"
    /\ \A l \in Loads : e = <<l, "Delivery">> => fate[<<l, "PickUp">>] # "none"
    /\ fate' = [fate EXCEPT ![e] = "waiting"]
    /\ UNCHANGED <<known, refusals>>

\* ... and for the ministry too, unless it has refused the pick-up.
InOrder(e) ==
    \A l \in Loads : e = <<l, "Delivery">> =>
        <<l, "PickUp">> \in known \/ refusals[<<l, "PickUp">>] > 0

Receive(e) ==
    /\ fate[e] = "waiting"
    /\ InOrder(e)
    /\ known' = known \cup {e}
    /\ UNCHANGED <<fate, refusals>>

\* The answer says no, or is lost on the way back.
Refuse(e) ==
    /\ fate[e] = "waiting"
    /\ refusals' = [refusals EXCEPT ![e] = IF @ < Enough THEN @ + 1 ELSE @]
    /\ \/ known' = known
       \/ known' = known \cup {e} /\ InOrder(e)
    /\ UNCHANGED fate

\* Several events are settled together, each for its own reason.
Settle ==
    /\ fate' \in [Notified -> {"none", "waiting", "received", "given up"}]
    /\ \A e \in Notified : fate'[e] # fate[e] =>
          /\ fate[e] = "waiting"
          /\ \/ fate'[e] = "received" /\ e \in known
             \/ fate'[e] = "given up" /\ refusals[e] = Enough
    /\ UNCHANGED <<known, refusals>>

NNext == \/ \E e \in Notified : Happens(e) \/ Receive(e) \/ Refuse(e)
         \/ Settle

Notices == NInit /\ [][NNext]_nvars

Settled(e) == fate[e] \in {"received", "given up"}

\* Nothing waits forever.
NothingWaits == \A e \in Notified : (fate[e] = "waiting") ~> Settled(e)
===============================================================================
