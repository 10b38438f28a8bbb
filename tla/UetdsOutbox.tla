----------------------------- MODULE UetdsOutbox ------------------------------
(***************************************************************************)
(* The transactional outbox of the ministry notifications (U-ETDS): the    *)
(* pick-up and the delivery of a load each leave a row; a background       *)
(* worker wakes every two minutes, takes the oldest rows that are due,     *)
(* sends them one by one and saves what it knows of all of them at the     *)
(* end.  A crash, a shutdown or a failing save in between loses the marks  *)
(* and not the rows, so a row may be sent again.                           *)
(*                                                                         *)
(* The ministry is outside the program; its call is a mock that always     *)
(* succeeds in this build (MinistryMayFail = FALSE).  With TRUE it may     *)
(* refuse a notification, or take it and lose the answer: the case the     *)
(* worker's retries are written for.                                       *)
(***************************************************************************)
EXTENDS Integers, FiniteSets

CONSTANTS Loads,
          BatchSize,       \* the 50 rows a batch takes at most
          MinistryMayFail,
          MaxStops         \* bound: crashes, shutdowns and failed saves of a behaviour

ASSUME OutboxAssumption ==
    /\ BatchSize \in Nat \ {0}
    /\ MinistryMayFail \in BOOLEAN
    /\ MaxStops \in Nat

VARIABLES
    rows,     \* UetdsOutboxes of the pick-up and the delivery of each load
    clock,    \* CreatedAt of the next row
    worker,   \* "off", "asleep" (between two ticks) or "sending" (in a batch)
    stopping, \* stoppingToken has been cancelled
    todo,     \* the rows of the batch the loop has not reached
    copy,     \* the tracked copies of the batch's rows
    told,     \* what the ministry has received
    refused,  \* how often a call for a row has failed, counted up to MaxRetries
    stops

vars == <<rows, clock, worker, stopping, todo, copy, told, refused, stops>>

Events == Loads \X {"PickUp", "Delivery"}
OutboxStatus == {"Pending", "Sent", "Failed"}
MaxRetries == 3

UetdsRow == [status : OutboxStatus \cup {"None"}, retries : 0..MaxRetries, at : Nat]

NoCopies == [e \in {} |-> [status |-> "None", retries |-> 0, at |-> 0]]

Init ==
    /\ rows = [e \in Events |-> [status |-> "None", retries |-> 0, at |-> 0]]
    /\ clock = 1
    /\ worker = "asleep"
    /\ stopping = FALSE
    /\ todo = {}
    /\ copy = NoCopies
    /\ told = {}
    /\ refused = [e \in Events |-> 0]
    /\ stops = 0

-------------------------------------------------------------------------------
(* LoadService writes the rows. *)

WriteRow(e) ==
    /\ worker # "off"
    /\ rows[e].status = "None"
    /\ rows' = [rows EXCEPT ![e] = [status |-> "Pending", retries |-> 0, at |-> clock]]
    /\ clock' = clock + 1
    /\ UNCHANGED <<worker, stopping, todo, copy, told, refused, stops>>

PickUp(l) == WriteRow(<<l, "PickUp">>)

Deliver(l) == rows[<<l, "PickUp">>].status # "None" /\ WriteRow(<<l, "Delivery">>)

-------------------------------------------------------------------------------
(* UetdsBackgroundWorker. *)

\* Mutant: a failed notification is not tried again.
DueOnce(e) == rows[e].status = "Pending"

Due(e) == \/ rows[e].status = "Pending"
          \/ rows[e].status = "Failed" /\ rows[e].retries < MaxRetries

Before(e, f) == rows[e].at < rows[f].at

\* The first BatchSize rows of S in the order of their creation.
Batches(S) == {B \in SUBSET S :
                  /\ Cardinality(B) =< BatchSize
                  /\ B # S => Cardinality(B) = BatchSize
                  /\ \A e \in B, f \in S \ B : Before(e, f)}

Poll ==
    /\ worker = "asleep"
    /\ \E B \in Batches({e \in Events : Due(e)}) :
          /\ B # {}
          /\ todo' = B
          /\ copy' = [e \in B |-> rows[e]]
    /\ worker' = "sending"
    /\ UNCHANGED <<rows, clock, stopping, told, refused, stops>>

Attempted(c) == [status |-> "Failed", retries |-> c.retries + 1, at |-> c.at]

\* The loop follows the order of the query.
IsNext(e) == e \in todo /\ \A f \in todo \ {e} : Before(e, f)

SendAccepted(e) ==
    /\ worker = "sending" /\ ~stopping
    /\ IsNext(e)
    /\ todo' = todo \ {e}
    /\ copy' = [copy EXCEPT ![e].status = "Sent"]
    /\ told' = told \cup {e}
    /\ UNCHANGED <<rows, clock, worker, stopping, refused, stops>>

SendRefused(e) ==
    /\ MinistryMayFail
    /\ worker = "sending" /\ ~stopping
    /\ IsNext(e)
    /\ todo' = todo \ {e}
    /\ copy' = [copy EXCEPT ![e] = Attempted(@)]
    /\ told' \in {told, told \cup {e}}
    /\ refused' = [refused EXCEPT ![e] = IF @ < MaxRetries THEN @ + 1 ELSE @]
    /\ UNCHANGED <<rows, clock, worker, stopping, stops>>

\* A cancelled token fails every call of the batch that is left, and nothing is sent.
SendCancelled ==
    /\ worker = "sending" /\ stopping /\ todo # {}
    /\ copy' = [e \in DOMAIN copy |-> IF e \in todo THEN Attempted(copy[e]) ELSE copy[e]]
    /\ todo' = {}
    /\ UNCHANGED <<rows, clock, worker, stopping, told, refused, stops>>

SavedRows == [e \in Events |-> IF e \in DOMAIN copy THEN copy[e] ELSE rows[e]]

Save ==
    /\ worker = "sending" /\ todo = {} /\ ~stopping
    /\ rows' = SavedRows
    /\ worker' = "asleep"
    /\ copy' = NoCopies
    /\ UNCHANGED <<clock, stopping, todo, told, refused, stops>>

\* The save throws and the batch's context is disposed of with its copies.
SaveFails ==
    /\ worker = "sending" /\ todo = {} /\ ~stopping
    /\ stops < MaxStops
    /\ stops' = stops + 1
    /\ worker' = "asleep"
    /\ copy' = NoCopies
    /\ UNCHANGED <<rows, clock, stopping, todo, told, refused>>

\* Mutant: the last save is not given the cancelled token.
SaveStoppedAnyway ==
    /\ worker = "sending" /\ todo = {} /\ stopping
    /\ rows' = SavedRows
    /\ worker' = "off"
    /\ copy' = NoCopies
    /\ UNCHANGED <<clock, stopping, todo, told, refused, stops>>

\* Given a cancelled token the save throws as well, and so does the delay.
SaveCancelled ==
    /\ worker = "sending" /\ todo = {} /\ stopping
    /\ worker' = "off"
    /\ copy' = NoCopies
    /\ UNCHANGED <<rows, clock, stopping, todo, told, refused, stops>>

\* The server is asked to stop; a worker that sleeps ends at once.
Shutdown ==
    /\ worker # "off" /\ ~stopping
    /\ stops < MaxStops
    /\ stops' = stops + 1
    /\ stopping' = TRUE
    /\ worker' = IF worker = "asleep" THEN "off" ELSE worker
    /\ UNCHANGED <<rows, clock, todo, copy, told, refused>>

\* The process dies.
Crash ==
    /\ worker # "off"
    /\ stops < MaxStops
    /\ stops' = stops + 1
    /\ worker' = "off"
    /\ todo' = {}
    /\ copy' = NoCopies
    /\ UNCHANGED <<rows, clock, stopping, told, refused>>

Restart ==
    /\ worker = "off"
    /\ worker' = "asleep"
    /\ stopping' = FALSE
    /\ UNCHANGED <<rows, clock, todo, copy, told, refused, stops>>

-------------------------------------------------------------------------------
SendNext == \E e \in Events : SendAccepted(e) \/ SendRefused(e)

WorkerStep == Poll \/ SendNext \/ SendCancelled \/ Save \/ SaveCancelled \/ Restart

Next ==
    \/ \E l \in Loads : PickUp(l) \/ Deliver(l)
    \/ WorkerStep
    \/ SaveFails \/ Shutdown \/ Crash

Spec == Init /\ [][Next]_vars

\* The worker's loop goes on as long as the process lives, and a server that stopped
\* is started again; trips, stops and failures need not happen.
FairSpec == Spec /\ WF_vars(WorkerStep)

-------------------------------------------------------------------------------
TypeOK ==
    /\ rows \in [Events -> UetdsRow]
    /\ clock \in Nat
    /\ worker \in {"off", "asleep", "sending"}
    /\ stopping \in BOOLEAN
    /\ todo \subseteq DOMAIN copy
    /\ DOMAIN copy \subseteq Events
    /\ copy \in [DOMAIN copy -> UetdsRow]
    /\ told \subseteq Events
    /\ refused \in [Events -> 0..MaxRetries]
    /\ stops \in 0..MaxStops

\* A row the database calls Sent has been received by the ministry, whatever crashed,
\* was cancelled or failed to be saved on the way.
SentWasTold == \A e \in Events : rows[e].status = "Sent" => e \in told

\* The ministry does not hear of a delivery whose pick-up it has neither received
\* nor refused: the oldest rows go first, from batch to batch and across restarts.
PickUpFirst ==
    \A l \in Loads : <<l, "Delivery">> \in told =>
        <<l, "PickUp">> \in told \/ refused[<<l, "PickUp">>] > 0

\* A notification is given up only after the ministry has refused it three times:
\* neither a shutdown nor a crash costs it an attempt.
GivenUp(e) == rows[e].status = "Failed" /\ rows[e].retries = MaxRetries
GivenUpAfterThree == \A e \in Events : GivenUp(e) => refused[e] = MaxRetries

(* What the outbox promises: the rows, seen without the worker. *)

Fate(e) == IF rows[e].status = "None" THEN "none"
           ELSE IF rows[e].status = "Sent" THEN "received"
           ELSE IF GivenUp(e) THEN "given up" ELSE "waiting"

Promised == INSTANCE Notices WITH fate <- [e \in Events |-> Fate(e)],
                                  known <- told,
                                  refusals <- refused

\* The worker keeps the promise of Notices: an event's fate is decided once and for
\* its own reason (the ministry has received it, or refused it three times), and the
\* ministry hears of a load's events in their order; whatever crashed, was cancelled
\* or failed to be saved on the way.
KeepsPromise == Promised!Notices

\* Every recorded event is settled in the end, however full the batches are.
EventuallySettled == Promised!NothingWaits

-------------------------------------------------------------------------------
(* The inductive invariant behind KeepsPromise and the three it implies. *)

\* The ministry has received e or refused it.
Heard(e) == e \in told \/ refused[e] > 0

RowsSound ==
    \A e \in Events :
        /\ rows[e].at < clock
        /\ rows[e].status = "Pending" => rows[e].retries = 0
        /\ rows[e].retries =< refused[e]

\* A load's pick-up row is older than its delivery row.
PickUpOlder ==
    \A l \in Loads : rows[<<l, "Delivery">>].status # "None" =>
        /\ rows[<<l, "PickUp">>].status # "None"
        /\ Before(<<l, "PickUp">>, <<l, "Delivery">>)

\* A copy the loop has not reached is the row; the others differ in what they know.
\* Only a worker that is being stopped may count more failures than there were.
CopiesSound ==
    /\ worker # "sending" => DOMAIN copy = {}
    /\ \A e \in todo : copy[e] = rows[e]
    /\ \A e \in DOMAIN copy :
          /\ Due(e)
          /\ copy[e].at = rows[e].at
          /\ copy[e].status \in {"Sent", "Failed"} \/ e \in todo
          /\ copy[e].status = "Sent" => e \in told
          /\ ~stopping => copy[e].retries =< refused[e]

\* A batch never holds a delivery without its pick-up, unless that was heard of.
BatchOrdered ==
    \A l \in Loads : <<l, "Delivery">> \in todo =>
        <<l, "PickUp">> \in todo \/ Heard(<<l, "PickUp">>)

OutboxInv == /\ TypeOK
             /\ RowsSound
             /\ PickUpOlder
             /\ CopiesSound
             /\ BatchOrdered
             /\ SentWasTold
             /\ PickUpFirst
===============================================================================
