-------------------------- MODULE UetdsOutboxProofs ---------------------------
(***************************************************************************)
(* Theorems about UetdsOutbox, for any number of loads, any batch size and *)
(* any number of crashes, shutdowns and failed saves.                      *)
(***************************************************************************)
EXTENDS UetdsOutbox, TLAPS

\* The steps of the worker and of LoadService, one by one.
StepOfOutbox ==
    \/ \E e \in Events : WriteRow(e) /\ \A l \in Loads : e = <<l, "Delivery">> =>
                                            rows[<<l, "PickUp">>].status # "None"
    \/ \E e \in Events : SendAccepted(e) \/ SendRefused(e)
    \/ Poll \/ SendCancelled \/ Save \/ SaveFails \/ SaveCancelled
    \/ Shutdown \/ Crash \/ Restart

\* Next is one of these steps.
LEMMA StepCases == ASSUME Next PROVE StepOfOutbox
<1>1. ASSUME NEW l \in Loads, PickUp(l) PROVE StepOfOutbox
  <2>1. <<l, "PickUp">> \in Events BY DEF Events
  <2>2. \A k \in Loads : <<l, "PickUp">> # <<k, "Delivery">> OBVIOUS
  <2> QED BY <1>1, <2>1, <2>2 DEF PickUp, StepOfOutbox
<1>2. ASSUME NEW l \in Loads, Deliver(l) PROVE StepOfOutbox
  <2>1. <<l, "Delivery">> \in Events BY DEF Events
  <2>2. \A k \in Loads : <<l, "Delivery">> = <<k, "Delivery">> => k = l OBVIOUS
  <2> QED BY <1>2, <2>1, <2>2 DEF Deliver, StepOfOutbox
<1> QED BY <1>1, <1>2 DEF Next, WorkerStep, SendNext, StepOfOutbox

\* A row that is due can be tried once more without exceeding the limit.
LEMMA DueRetries ==
    ASSUME TypeOK, RowsSound, NEW e \in Events, Due(e)
    PROVE  rows[e].retries \in 0..2 /\ rows[e].status # "None"
BY DEF TypeOK, RowsSound, Due, UetdsRow, MaxRetries

\* A failed attempt on such a copy leaves a row of the table.
LEMMA AttemptedType ==
    ASSUME NEW c \in UetdsRow, c.retries \in 0..2
    PROVE  /\ Attempted(c) \in UetdsRow
           /\ Attempted(c).status = "Failed"
           /\ Attempted(c).retries = c.retries + 1
           /\ Attempted(c).at = c.at
BY DEF Attempted, UetdsRow, OutboxStatus, MaxRetries

\* No copies: a function without domain.
LEMMA NoCopiesType == DOMAIN NoCopies = {} /\ NoCopies \in [DOMAIN NoCopies -> UetdsRow]
BY DEF NoCopies

-------------------------------------------------------------------------------
LEMMA InitOutbox == Init => OutboxInv
<1> SUFFICES ASSUME Init PROVE OutboxInv OBVIOUS
<1>1. TypeOK
  <2>1. rows \in [Events -> UetdsRow] /\ refused \in [Events -> 0..MaxRetries]
    BY DEF Init, UetdsRow, MaxRetries
  <2>2. DOMAIN copy = {} /\ copy \in [DOMAIN copy -> UetdsRow] BY NoCopiesType DEF Init
  <2>3. stops \in 0..MaxStops BY OutboxAssumption DEF OutboxAssumption, Init
  <2> QED BY <2>1, <2>2, <2>3 DEF Init, TypeOK
<1>2. RowsSound BY DEF Init, RowsSound
<1>3. PickUpOlder BY DEF Init, PickUpOlder, Events
<1>4. CopiesSound BY NoCopiesType DEF Init, CopiesSound
<1>5. BatchOrdered /\ SentWasTold /\ PickUpFirst
  BY DEF Init, BatchOrdered, SentWasTold, PickUpFirst
<1> QED BY <1>1, <1>2, <1>3, <1>4, <1>5 DEF OutboxInv

LEMMA WriteRowKeeps ==
    ASSUME OutboxInv, NEW e \in Events, WriteRow(e),
           \A l \in Loads : e = <<l, "Delivery">> => rows[<<l, "PickUp">>].status # "None"
    PROVE  OutboxInv'
<1> USE DEF OutboxInv
<1>1. TypeOK' BY DEF WriteRow, TypeOK, UetdsRow, OutboxStatus, MaxRetries
<1>2. \A f \in Events : f # e => rows'[f] = rows[f] BY DEF WriteRow, TypeOK
<1>3. rows'[e] = [status |-> "Pending", retries |-> 0, at |-> clock] BY DEF WriteRow, TypeOK
<1>4. clock \in Nat /\ clock' = clock + 1 /\ refused' = refused BY DEF WriteRow, TypeOK
<1>5. RowsSound'
  <2> SUFFICES ASSUME NEW f \in Events
               PROVE  /\ rows'[f].at < clock'
                      /\ rows'[f].status = "Pending" => rows'[f].retries = 0
                      /\ rows'[f].retries =< refused'[f]
    BY DEF RowsSound
  <2>1. refused[f] \in 0..MaxRetries /\ rows[f] \in UetdsRow BY DEF TypeOK
  <2> QED BY <1>2, <1>3, <1>4, <2>1 DEF RowsSound, UetdsRow, MaxRetries
<1>6. PickUpOlder'
  <2> SUFFICES ASSUME NEW l \in Loads, rows'[<<l, "Delivery">>].status # "None"
               PROVE  /\ rows'[<<l, "PickUp">>].status # "None"
                      /\ rows'[<<l, "PickUp">>].at < rows'[<<l, "Delivery">>].at
    BY DEF PickUpOlder, Before
  <2> DEFINE p == <<l, "PickUp">>
             d == <<l, "Delivery">>
  <2>1. p \in Events /\ d \in Events /\ p # d BY DEF Events
  <2>2. CASE e = d
    <3>1. rows'[p] = rows[p] /\ rows[p].status # "None" /\ rows[p].at < clock
      BY <1>2, <2>1, <2>2 DEF RowsSound
    <3> QED BY <1>3, <2>2, <3>1
  <2>3. CASE e # d
    <3>1. rows'[d] = rows[d] BY <1>2, <2>1, <2>3
    <3>2. rows[p].status # "None" /\ rows[p].at < rows[d].at
      BY <3>1 DEF PickUpOlder, Before
    <3>3. e # p BY <3>2 DEF WriteRow
    <3> QED BY <1>2, <2>1, <3>1, <3>2, <3>3
  <2> QED BY <2>2, <2>3
<1>7. CopiesSound'
  <2>1. e \notin DOMAIN copy BY DEF CopiesSound, Due, WriteRow
  <2>2. \A f \in DOMAIN copy : f \in Events /\ rows'[f] = rows[f] BY <1>2, <2>1 DEF TypeOK
  <2>3. \A f \in DOMAIN copy : Due(f)' <=> Due(f) BY <2>2 DEF Due
  <2> QED BY <2>2, <2>3 DEF CopiesSound, WriteRow, TypeOK
<1>8. BatchOrdered' BY DEF BatchOrdered, WriteRow, Heard
<1>9. SentWasTold' BY <1>2, <1>3 DEF SentWasTold, WriteRow, TypeOK
<1>10. PickUpFirst' BY DEF PickUpFirst, WriteRow
<1> QED BY <1>1, <1>5, <1>6, <1>7, <1>8, <1>9, <1>10

LEMMA PollKeeps ==
    ASSUME OutboxInv, Poll
    PROVE  OutboxInv'
<1> USE DEF OutboxInv
<1> DEFINE S == {e \in Events : Due(e)}
<1>1. PICK B \in Batches(S) : todo' = B /\ copy' = [e \in B |-> rows[e]] BY DEF Poll
<1>2. /\ worker' = "sending"
      /\ UNCHANGED <<rows, clock, stopping, told, refused, stops>> BY DEF Poll
<1>3. B \subseteq Events /\ \A e \in B : Due(e) BY <1>1 DEF Batches
<1>4. TypeOK' BY <1>1, <1>2, <1>3 DEF TypeOK
<1>5. RowsSound' /\ PickUpOlder' /\ SentWasTold' /\ PickUpFirst'
  BY <1>2 DEF RowsSound, PickUpOlder, Before, SentWasTold, PickUpFirst
<1>6. CopiesSound'
  <2>2. \A e \in B : rows[e].retries =< refused[e] BY <1>3 DEF RowsSound
  <2>3. DOMAIN copy' = B /\ \A e \in B : copy'[e] = rows[e] BY <1>1
  <2>1. \A e \in B : Due(e)' BY <1>2, <1>3 DEF Due
  <2>4. \A e \in B : copy'[e].status = "Sent" => e \in told'
    BY <1>2, <1>3, <2>3 DEF SentWasTold
  <2> QED BY <1>1, <1>2, <2>1, <2>2, <2>3, <2>4 DEF CopiesSound
<1>7. BatchOrdered'
  <2> SUFFICES ASSUME NEW l \in Loads, <<l, "Delivery">> \in B, <<l, "PickUp">> \notin B
               PROVE  Heard(<<l, "PickUp">>)
    BY <1>1, <1>2 DEF BatchOrdered, Heard
  <2> DEFINE p == <<l, "PickUp">>
             d == <<l, "Delivery">>
  <2>1. p \in Events /\ d \in Events /\ rows[p] \in UetdsRow /\ rows[d] \in UetdsRow
    BY DEF Events, TypeOK
  <2>2. rows[p].status # "None" /\ rows[p].at < rows[d].at
    <3>1. rows[d].status # "None" BY <1>3, <2>1, DueRetries
    <3> QED BY <3>1 DEF PickUpOlder, Before
  <2>3. ~Due(p)
    <3>1. p \in S => Before(d, p) BY <1>1 DEF Batches
    <3> QED BY <2>1, <2>2, <3>1 DEF Before, UetdsRow
  <2>4. CASE rows[p].status = "Sent" BY <2>1, <2>4 DEF SentWasTold, Heard
  <2>5. CASE rows[p].status = "Failed"
    <3>1. rows[p].retries = 3 BY <2>1, <2>3, <2>5 DEF Due, UetdsRow, MaxRetries
    <3>2. refused[p] \in 0..3 /\ rows[p].retries =< refused[p]
      BY <2>1 DEF RowsSound, TypeOK, MaxRetries
    <3> QED BY <3>1, <3>2 DEF Heard
  <2> QED BY <2>1, <2>2, <2>3, <2>4, <2>5 DEF Due, UetdsRow, OutboxStatus
<1> QED BY <1>4, <1>5, <1>6, <1>7

\* What the two outcomes of a call have in common: one row leaves the batch, is heard
\* of, and only its copy changes.
LEMMA SendKeeps ==
    ASSUME OutboxInv, NEW e \in Events, SendAccepted(e) \/ SendRefused(e)
    PROVE  OutboxInv'
<1> USE DEF OutboxInv
<1>1. /\ e \in todo /\ todo' = todo \ {e}
      /\ \A f \in todo \ {e} : Before(e, f)
      /\ worker = "sending" /\ ~stopping
      /\ UNCHANGED <<rows, clock, worker, stopping, stops>>
  BY DEF SendAccepted, SendRefused, IsNext
<1>2. e \in DOMAIN copy /\ copy[e] = rows[e] /\ Due(e) BY <1>1 DEF TypeOK, CopiesSound
<1>3. rows[e] \in UetdsRow /\ rows[e].retries \in 0..2 /\ rows[e].status # "None"
  BY <1>2, DueRetries DEF TypeOK
<1>4. /\ told \subseteq told' /\ told' \subseteq told \cup {e}
      /\ refused' \in [Events -> 0..MaxRetries]
      /\ \A f \in Events : refused[f] =< refused'[f]
  <2>1. refused[e] \in 0..3 BY DEF TypeOK, MaxRetries
  <2>2. CASE SendAccepted(e) BY <2>2 DEF SendAccepted, TypeOK, MaxRetries
  <2>3. CASE SendRefused(e)
    <3>1. refused' = [refused EXCEPT ![e] = IF @ < 3 THEN @ + 1 ELSE @]
      BY <2>3 DEF SendRefused, MaxRetries
    <3>2. told' \in {told, told \cup {e}} BY <2>3 DEF SendRefused
    <3> QED BY <2>1, <3>1, <3>2 DEF TypeOK, MaxRetries
  <2> QED BY <2>2, <2>3
<1>5. Heard(e)'
  <2>1. refused[e] \in 0..3 BY DEF TypeOK, MaxRetries
  <2>2. CASE SendAccepted(e) BY <2>2 DEF SendAccepted, Heard
  <2>3. CASE SendRefused(e) BY <2>1, <2>3 DEF SendRefused, Heard, TypeOK, MaxRetries
  <2> QED BY <2>2, <2>3
<1>6. /\ DOMAIN copy' = DOMAIN copy
      /\ \A f \in DOMAIN copy : f # e => copy'[f] = copy[f]
      /\ copy' \in [DOMAIN copy' -> UetdsRow]
      /\ copy'[e].at = copy[e].at
      /\ copy'[e].status \in {"Sent", "Failed"}
      /\ copy'[e].status = "Sent" => e \in told'
      /\ copy'[e].retries =< refused'[e]
  <2>1. refused[e] \in 0..3 /\ rows[e].retries =< refused[e]
    BY DEF TypeOK, RowsSound, MaxRetries
  <2>2. CASE SendAccepted(e)
    <3>1. copy' = [copy EXCEPT ![e].status = "Sent"] BY <2>2 DEF SendAccepted
    <3>2. copy'[e] \in UetdsRow /\ copy'[e].status = "Sent" /\ copy'[e].at = copy[e].at
          /\ copy'[e].retries = copy[e].retries
      BY <1>2, <1>3, <3>1 DEF UetdsRow, OutboxStatus, TypeOK
    <3> QED BY <1>2, <2>1, <2>2, <3>1, <3>2 DEF SendAccepted, TypeOK
  <2>3. CASE SendRefused(e)
    <3>1. copy' = [copy EXCEPT ![e] = Attempted(copy[e])] BY <2>3 DEF SendRefused
    <3>2. /\ Attempted(copy[e]) \in UetdsRow /\ Attempted(copy[e]).status = "Failed"
          /\ Attempted(copy[e]).retries = copy[e].retries + 1
          /\ Attempted(copy[e]).at = copy[e].at
      BY <1>2, <1>3, AttemptedType
    <3>3. refused'[e] = IF refused[e] < 3 THEN refused[e] + 1 ELSE refused[e]
      BY <2>3 DEF SendRefused, TypeOK, MaxRetries
    <3>4. copy[e].retries + 1 =< refused'[e] BY <1>2, <1>3, <2>1, <3>3
    <3> QED BY <1>2, <3>1, <3>2, <3>4 DEF TypeOK
  <2> QED BY <2>2, <2>3
<1>7. TypeOK' BY <1>1, <1>4, <1>6 DEF TypeOK
<1>8. RowsSound'
  <2> SUFFICES ASSUME NEW f \in Events PROVE rows[f].retries =< refused'[f]
    BY <1>1 DEF RowsSound
  <2>1. rows[f].retries \in Nat /\ refused[f] \in Nat /\ refused'[f] \in Nat
    BY <1>4 DEF TypeOK, UetdsRow, MaxRetries
  <2> QED BY <1>4, <2>1 DEF RowsSound
<1>9. PickUpOlder' BY <1>1 DEF PickUpOlder, Before
<1>10. CopiesSound'
  <2>1. \A f \in todo' : copy'[f] = rows'[f] BY <1>1, <1>6 DEF CopiesSound, TypeOK
  <2>2. ASSUME NEW f \in DOMAIN copy, f # e
        PROVE  /\ copy'[f].status \in {"Sent", "Failed"} \/ f \in todo'
               /\ copy'[f].status = "Sent" => f \in told'
               /\ copy'[f].at = rows'[f].at
               /\ copy'[f].retries =< refused'[f]
    <3>1. f \in Events /\ copy[f].retries \in Nat /\ refused[f] \in Nat /\ refused'[f] \in Nat
      BY <1>4 DEF TypeOK, UetdsRow, MaxRetries
    <3>2. copy[f].retries =< refused[f] BY <1>1 DEF CopiesSound
    <3> QED BY <1>1, <1>4, <1>6, <2>2, <3>1, <3>2 DEF CopiesSound
  <2>3. \A f \in DOMAIN copy : Due(f)' BY <1>1 DEF CopiesSound, Due
  <2> QED BY <1>1, <1>2, <1>6, <2>1, <2>2, <2>3 DEF CopiesSound
<1>11. \A f \in Events : Heard(f) => Heard(f)'
  <2> SUFFICES ASSUME NEW f \in Events, Heard(f) PROVE Heard(f)' OBVIOUS
  <2>1. refused[f] \in Nat /\ refused'[f] \in Nat BY <1>4 DEF TypeOK, MaxRetries
  <2> QED BY <1>4, <2>1 DEF Heard
<1>12. BatchOrdered'
  <2> SUFFICES ASSUME NEW l \in Loads, <<l, "Delivery">> \in todo'
               PROVE  <<l, "PickUp">> \in todo' \/ Heard(<<l, "PickUp">>)'
    BY DEF BatchOrdered
  <2>1. <<l, "PickUp">> \in Events BY DEF Events
  <2>2. <<l, "PickUp">> \in todo \/ Heard(<<l, "PickUp">>) BY <1>1 DEF BatchOrdered
  <2> QED BY <1>1, <1>5, <1>11, <2>1, <2>2
<1>13. SentWasTold' BY <1>1, <1>4 DEF SentWasTold
<1>14. PickUpFirst'
  <2> SUFFICES ASSUME NEW l \in Loads, <<l, "Delivery">> \in told'
               PROVE  Heard(<<l, "PickUp">>)'
    BY DEF PickUpFirst, Heard
  <2> DEFINE p == <<l, "PickUp">>
             d == <<l, "Delivery">>
  <2>1. p \in Events /\ d \in Events /\ p # d BY DEF Events
  <2>2. CASE d \in told BY <1>11, <2>1, <2>2 DEF PickUpFirst, Heard
  <2>3. CASE e = d
    <3>1. rows[p].at < rows[d].at BY <1>3, <2>3 DEF PickUpOlder, Before
    <3>2. p \in todo => rows[d].at < rows[p].at BY <1>1, <2>1, <2>3 DEF Before
    <3>3. rows[p].at \in Nat /\ rows[d].at \in Nat BY <2>1 DEF TypeOK, UetdsRow
    <3>4. Heard(p) BY <1>1, <2>3, <3>1, <3>2, <3>3 DEF BatchOrdered
    <3> QED BY <1>11, <2>1, <3>4
  <2> QED BY <1>4, <2>2, <2>3
<1> QED BY <1>7, <1>8, <1>9, <1>10, <1>12, <1>13, <1>14

LEMMA SendCancelledKeeps ==
    ASSUME OutboxInv, SendCancelled
    PROVE  OutboxInv'
<1> USE DEF OutboxInv
<1>1. /\ worker = "sending" /\ stopping /\ todo' = {}
      /\ copy' = [e \in DOMAIN copy |-> IF e \in todo THEN Attempted(copy[e]) ELSE copy[e]]
      /\ UNCHANGED <<rows, clock, worker, stopping, told, refused, stops>>
  BY DEF SendCancelled
<1>2. ASSUME NEW e \in DOMAIN copy
      PROVE  /\ copy'[e] \in UetdsRow
             /\ copy'[e].at = copy[e].at
             /\ copy'[e].status \in {"Sent", "Failed"}
             /\ copy'[e].status = "Sent" => e \in told
  <2>1. e \in Events /\ copy[e] \in UetdsRow BY DEF TypeOK
  <2>2. CASE e \in todo
    <3>1. copy[e].retries \in 0..2 BY <2>1, <2>2, DueRetries DEF CopiesSound
    <3> QED BY <1>1, <2>1, <2>2, <3>1, AttemptedType
  <2>3. CASE e \notin todo BY <1>1, <2>1, <2>3 DEF CopiesSound
  <2> QED BY <2>2, <2>3
<1>3. TypeOK' BY <1>1, <1>2 DEF TypeOK
<1>4. CopiesSound' BY <1>1, <1>2 DEF CopiesSound, Due
<1>5. RowsSound' /\ PickUpOlder' /\ SentWasTold' /\ PickUpFirst' /\ BatchOrdered'
  BY <1>1 DEF RowsSound, PickUpOlder, Before, SentWasTold, PickUpFirst, BatchOrdered
<1> QED BY <1>3, <1>4, <1>5

LEMMA SaveKeeps ==
    ASSUME OutboxInv, Save
    PROVE  OutboxInv'
<1> USE DEF OutboxInv
<1>1. /\ todo = {} /\ ~stopping /\ worker' = "asleep" /\ copy' = NoCopies
      /\ UNCHANGED <<clock, stopping, todo, told, refused, stops>>
  BY DEF Save
<1>2. rows' = [e \in Events |-> IF e \in DOMAIN copy THEN copy[e] ELSE rows[e]]
  BY DEF Save, SavedRows
<1>3. TypeOK' BY <1>1, <1>2, NoCopiesType DEF TypeOK
<1>4. ASSUME NEW e \in Events
      PROVE  /\ rows'[e].at = rows[e].at
             /\ rows'[e].status = "None" <=> rows[e].status = "None"
             /\ rows'[e].status = "Pending" => rows'[e].retries = 0
             /\ rows'[e].status = "Sent" => e \in told
             /\ rows'[e].retries =< refused[e]
  <2>1. CASE e \in DOMAIN copy
    <3>1. rows'[e] = copy[e] /\ Due(e) /\ copy[e].status \in {"Sent", "Failed"}
      BY <1>1, <1>2, <2>1 DEF CopiesSound
    <3>2. rows[e].status # "None" BY <3>1 DEF Due
    <3> QED BY <1>1, <2>1, <3>1, <3>2 DEF CopiesSound
  <2>2. CASE e \notin DOMAIN copy BY <1>2, <2>2 DEF RowsSound, SentWasTold
  <2> QED BY <2>1, <2>2
<1>5. RowsSound' BY <1>1, <1>4 DEF RowsSound
<1>6. PickUpOlder'
  <2> SUFFICES ASSUME NEW l \in Loads, rows'[<<l, "Delivery">>].status # "None"
               PROVE  /\ rows'[<<l, "PickUp">>].status # "None"
                      /\ rows'[<<l, "PickUp">>].at < rows'[<<l, "Delivery">>].at
    BY DEF PickUpOlder, Before
  <2>1. <<l, "PickUp">> \in Events /\ <<l, "Delivery">> \in Events BY DEF Events
  <2> QED BY <1>4, <2>1 DEF PickUpOlder, Before
<1>7. CopiesSound' BY <1>1, NoCopiesType DEF CopiesSound
<1>8. SentWasTold' BY <1>1, <1>4 DEF SentWasTold
<1>9. BatchOrdered' /\ PickUpFirst' BY <1>1 DEF BatchOrdered, PickUpFirst
<1> QED BY <1>3, <1>5, <1>6, <1>7, <1>8, <1>9

\* The steps that stop or start the worker leave the rows alone and forget the copies.
LEMMA OtherStepsKeep ==
    ASSUME OutboxInv, SaveFails \/ SaveCancelled \/ Shutdown \/ Crash \/ Restart
    PROVE  OutboxInv'
<1> USE DEF OutboxInv
<1>1. /\ UNCHANGED <<rows, clock, told, refused>>
      /\ todo' \in {todo, {}}
      /\ worker' \in {"off", "asleep", "sending"} /\ stopping' \in BOOLEAN
  BY DEF SaveFails, SaveCancelled, Shutdown, Crash, Restart, TypeOK
<1>2. stops' \in 0..MaxStops
  BY OutboxAssumption DEF SaveFails, SaveCancelled, Shutdown, Crash, Restart, TypeOK
<1>3. \/ copy' = NoCopies /\ todo' = {}
      \/ /\ copy' = copy /\ todo' = todo
         /\ worker' # "sending" => worker # "sending"
         /\ stopping => stopping' \/ worker = "off"
  BY DEF SaveFails, SaveCancelled, Shutdown, Crash, Restart
<1>4. TypeOK' BY <1>1, <1>2, <1>3, NoCopiesType DEF TypeOK
<1>5. CopiesSound'
  <2>1. CASE copy' = NoCopies /\ todo' = {} BY <2>1, NoCopiesType DEF CopiesSound
  <2>2. CASE /\ copy' = copy /\ todo' = todo
             /\ worker' # "sending" => worker # "sending"
             /\ stopping => stopping' \/ worker = "off"
    BY <1>1, <2>2 DEF CopiesSound, Due
  <2> QED BY <1>3, <2>1, <2>2
<1>6. RowsSound' /\ PickUpOlder' /\ SentWasTold' /\ PickUpFirst'
  BY <1>1 DEF RowsSound, PickUpOlder, Before, SentWasTold, PickUpFirst
<1>7. BatchOrdered' BY <1>1, <1>3 DEF BatchOrdered, Heard
<1> QED BY <1>4, <1>5, <1>6, <1>7

-------------------------------------------------------------------------------
\* Every step keeps the invariant.
LEMMA NextOutbox == OutboxInv /\ [Next]_vars => OutboxInv'
<1> SUFFICES ASSUME OutboxInv, [Next]_vars PROVE OutboxInv' OBVIOUS
<1>1. CASE Next
  <2>1. StepOfOutbox BY <1>1, StepCases
  <2> QED BY <2>1, WriteRowKeeps, PollKeeps, SendKeeps, SendCancelledKeeps, SaveKeeps,
             OtherStepsKeep DEF StepOfOutbox
<1>2. CASE UNCHANGED vars
  BY <1>2 DEF vars, OutboxInv, TypeOK, RowsSound, PickUpOlder, Before, CopiesSound, Due,
              BatchOrdered, Heard, SentWasTold, PickUpFirst
<1> QED BY <1>1, <1>2

\* The worker of the ministry's outbox keeps its invariant whatever stops it.
THEOREM OutboxHolds == Spec => []OutboxInv
BY InitOutbox, NextOutbox, PTL DEF Spec

\* The outbox's rows, copies and counters keep their types.
THEOREM OutboxTypeCorrect == Spec => []TypeOK
<1>1. OutboxInv => TypeOK BY DEF OutboxInv
<1> QED BY <1>1, OutboxHolds, PTL

\* A row the database calls Sent has been received by the ministry.
THEOREM SentIsTold == Spec => []SentWasTold
<1>1. OutboxInv => SentWasTold BY DEF OutboxInv
<1> QED BY <1>1, OutboxHolds, PTL

\* The ministry does not hear of a delivery before it received or refused the pick-up.
THEOREM PickUpIsFirst == Spec => []PickUpFirst
<1>1. OutboxInv => PickUpFirst BY DEF OutboxInv
<1> QED BY <1>1, OutboxHolds, PTL

\* A notification is given up only after three refusals.
THEOREM ThreeRefusals == Spec => []GivenUpAfterThree
<1>1. ASSUME OutboxInv PROVE GivenUpAfterThree
  <2> SUFFICES ASSUME NEW e \in Events, GivenUp(e) PROVE refused[e] = MaxRetries
    BY DEF GivenUpAfterThree
  <2>1. rows[e] \in UetdsRow /\ refused[e] \in 0..3 /\ rows[e].retries =< refused[e]
    BY <1>1 DEF OutboxInv, TypeOK, RowsSound, MaxRetries
  <2> QED BY <2>1 DEF GivenUp, UetdsRow, MaxRetries
<1> QED BY <1>1, OutboxHolds, PTL

-------------------------------------------------------------------------------
(* The refinement: the outbox implements Notices. *)

FateOf == [e \in Events |-> Fate(e)]

\* A row that is due waits, and only such a row has a copy.
LEMMA DueWaits ==
    ASSUME OutboxInv, NEW e \in Events, Due(e)
    PROVE  Fate(e) = "waiting"
BY DueRetries DEF OutboxInv, Due, Fate, GivenUp, MaxRetries

\* The four fates.
LEMMA FateType == \A e \in Events : Fate(e) \in {"none", "waiting", "received", "given up"}
BY DEF Fate

\* A row that is written.
LEMMA WriteRowHappens ==
    ASSUME OutboxInv, NEW e \in Events, WriteRow(e),
           \A l \in Loads : e = <<l, "Delivery">> => rows[<<l, "PickUp">>].status # "None"
    PROVE  Promised!Happens(e)
<1>1. rows' = [rows EXCEPT ![e] = [status |-> "Pending", retries |-> 0, at |-> clock]]
      /\ rows[e].status = "None" /\ told' = told /\ refused' = refused
  BY DEF WriteRow
<1>2. Fate(e) = "none" BY <1>1 DEF Fate
<1>3. Fate(e)' = "waiting" BY <1>1 DEF Fate, GivenUp, OutboxInv, TypeOK
<1>4. \A f \in Events : f # e => Fate(f)' = Fate(f)
  BY <1>1 DEF Fate, GivenUp, OutboxInv, TypeOK
<1>5. FateOf' = [FateOf EXCEPT ![e] = "waiting"] BY <1>3, <1>4 DEF FateOf
<1>6. \A l \in Loads : e = <<l, "Delivery">> => FateOf[<<l, "PickUp">>] # "none"
  <2> SUFFICES ASSUME NEW l \in Loads, e = <<l, "Delivery">>
               PROVE  FateOf[<<l, "PickUp">>] # "none"
    OBVIOUS
  <2>1. <<l, "PickUp">> \in Events BY DEF Events
  <2> QED BY <2>1 DEF FateOf, Fate
<1> QED BY <1>1, <1>2, <1>5, <1>6 DEF FateOf, Promised!Happens

\* A call that the ministry answers, or whose answer is lost.
LEMMA SendReceivesOrRefuses ==
    ASSUME OutboxInv, OutboxInv', NEW e \in Events, SendAccepted(e) \/ SendRefused(e)
    PROVE  Promised!Receive(e) \/ Promised!Refuse(e)
<1>1. e \in DOMAIN copy /\ Due(e) BY DEF OutboxInv, TypeOK, CopiesSound, SendAccepted,
                                             SendRefused, IsNext
<1>2. FateOf[e] = "waiting" BY <1>1, DueWaits DEF FateOf
<1>3. FateOf' = FateOf BY DEF FateOf, Fate, GivenUp, SendAccepted, SendRefused
<1>4. told' # told => Promised!InOrder(e)
  <2> SUFFICES ASSUME told' # told, NEW l \in Loads, e = <<l, "Delivery">>
               PROVE  Heard(<<l, "PickUp">>)
    BY DEF Promised!InOrder, Heard
  <2>1. <<l, "PickUp">> # e /\ <<l, "PickUp">> \in Events BY DEF Events
  <2>2. told' = told \cup {e} BY DEF SendAccepted, SendRefused
  <2>3. <<l, "PickUp">> \in told' \/ refused'[<<l, "PickUp">>] > 0
    BY <2>2 DEF OutboxInv, PickUpFirst
  <2>4. refused'[<<l, "PickUp">>] = refused[<<l, "PickUp">>]
    BY <2>1 DEF SendAccepted, SendRefused, OutboxInv, TypeOK
  <2> QED BY <2>1, <2>2, <2>3, <2>4 DEF Heard
<1>5. told' = told \/ told' = told \cup {e} BY DEF SendAccepted, SendRefused
<1>6. CASE SendRefused(e)
  <2>1. Promised!Refuse(e)
    BY <1>2, <1>3, <1>4, <1>5, <1>6
    DEF FateOf, SendRefused, MaxRetries, Promised!Enough, Promised!Refuse
  <2> QED BY <2>1
<1>7. CASE SendAccepted(e)
  <2>1. refused' = refused /\ told' = told \cup {e} BY <1>7 DEF SendAccepted
  <2>2. Promised!InOrder(e)
    <3> SUFFICES ASSUME NEW l \in Loads, e = <<l, "Delivery">>
                 PROVE  Heard(<<l, "PickUp">>)
      BY DEF Promised!InOrder, Heard
    <3>1. <<l, "PickUp">> # e OBVIOUS
    <3>2. <<l, "PickUp">> \in told' \/ refused'[<<l, "PickUp">>] > 0
      BY <2>1 DEF OutboxInv, PickUpFirst
    <3> QED BY <2>1, <3>1, <3>2 DEF Heard
  <2> QED BY <1>2, <1>3, <2>1, <2>2 DEF FateOf, Promised!Receive
<1> QED BY <1>6, <1>7

\* What is saved was waiting, and its copy says why it is settled.
LEMMA SaveSettles ==
    ASSUME OutboxInv, Save
    PROVE  Promised!Settle
<1>1. ~stopping /\ todo = {} /\ told' = told /\ refused' = refused
      /\ rows' = [e \in Events |-> IF e \in DOMAIN copy THEN copy[e] ELSE rows[e]]
  BY DEF Save, SavedRows
<1>2. FateOf' \in [Events -> {"none", "waiting", "received", "given up"}]
  BY FateType DEF FateOf, Fate
<1>3. ASSUME NEW e \in Events, Fate(e)' # Fate(e)
      PROVE  /\ Fate(e) = "waiting"
             /\ \/ Fate(e)' = "received" /\ e \in told
                \/ Fate(e)' = "given up" /\ refused[e] = 3
  <2>1. e \in DOMAIN copy BY <1>1, <1>3 DEF Fate, GivenUp
  <2>2. rows'[e] = copy[e] BY <1>1, <2>1
  <2>3. /\ Due(e)
        /\ copy[e].status \in {"Sent", "Failed"}
        /\ copy[e].status = "Sent" => e \in told
        /\ copy[e].retries =< refused[e]
    BY <1>1, <2>1 DEF OutboxInv, CopiesSound
  <2>4. Fate(e) = "waiting" BY <2>3, DueWaits
  <2>5. copy[e] \in UetdsRow /\ refused[e] \in 0..3
    BY <2>1 DEF OutboxInv, TypeOK, MaxRetries
  <2>6. CASE copy[e].status = "Sent" BY <2>2, <2>3, <2>4, <2>6 DEF Fate
  <2>7. CASE copy[e].status = "Failed"
    <3>1. Fate(e)' = IF copy[e].retries = 3 THEN "given up" ELSE "waiting"
      BY <2>2, <2>7 DEF Fate, GivenUp, MaxRetries
    <3>2. copy[e].retries = 3 BY <1>3, <2>4, <3>1
    <3>3. refused[e] = 3 BY <2>3, <2>5, <3>2
    <3> QED BY <2>4, <3>1, <3>2, <3>3
  <2> QED BY <2>3, <2>6, <2>7
<1> QED BY <1>1, <1>2, <1>3
     DEF FateOf, Events, Promised!Notified, Promised!Enough, Promised!Settle

\* The other steps change nothing that Notices speaks of.
LEMMA OtherStepsUnseen ==
    ASSUME \/ Poll \/ SendCancelled \/ SaveFails \/ SaveCancelled
           \/ Shutdown \/ Crash \/ Restart \/ UNCHANGED vars
    PROVE  UNCHANGED Promised!nvars
<1>1. rows' = rows /\ told' = told /\ refused' = refused
  BY DEF Poll, SendCancelled, SaveFails, SaveCancelled, Shutdown, Crash, Restart, vars
<1> QED BY <1>1 DEF Fate, GivenUp, Promised!nvars

\* Every step of the outbox is a step of Notices, or none.
LEMMA StepKeepsPromise == OutboxInv /\ OutboxInv' /\ [Next]_vars
                          => [Promised!NNext]_(Promised!nvars)
<1> SUFFICES ASSUME OutboxInv, OutboxInv', [Next]_vars
             PROVE  Promised!NNext \/ UNCHANGED Promised!nvars
  OBVIOUS
<1>1. Events = Promised!Notified BY DEF Events, Promised!Notified
<1>2. CASE Next
  <2>1. StepOfOutbox BY <1>2, StepCases
  <2>2. CASE \E e \in Events : WriteRow(e) /\ \A l \in Loads :
                 e = <<l, "Delivery">> => rows[<<l, "PickUp">>].status # "None"
    BY <1>1, <2>2, WriteRowHappens DEF Promised!NNext
  <2>3. CASE \E e \in Events : SendAccepted(e) \/ SendRefused(e)
    BY <1>1, <2>3, SendReceivesOrRefuses DEF Promised!NNext
  <2>4. CASE Save BY <2>4, SaveSettles DEF Promised!NNext
  <2> QED BY <2>1, <2>2, <2>3, <2>4, OtherStepsUnseen DEF StepOfOutbox
<1>3. CASE UNCHANGED vars BY <1>3, OtherStepsUnseen
<1> QED BY <1>2, <1>3

\* The outbox without rows is Notices before anything happens.
LEMMA InitPromised == Init => Promised!NInit
BY DEF Init, Events, Fate, Promised!NInit, Promised!Notified

\* The outbox keeps its promise: an event's fate is decided once and for its own
\* reason, and the ministry hears of a load's events in their order.
THEOREM OutboxKeepsPromise == Spec => KeepsPromise
BY InitPromised, OutboxHolds, StepKeepsPromise, PTL DEF Spec, KeepsPromise, Promised!Notices
===============================================================================
