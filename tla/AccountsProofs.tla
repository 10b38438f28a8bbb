---------------------------- MODULE AccountsProofs ----------------------------
(***************************************************************************)
(* Theorems about the accounts.  Sessions, for any number of tabs, phones, *)
(* requests and sign-ins: the replay defence spares the owner, and a       *)
(* sign-out lasts.  Onboarding, for any set of papers and any number of    *)
(* uploads, acts of administrators and nights of the clean-up job.         *)
(***************************************************************************)
EXTENDS Sessions, Onboarding, FiniteSetTheorems, TLAPS

-------------------------------------------------------------------------------
(* Signing in, renewing and signing out. *)

\* What the invariant speaks of.
tokens == <<current, issued, disk, shown, refresh, login, owner, orphan, crossed>>

\* Every client has a device.
LEMMA DiskType == \A c \in Clients : Disk(c) \in Disks
BY DEF Disk, Disks, Clients

\* Where nothing crossed, whoever shares a device with a client in flight has nothing in flight.
LEMMA AloneOnDevice ==
    ASSUME SessionTypes, OneInFlight,
           NEW c \in Clients, NEW e \in Clients, e # c, Disk(e) = Disk(c), InFlight(c)
    PROVE  refresh[e] = Idle /\ login[e] = 0
BY DEF OneInFlight, InFlight

\* Where nothing new goes in flight, there is one thing in flight at most, as before.
LEMMA NoNewFlight ==
    ASSUME OneInFlight,
           \A e \in Clients : /\ refresh'[e] = refresh[e] \/ refresh'[e] = Idle \/ refresh[e] # Idle
                              /\ login'[e] = login[e] \/ login'[e] = 0
    PROVE  OneInFlight'
<1>1. Idle' = Idle BY DEF Idle
<1>2. ASSUME NEW e \in Clients PROVE refresh'[e] = Idle \/ login'[e] = 0
  BY DEF OneInFlight
<1>3. ASSUME NEW e \in Clients, refresh'[e] # Idle \/ login'[e] # 0 PROVE InFlight(e)
  BY <1>3 DEF InFlight
<1> QED BY <1>1, <1>2, <1>3 DEF OneInFlight, InFlight

\* A client on a device with nothing in flight may send one thing off.
LEMMA NewFlight ==
    ASSUME OneInFlight, NEW c \in Clients,
           \A e \in Clients : Disk(e) = Disk(c) => ~InFlight(e),
           \A e \in Clients \ {c} : refresh'[e] = refresh[e] /\ login'[e] = login[e],
           refresh'[c] = refresh[c] \/ login'[c] = login[c]
    PROVE  OneInFlight'
<1>1. Idle' = Idle BY DEF Idle
<1>2. ~InFlight(c) OBVIOUS
<1>3. \A e \in Clients : refresh'[e] = Idle \/ login'[e] = 0
  BY <1>2 DEF OneInFlight, InFlight
<1>4. ASSUME NEW d \in Clients, NEW e \in Clients, Disk(d) = Disk(e),
             refresh'[d] # Idle \/ login'[d] # 0, refresh'[e] # Idle \/ login'[e] # 0
      PROVE  d = e
  BY <1>4 DEF OneInFlight, InFlight
<1> QED BY <1>1, <1>3, <1>4 DEF OneInFlight, InFlight

\* A step that only touches requests or the clock keeps the invariant.
LEMMA TokensKept == ASSUME SessionsInv, UNCHANGED tokens PROVE SessionsInv'
BY DEF tokens, SessionsInv, SessionTypes, Orderly, OneInFlight, InFlight, RenewsWhatItKeeps,
       GivenTheNewest, OwnerHasIt, NoFalseAlarm, SignedOutStaysOut

-------------------------------------------------------------------------------
LEMMA InitSessions == SessionsInit => SessionsInv
<1> SUFFICES ASSUME SessionsInit PROVE SessionsInv OBVIOUS
<1>1. SessionTypes BY DEF SessionsInit, SessionTypes, SignedOut, Idle, RenewalStates
<1>2. Orderly
  BY DiskType DEF SessionsInit, Orderly, OneInFlight, InFlight, RenewsWhatItKeeps, GivenTheNewest, OwnerHasIt, Idle
<1>3. NoFalseAlarm /\ SignedOutStaysOut
  BY DEF SessionsInit, NoFalseAlarm, SignedOutStaysOut, SignedOut, Idle
<1> QED BY <1>1, <1>2, <1>3 DEF SessionsInv

-------------------------------------------------------------------------------
(* The server's steps. *)

\* The comparison: a client's own pair is the current one as long as the account's owner is its device.
LEMMA ReadUserKeeps == ASSUME SessionsInv, NEW c \in Clients, ReadUser(c) PROVE SessionsInv'
<1> USE DEF SessionsInv
<1>1. PICK verdict \in {"matched", "replayed", "denied"} :
        /\ verdict = "matched" => current # 0 /\ refresh[c].pair = current
        /\ verdict = "replayed" => current # 0 /\ refresh[c].pair # current
        /\ refresh' = [refresh EXCEPT ![c].state = verdict]
  BY DEF ReadUser
<1>2. UNCHANGED <<current, issued, disk, shown, login, owner, orphan, crossed>>
  BY DEF ReadUser, history
<1>3. refresh[c].state = "posted" BY DEF ReadUser
<1>4. SessionTypes' BY <1>1, <1>2 DEF SessionTypes, RenewalStates
<1>5. /\ \A e \in Clients \ {c} : refresh'[e] = refresh[e]
      /\ refresh'[c].state = verdict /\ refresh'[c].pair = refresh[c].pair
  BY <1>1 DEF SessionTypes
<1>6. SignedOutStaysOut' BY <1>2 DEF SignedOutStaysOut
<1>7. InFlight(c) BY <1>3 DEF InFlight, Idle
<1>8. ASSUME ~crossed PROVE Orderly' /\ (refresh'[c].state = "replayed" /\ current # 0 =>
                                            owner # Disk(c) \/ orphan)
  <2>0. OneInFlight /\ RenewsWhatItKeeps /\ GivenTheNewest /\ OwnerHasIt BY <1>8 DEF Orderly
  <2>1. OneInFlight' BY <1>2, <1>3, <1>5, <2>0, NoNewFlight DEF Idle
  <2>2. RenewsWhatItKeeps' BY <1>1, <1>2, <1>3, <1>5, <2>0 DEF RenewsWhatItKeeps
  <2>3. GivenTheNewest' BY <1>1, <1>2, <1>5, <2>0 DEF GivenTheNewest
  <2>4. OwnerHasIt' BY <1>2, <1>3, <1>5, <2>0 DEF OwnerHasIt
  <2>5. ASSUME verdict = "replayed", current # 0, owner = Disk(c), ~orphan PROVE FALSE
    <3>1. login[c] = 0 BY <1>7, <1>3, <2>0 DEF OneInFlight, Idle
    <3>2. refresh[c].pair = disk[Disk(c)].pair BY <1>3, <2>0 DEF RenewsWhatItKeeps
    <3>3. PICK e \in Clients : /\ Disk(e) = Disk(c)
                               /\ \/ refresh[e].state = "granted" /\ refresh[e].new = current
                                  \/ login[e] = current
      BY <1>1, <2>0, <2>5, <3>2, DiskType DEF OwnerHasIt
    <3>4. e # c BY <1>3, <3>1, <3>3, <2>5
    <3> QED BY <1>7, <2>0, <2>5, <3>3, <3>4, AloneOnDevice DEF Idle
  <2> QED BY <2>1, <2>2, <2>3, <2>4, <2>5, <1>5 DEF Orderly
<1>9. NoFalseAlarm' BY <1>2, <1>5, <1>8 DEF NoFalseAlarm
<1> QED BY <1>2, <1>4, <1>6, <1>8, <1>9

\* The rotation: the pair is new, and its owner is a device with nothing else in flight.
LEMMA RotateKeeps == ASSUME SessionsInv, NEW c \in Clients, Rotate(c) PROVE SessionsInv'
<1> USE DEF SessionsInv
<1>1. /\ refresh' = [refresh EXCEPT ![c] = [state |-> "granted", pair |-> @.pair, new |-> issued + 1]]
      /\ current' = issued + 1 /\ issued' = issued + 1 /\ owner' = Disk(c) /\ orphan' = FALSE
      /\ UNCHANGED <<disk, shown, login, crossed>>
  BY DEF Rotate, Issue
<1>2. refresh[c].state = "matched" /\ InFlight(c) BY DEF Rotate, InFlight, Idle
<1>3. SessionTypes'
  <2>1. issued + 1 \in Nat BY DEF SessionTypes
  <2>2. [state |-> "granted", pair |-> refresh[c].pair, new |-> issued + 1]
            \in [state : RenewalStates, pair : Nat, new : Nat]
    BY <2>1 DEF SessionTypes, RenewalStates
  <2> QED BY <1>1, <2>1, <2>2 DEF SessionTypes
<1>4. /\ \A e \in Clients \ {c} : refresh'[e] = refresh[e]
      /\ refresh'[c] = [state |-> "granted", pair |-> refresh[c].pair, new |-> current']
      /\ current' # 0
  BY <1>1 DEF SessionTypes
<1>5. SignedOutStaysOut' BY <1>1 DEF SignedOutStaysOut
<1>6. ASSUME ~crossed PROVE Orderly' /\ NoFalseAlarm'
  <2>0. OneInFlight /\ RenewsWhatItKeeps BY <1>6 DEF Orderly
  <2>1. \A e \in Clients \ {c} : Disk(e) = Disk(c) => refresh[e] = Idle /\ login[e] = 0
    BY <1>2, <2>0, AloneOnDevice
  <2>2. login[c] = 0 BY <1>2, <2>0 DEF OneInFlight, Idle
  <2>3. OneInFlight' BY <1>1, <1>2, <1>4, <2>0, NoNewFlight DEF Idle
  <2>4. RenewsWhatItKeeps' BY <1>1, <1>2, <1>4, <2>0 DEF RenewsWhatItKeeps
  <2>5. GivenTheNewest' BY <1>1, <1>4, <2>1, <2>2 DEF GivenTheNewest, Idle
  <2>6. refresh'[c].state = "granted" /\ refresh'[c].new = current' BY <1>4
  <2>7. OwnerHasIt' BY <1>1, <2>6 DEF OwnerHasIt
  <2>8. NoFalseAlarm' BY <1>1, <1>4, <2>1 DEF NoFalseAlarm, Idle
  <2> QED BY <2>3, <2>4, <2>5, <2>7, <2>8 DEF Orderly
<1>7. crossed => NoFalseAlarm' BY <1>1 DEF NoFalseAlarm
<1> QED BY <1>1, <1>3, <1>5, <1>6, <1>7

\* The replay defence: the account has no pair any more.
LEMMA CloseAccountKeeps == ASSUME SessionsInv, NEW c \in Clients, CloseAccount(c) PROVE SessionsInv'
<1> USE DEF SessionsInv
<1>1. /\ refresh' = [refresh EXCEPT ![c].state = "denied"] /\ current' = 0
      /\ UNCHANGED <<issued, disk, shown, login, owner, orphan, crossed>>
  BY DEF CloseAccount, history
<1>2. refresh[c].state = "replayed" BY DEF CloseAccount
<1>3. SessionTypes' BY <1>1 DEF SessionTypes, RenewalStates
<1>4. /\ \A e \in Clients \ {c} : refresh'[e] = refresh[e]
      /\ refresh'[c].state = "denied"
  BY <1>1 DEF SessionTypes
<1>5. current' = 0 BY <1>1
<1>6. NoFalseAlarm' BY <1>5 DEF NoFalseAlarm
<1>7. SignedOutStaysOut' BY <1>1 DEF SignedOutStaysOut
<1>8. ASSUME ~crossed PROVE Orderly'
  <2>0. OneInFlight /\ RenewsWhatItKeeps BY <1>8 DEF Orderly
  <2>1. OneInFlight' BY <1>1, <1>2, <1>4, <2>0, NoNewFlight DEF Idle
  <2>2. RenewsWhatItKeeps' BY <1>1, <1>4, <2>0 DEF RenewsWhatItKeeps
  <2>3. GivenTheNewest' /\ OwnerHasIt' BY <1>1 DEF GivenTheNewest, OwnerHasIt
  <2> QED BY <2>1, <2>2, <2>3 DEF Orderly
<1> QED BY <1>1, <1>3, <1>6, <1>7, <1>8

-------------------------------------------------------------------------------
(* A renewal begins and ends. *)

LEMMA StartRenewalKeeps ==
    ASSUME SessionsInv, NEW r \in Requests, StartRenewal(r) PROVE SessionsInv'
<1> DEFINE c == From[r]
<1> USE DEF SessionsInv
<1>0. c \in Clients BY SessionsAssumption DEF SessionsAssumption
<1>1. /\ refresh' = [refresh EXCEPT ![c] = Posted(c)]
      /\ crossed' = (crossed \/ Busy(Disk(c)))
      /\ UNCHANGED <<current, issued, disk, shown, login, owner, orphan>>
      /\ disk[Disk(c)].pair # 0
  BY DEF StartRenewal
<1>2. Disk(c) \in Disks BY <1>0, DiskType
<1>3. SessionTypes' BY <1>0, <1>1, <1>2 DEF SessionTypes, Posted, RenewalStates
<1>4. /\ \A e \in Clients \ {c} : refresh'[e] = refresh[e]
      /\ refresh'[c] = [state |-> "posted", pair |-> disk[Disk(c)].pair, new |-> 0]
  BY <1>0, <1>1 DEF SessionTypes, Posted
<1>5. SignedOutStaysOut' BY <1>1 DEF SignedOutStaysOut
<1>6. NoFalseAlarm'
  <2>1. \A e \in Clients : refresh'[e].state = "replayed" => refresh[e].state = "replayed" BY <1>4
  <2>2. crossed => crossed' BY <1>1
  <2>3. UNCHANGED <<current, owner, orphan>> BY <1>1
  <2> QED BY <2>1, <2>2, <2>3 DEF NoFalseAlarm
<1>7. ASSUME ~crossed' PROVE Orderly'
  <2>0. ~crossed /\ ~Busy(Disk(c)) BY <1>1, <1>7
  <2>1. OneInFlight /\ RenewsWhatItKeeps /\ GivenTheNewest /\ OwnerHasIt BY <2>0 DEF Orderly
  <2>2. \A e \in Clients : Disk(e) = Disk(c) => ~InFlight(e) BY <2>0 DEF Busy, InFlight
  <2>3. OneInFlight' BY <1>0, <1>1, <1>4, <2>1, <2>2, NewFlight
  <2>4. RenewsWhatItKeeps' BY <1>1, <1>4, <2>1 DEF RenewsWhatItKeeps
  <2>5. GivenTheNewest' BY <1>1, <1>4, <2>1 DEF GivenTheNewest
  <2>6. OwnerHasIt'
    <3> SUFFICES ASSUME current # 0, ~orphan, disk[owner].pair # current, owner \in Disks
                 PROVE  \E e \in Clients : /\ Disk(e) = owner
                                           /\ \/ refresh'[e].state = "granted" /\ refresh'[e].new = current
                                              \/ login[e] = current
      BY <1>1 DEF OwnerHasIt
    <3>1. PICK e \in Clients : /\ Disk(e) = owner
                               /\ \/ refresh[e].state = "granted" /\ refresh[e].new = current
                                  \/ login[e] = current
      BY <2>1 DEF OwnerHasIt
    <3>2. e # c BY <2>2, <3>1 DEF InFlight, Idle
    <3> QED BY <1>4, <3>1, <3>2
  <2> QED BY <2>3, <2>4, <2>5, <2>6 DEF Orderly
<1> QED BY <1>3, <1>5, <1>6, <1>7

\* Nothing that was kept is lost: there was nothing.
LEMMA NothingToRenewKeeps ==
    ASSUME SessionsInv, NEW r \in Requests, NothingToRenew(r) PROVE SessionsInv'
<1> DEFINE c == From[r]
<1> USE DEF SessionsInv
<1>0. c \in Clients /\ Disk(c) \in Disks BY SessionsAssumption, DiskType DEF SessionsAssumption
<1>1. /\ disk' = [disk EXCEPT ![Disk(c)] = SignedOut] /\ disk[Disk(c)].pair = 0
      /\ shown' = [shown EXCEPT ![c] = FALSE]
      /\ orphan' = (orphan \/ (current # 0 /\ current \in {disk[Disk(c)].pair}))
      /\ UNCHANGED <<current, issued, refresh, login, owner, crossed>>
  BY DEF NothingToRenew, SignOutDisk, Forget
<1>2. orphan' = orphan BY <1>1 DEF SessionTypes
<1>3. SessionTypes' BY <1>0, <1>1, <1>2 DEF SessionTypes, SignedOut
<1>4. /\ \A d \in Disks \ {Disk(c)} : disk'[d] = disk[d]
      /\ \A d \in Disks : disk'[d].pair = disk[d].pair
      /\ \A e \in Clients \ {c} : shown'[e] = shown[e]
  BY <1>0, <1>1 DEF SessionTypes, SignedOut
<1>5. SignedOutStaysOut' BY <1>0, <1>1, <1>4 DEF SignedOutStaysOut
<1>6. NoFalseAlarm' BY <1>1, <1>2 DEF NoFalseAlarm
<1>7. ASSUME ~crossed PROVE Orderly'
  <2>1. OneInFlight /\ RenewsWhatItKeeps /\ GivenTheNewest /\ OwnerHasIt BY <1>7 DEF Orderly
  <2>2. OneInFlight' BY <1>1, <2>1, NoNewFlight
  <2>3. RenewsWhatItKeeps' BY <1>1, <1>4, <2>1, DiskType DEF RenewsWhatItKeeps
  <2>4. GivenTheNewest' BY <1>1, <2>1 DEF GivenTheNewest
  <2>5. OwnerHasIt' BY <1>1, <1>2, <1>4, <2>1 DEF OwnerHasIt
  <2> QED BY <2>2, <2>3, <2>4, <2>5 DEF Orderly
<1> QED BY <1>1, <1>3, <1>5, <1>6, <1>7

\* The device keeps the new pair: the newest, if the newest was issued to it.
LEMMA RefreshedKeeps == ASSUME SessionsInv, NEW c \in Clients, Refreshed(c) PROVE SessionsInv'
<1> USE DEF SessionsInv
<1>0. Disk(c) \in Disks BY DiskType
<1>1. /\ disk' = [disk EXCEPT ![Disk(c)] = Renewed(c)]
      /\ refresh' = [refresh EXCEPT ![c] = Idle]
      /\ UNCHANGED <<current, issued, shown, login, owner, orphan, crossed>>
  BY DEF Refreshed, history
<1>2. refresh[c].state = "granted" /\ InFlight(c) BY DEF Refreshed, InFlight, Idle
<1>3. Renewed(c).pair = refresh[c].new /\ Renewed(c) \in [pair : Nat, in : BOOLEAN]
  <2>1. c \notin Tabs => disk[c].in \in BOOLEAN
    BY <1>0 DEF SessionTypes, Disk
  <2>2. refresh[c].new \in Nat BY DEF SessionTypes
  <2> QED BY <2>1, <2>2 DEF Renewed
<1>4. SessionTypes' BY <1>0, <1>1, <1>3 DEF SessionTypes, Idle, RenewalStates
<1>5. /\ \A e \in Clients \ {c} : refresh'[e] = refresh[e]
      /\ refresh'[c] = Idle
      /\ \A d \in Disks \ {Disk(c)} : disk'[d] = disk[d]
      /\ disk'[Disk(c)] = Renewed(c)
  BY <1>0, <1>1 DEF SessionTypes
<1>6. NoFalseAlarm' BY <1>1, <1>5 DEF NoFalseAlarm, Idle
<1>7. ASSUME ~crossed PROVE Orderly' /\ SignedOutStaysOut'
  <2>0. OneInFlight /\ RenewsWhatItKeeps /\ GivenTheNewest /\ OwnerHasIt BY <1>7 DEF Orderly
  <2>1. \A e \in Clients \ {c} : Disk(e) = Disk(c) => refresh[e] = Idle /\ login[e] = 0
    BY <1>2, <2>0, AloneOnDevice
  <2>2. OneInFlight' BY <1>1, <1>5, <2>0, NoNewFlight
  <2>3. RenewsWhatItKeeps' BY <1>5, <2>0, <2>1, DiskType DEF RenewsWhatItKeeps, Idle
  <2>4. GivenTheNewest' BY <1>1, <1>5, <2>0 DEF GivenTheNewest, Idle
  <2>5. OwnerHasIt'
    <3> SUFFICES ASSUME NEW d \in Disks, current # 0, owner = d, ~orphan
                 PROVE  \/ disk'[d].pair = current
                        \/ \E e \in Clients : /\ Disk(e) = d
                                              /\ \/ refresh'[e].state = "granted" /\ refresh'[e].new = current
                                                 \/ login[e] = current
      BY <1>1 DEF OwnerHasIt
    <3>1. CASE d = Disk(c)
      <4>1. refresh[c].new = current BY <1>2, <2>0, <3>1 DEF GivenTheNewest
      <4> QED BY <1>3, <1>5, <3>1, <4>1
    <3>2. CASE d # Disk(c)
      BY <1>5, <2>0, <3>2 DEF OwnerHasIt
    <3> QED BY <3>1, <3>2
  <2>6. SignedOutStaysOut'
    <3>1. disk[Disk(c)].pair # 0 BY <1>2, <2>0 DEF RenewsWhatItKeeps
    <3>2. disk[Disk(c)].in /\ \E e \in Clients : Disk(e) = Disk(c) /\ shown[e]
      BY <1>0, <1>7, <3>1 DEF SignedOutStaysOut
    <3>3. Renewed(c).in BY <3>2 DEF Renewed, Disk
    <3> QED BY <1>1, <1>5, <1>7, <3>2, <3>3 DEF SignedOutStaysOut
  <2> QED BY <2>2, <2>3, <2>4, <2>5, <2>6 DEF Orderly
<1>8. crossed => SignedOutStaysOut' BY <1>1 DEF SignedOutStaysOut
<1> QED BY <1>1, <1>4, <1>6, <1>7, <1>8

\* What a client gives up nobody has: the owner's pair is an orphan, or was not given up.
LEMMA GivenUp ==
    ASSUME OwnerHasIt, OneInFlight, NEW c \in Clients, NEW pairs, Forget(pairs),
           \A e \in Clients \ {c} : refresh'[e] = refresh[e] /\ login'[e] = login[e],
           current' = current, owner' = owner,
           \A d \in Disks : disk[d].pair # disk'[d].pair => disk[d].pair \in pairs,
           refresh[c].state = "granted" => refresh'[c] = refresh[c] \/ refresh[c].new \in pairs,
           login'[c] = login[c] \/ login[c] \in pairs
    PROVE  OwnerHasIt'
<1> SUFFICES ASSUME NEW d \in Disks, current # 0, owner = d, ~orphan'
             PROVE  \/ disk'[d].pair = current
                    \/ \E e \in Clients : /\ Disk(e) = d
                                          /\ \/ refresh'[e].state = "granted" /\ refresh'[e].new = current
                                             \/ login'[e] = current
  BY DEF OwnerHasIt
<1>1. ~orphan /\ current \notin pairs BY DEF Forget
<1>2. CASE disk[d].pair = current BY <1>1, <1>2
<1>3. CASE disk[d].pair # current
  <2>1. PICK e \in Clients : /\ Disk(e) = d
                             /\ \/ refresh[e].state = "granted" /\ refresh[e].new = current
                                \/ login[e] = current
    BY <1>1, <1>3 DEF OwnerHasIt
  <2>2. CASE e = c BY <1>1, <2>1, <2>2
  <2>3. CASE e # c BY <2>1, <2>3
  <2> QED BY <2>2, <2>3
<1> QED BY <1>2, <1>3

\* A refused renewal signs the device out.
LEMMA RefreshFailedKeeps == ASSUME SessionsInv, NEW c \in Clients, RefreshFailed(c) PROVE SessionsInv'
<1> USE DEF SessionsInv
<1>0. Disk(c) \in Disks BY DiskType
<1>1. /\ disk' = [disk EXCEPT ![Disk(c)] = SignedOut]
      /\ Forget({disk[Disk(c)].pair})
      /\ shown' = [shown EXCEPT ![c] = FALSE]
      /\ refresh' = [refresh EXCEPT ![c] = Idle]
      /\ UNCHANGED <<current, issued, login, owner, crossed>>
  BY DEF RefreshFailed, SignOutDisk
<1>2. refresh[c].state = "denied" /\ InFlight(c) BY DEF RefreshFailed, InFlight, Idle
<1>3. orphan' \in BOOLEAN /\ (orphan => orphan') BY <1>1 DEF Forget, SessionTypes
<1>4. SessionTypes' BY <1>0, <1>1, <1>3 DEF SessionTypes, Idle, RenewalStates, SignedOut
<1>5. /\ \A e \in Clients \ {c} : refresh'[e] = refresh[e] /\ shown'[e] = shown[e]
      /\ refresh'[c] = Idle
      /\ \A d \in Disks \ {Disk(c)} : disk'[d] = disk[d]
      /\ disk'[Disk(c)].pair = 0
  BY <1>0, <1>1 DEF SessionTypes, SignedOut
<1>6. NoFalseAlarm' BY <1>1, <1>3, <1>5 DEF NoFalseAlarm, Idle
<1>7. SignedOutStaysOut' BY <1>0, <1>1, <1>5 DEF SignedOutStaysOut
<1>8. ASSUME ~crossed PROVE Orderly'
  <2>0. OneInFlight /\ RenewsWhatItKeeps /\ GivenTheNewest /\ OwnerHasIt BY <1>8 DEF Orderly
  <2>1. \A e \in Clients \ {c} : Disk(e) = Disk(c) => refresh[e] = Idle /\ login[e] = 0
    BY <1>2, <2>0, AloneOnDevice
  <2>2. OneInFlight' BY <1>1, <1>5, <2>0, NoNewFlight
  <2>3. RenewsWhatItKeeps' BY <1>5, <2>0, <2>1, DiskType DEF RenewsWhatItKeeps, Idle
  <2>4. GivenTheNewest' BY <1>1, <1>5, <2>0 DEF GivenTheNewest, Idle
  <2>5. OwnerHasIt' BY <1>0, <1>1, <1>2, <1>5, <2>0, GivenUp
  <2> QED BY <2>2, <2>3, <2>4, <2>5 DEF Orderly
<1> QED BY <1>1, <1>4, <1>6, <1>7, <1>8

\* A lost answer: the pair it carried is an orphan.
LEMMA LoseRenewalKeeps == ASSUME SessionsInv, NEW c \in Clients, LoseRenewal(c) PROVE SessionsInv'
<1> USE DEF SessionsInv
<1>1. /\ refresh' = [refresh EXCEPT ![c].state = "denied"]
      /\ Forget({refresh[c].new})
      /\ UNCHANGED <<current, issued, disk, shown, login, owner, crossed>>
  BY DEF LoseRenewal
<1>2. refresh[c].state \in {"posted", "granted"} BY DEF LoseRenewal
<1>3. orphan' \in BOOLEAN /\ (orphan => orphan') BY <1>1 DEF Forget, SessionTypes
<1>4. SessionTypes' BY <1>1, <1>3 DEF SessionTypes, RenewalStates
<1>5. /\ \A e \in Clients \ {c} : refresh'[e] = refresh[e]
      /\ refresh'[c].state = "denied"
  BY <1>1 DEF SessionTypes
<1>6. NoFalseAlarm' BY <1>1, <1>3, <1>5 DEF NoFalseAlarm
<1>7. SignedOutStaysOut' BY <1>1 DEF SignedOutStaysOut
<1>8. ASSUME ~crossed PROVE Orderly'
  <2>0. OneInFlight /\ RenewsWhatItKeeps /\ GivenTheNewest /\ OwnerHasIt BY <1>8 DEF Orderly
  <2>1. OneInFlight' BY <1>1, <1>2, <1>5, <2>0, NoNewFlight DEF Idle
  <2>2. RenewsWhatItKeeps' BY <1>1, <1>5, <2>0 DEF RenewsWhatItKeeps
  <2>3. GivenTheNewest' BY <1>1, <1>5, <2>0 DEF GivenTheNewest
  <2>4. OwnerHasIt' BY <1>1, <1>5, <2>0, GivenUp
  <2> QED BY <2>1, <2>2, <2>3, <2>4 DEF Orderly
<1> QED BY <1>1, <1>4, <1>6, <1>7, <1>8

-------------------------------------------------------------------------------
(* Signing in and out. *)

\* The account's owner is the device that signs in.
LEMMA LogInKeeps == ASSUME SessionsInv, NEW c \in Clients, LogIn(c) PROVE SessionsInv'
<1> USE DEF SessionsInv
<1>1. /\ current' = issued + 1 /\ issued' = issued + 1 /\ owner' = Disk(c) /\ orphan' = FALSE
      /\ login' = [login EXCEPT ![c] = issued + 1]
      /\ crossed' = (crossed \/ Busy(Disk(c)))
      /\ UNCHANGED <<disk, shown, refresh>>
  BY DEF LogIn, Issue
<1>2. issued + 1 \in Nat /\ issued + 1 # 0 BY DEF SessionTypes
<1>3. SessionTypes' BY <1>1, <1>2 DEF SessionTypes
<1>4. /\ \A e \in Clients \ {c} : login'[e] = login[e]
      /\ login'[c] = current' /\ current' # 0
  BY <1>1, <1>2 DEF SessionTypes
<1>5. SignedOutStaysOut' BY <1>1 DEF SignedOutStaysOut
<1>6. ASSUME ~crossed' PROVE Orderly' /\ NoFalseAlarm'
  <2>0. ~crossed /\ ~Busy(Disk(c)) BY <1>1, <1>6
  <2>1. OneInFlight /\ RenewsWhatItKeeps BY <2>0 DEF Orderly
  <2>2. \A e \in Clients : Disk(e) = Disk(c) => ~InFlight(e) BY <2>0 DEF Busy, InFlight
  <2>3. \A e \in Clients : Disk(e) = Disk(c) => refresh[e] = Idle /\ login[e] = 0
    BY <2>2 DEF InFlight
  <2>4. OneInFlight' BY <1>1, <1>4, <2>1, <2>2, NewFlight
  <2>5. RenewsWhatItKeeps' BY <1>1, <2>1 DEF RenewsWhatItKeeps
  <2>6. GivenTheNewest' BY <1>1, <1>4, <2>3 DEF GivenTheNewest, Idle
  <2>7. OwnerHasIt' BY <1>1, <1>4 DEF OwnerHasIt
  <2>8. NoFalseAlarm' BY <1>1, <2>3 DEF NoFalseAlarm, Idle
  <2> QED BY <2>4, <2>5, <2>6, <2>7, <2>8 DEF Orderly
<1>7. crossed' => NoFalseAlarm' BY DEF NoFalseAlarm
<1> QED BY <1>3, <1>5, <1>6, <1>7

\* The device keeps the pair it was given at the sign-in.
LEMMA SignInKeeps == ASSUME SessionsInv, NEW c \in Clients, SignIn(c) PROVE SessionsInv'
<1> USE DEF SessionsInv
<1>0. Disk(c) \in Disks BY DiskType
<1>1. /\ disk' = [disk EXCEPT ![Disk(c)] = [pair |-> login[c], in |-> TRUE]]
      /\ shown' = [shown EXCEPT ![c] = TRUE]
      /\ login' = [login EXCEPT ![c] = 0]
      /\ Forget({disk[Disk(c)].pair})
      /\ UNCHANGED <<current, issued, refresh, owner, crossed>>
  BY DEF SignIn
<1>2. login[c] # 0 /\ InFlight(c) BY DEF SignIn, InFlight
<1>3. orphan' \in BOOLEAN /\ (orphan => orphan') BY <1>1 DEF Forget, SessionTypes
<1>4. SessionTypes' BY <1>0, <1>1, <1>3 DEF SessionTypes
<1>5. /\ \A e \in Clients \ {c} : login'[e] = login[e] /\ shown'[e] = shown[e]
      /\ login'[c] = 0 /\ shown'[c]
      /\ \A d \in Disks \ {Disk(c)} : disk'[d] = disk[d]
      /\ disk'[Disk(c)] = [pair |-> login[c], in |-> TRUE]
  BY <1>0, <1>1 DEF SessionTypes
<1>6. NoFalseAlarm' BY <1>1, <1>3 DEF NoFalseAlarm
<1>7. SignedOutStaysOut'
  <2> SUFFICES ASSUME ~crossed, NEW d \in Disks, disk'[d].pair # 0
               PROVE  disk'[d].in /\ \E e \in Clients : Disk(e) = d /\ shown'[e]
    BY <1>1 DEF SignedOutStaysOut
  <2>1. CASE d = Disk(c) BY <1>5, <2>1
  <2>2. CASE d # Disk(c)
    <3>1. disk[d].in /\ \E e \in Clients : Disk(e) = d /\ shown[e]
      BY <1>5, <2>2 DEF SignedOutStaysOut
    <3> QED BY <1>5, <2>2, <3>1
  <2> QED BY <2>1, <2>2
<1>8. ASSUME ~crossed PROVE Orderly'
  <2>0. OneInFlight /\ RenewsWhatItKeeps /\ GivenTheNewest /\ OwnerHasIt BY <1>8 DEF Orderly
  <2>1. \A e \in Clients : Disk(e) = Disk(c) => refresh[e] = Idle
    BY <1>2, <2>0, AloneOnDevice DEF OneInFlight
  <2>2. OneInFlight' BY <1>1, <1>5, <2>0, NoNewFlight
  <2>3. RenewsWhatItKeeps' BY <1>1, <1>5, <2>0, <2>1, DiskType DEF RenewsWhatItKeeps, Idle
  <2>4. GivenTheNewest' BY <1>1, <1>5, <2>0 DEF GivenTheNewest
  <2>5. OwnerHasIt'
    <3> SUFFICES ASSUME NEW d \in Disks, current # 0, owner = d, ~orphan
                 PROVE  \/ disk'[d].pair = current
                        \/ \E e \in Clients : /\ Disk(e) = d
                                              /\ \/ refresh[e].state = "granted" /\ refresh[e].new = current
                                                 \/ login'[e] = current
      BY <1>1, <1>3 DEF OwnerHasIt
    <3>1. CASE d = Disk(c)
      <4>1. login[c] = current BY <1>2, <2>0, <3>1 DEF GivenTheNewest
      <4> QED BY <1>5, <3>1, <4>1
    <3>2. CASE d # Disk(c) BY <1>5, <2>0, <3>2 DEF OwnerHasIt
    <3> QED BY <3>1, <3>2
  <2> QED BY <2>2, <2>3, <2>4, <2>5 DEF Orderly
<1> QED BY <1>1, <1>4, <1>6, <1>7, <1>8

\* The pair of a sign-in whose answer nobody keeps is an orphan.
LEMMA DiscardLoginKeeps == ASSUME SessionsInv, NEW c \in Clients, DiscardLogin(c) PROVE SessionsInv'
<1> USE DEF SessionsInv
<1>1. /\ login' = [login EXCEPT ![c] = 0]
      /\ Forget({login[c]})
      /\ UNCHANGED <<current, issued, disk, shown, refresh, owner, crossed>>
  BY DEF DiscardLogin
<1>3. orphan' \in BOOLEAN /\ (orphan => orphan') BY <1>1 DEF Forget, SessionTypes
<1>4. SessionTypes' BY <1>1, <1>3 DEF SessionTypes
<1>5. /\ \A e \in Clients \ {c} : login'[e] = login[e]
      /\ login'[c] = 0
  BY <1>1 DEF SessionTypes
<1>6. NoFalseAlarm' BY <1>1, <1>3 DEF NoFalseAlarm
<1>7. SignedOutStaysOut' BY <1>1 DEF SignedOutStaysOut
<1>8. ASSUME ~crossed PROVE Orderly'
  <2>0. OneInFlight /\ RenewsWhatItKeeps /\ GivenTheNewest /\ OwnerHasIt BY <1>8 DEF Orderly
  <2>1. OneInFlight' BY <1>1, <1>5, <2>0, NoNewFlight
  <2>2. RenewsWhatItKeeps' BY <1>1, <2>0 DEF RenewsWhatItKeeps
  <2>3. GivenTheNewest' BY <1>1, <1>5, <2>0 DEF GivenTheNewest
  <2>4. OwnerHasIt' BY <1>1, <1>5, <2>0, GivenUp
  <2> QED BY <2>1, <2>2, <2>3, <2>4 DEF Orderly
<1> QED BY <1>1, <1>4, <1>6, <1>7, <1>8

\* A sign-out leaves nothing on the device; the pair it had is an orphan.
LEMMA LogoutKeeps == ASSUME SessionsInv, NEW c \in Clients, Logout(c) PROVE SessionsInv'
<1> USE DEF SessionsInv
<1>0. Disk(c) \in Disks BY DiskType
<1>1. /\ disk' = [disk EXCEPT ![Disk(c)] = SignedOut]
      /\ Forget({disk[Disk(c)].pair})
      /\ shown' = [shown EXCEPT ![c] = FALSE]
      /\ crossed' = (crossed \/ Busy(Disk(c)))
      /\ UNCHANGED <<current, issued, refresh, login, owner>>
  BY DEF Logout, SignOutDisk
<1>2. crossed' \in BOOLEAN /\ (crossed => crossed') BY <1>1 DEF SessionTypes, Busy
<1>3. orphan' \in BOOLEAN /\ (orphan => orphan') BY <1>1 DEF Forget, SessionTypes
<1>4. SessionTypes' BY <1>0, <1>1, <1>2, <1>3 DEF SessionTypes, SignedOut
<1>5. /\ \A e \in Clients \ {c} : shown'[e] = shown[e]
      /\ \A d \in Disks \ {Disk(c)} : disk'[d] = disk[d]
      /\ disk'[Disk(c)].pair = 0
  BY <1>0, <1>1 DEF SessionTypes, SignedOut
<1>6. NoFalseAlarm' BY <1>1, <1>2, <1>3 DEF NoFalseAlarm
<1>7. SignedOutStaysOut' BY <1>2, <1>5 DEF SignedOutStaysOut
<1>8. ASSUME ~crossed' PROVE Orderly'
  <2>0. ~crossed /\ ~Busy(Disk(c)) BY <1>1, <1>8
  <2>1. OneInFlight /\ RenewsWhatItKeeps /\ GivenTheNewest /\ OwnerHasIt BY <2>0 DEF Orderly
  <2>2. \A e \in Clients : Disk(e) = Disk(c) => refresh[e] = Idle BY <2>0 DEF Busy
  <2>3. OneInFlight' BY <1>1, <2>1, NoNewFlight
  <2>4. RenewsWhatItKeeps' BY <1>1, <1>5, <2>1, <2>2, DiskType DEF RenewsWhatItKeeps, Idle
  <2>5. GivenTheNewest' BY <1>1, <2>1 DEF GivenTheNewest
  <2>6. OwnerHasIt' BY <1>0, <1>1, <1>5, <2>1, GivenUp
  <2> QED BY <2>3, <2>4, <2>5, <2>6 DEF Orderly
<1> QED BY <1>4, <1>6, <1>7, <1>8

\* A client that is opened again shows what its device keeps; what was on its way to it is lost.
LEMMA RestartKeeps == ASSUME SessionsInv, NEW c \in Clients, Restart(c) PROVE SessionsInv'
<1> USE DEF SessionsInv
<1>0. Disk(c) \in Disks BY DiskType
<1>1. /\ shown' = [shown EXCEPT ![c] = disk[Disk(c)].in]
      /\ refresh' = [refresh EXCEPT ![c] = Idle]
      /\ login' = [login EXCEPT ![c] = 0]
      /\ Forget({refresh[c].new, login[c]})
      /\ UNCHANGED <<current, issued, disk, owner, crossed>>
  BY DEF Restart
<1>3. orphan' \in BOOLEAN /\ (orphan => orphan') BY <1>1 DEF Forget, SessionTypes
<1>4. SessionTypes' BY <1>0, <1>1, <1>3 DEF SessionTypes, Idle, RenewalStates
<1>5. /\ \A e \in Clients \ {c} : /\ refresh'[e] = refresh[e] /\ login'[e] = login[e]
                                  /\ shown'[e] = shown[e]
      /\ refresh'[c] = Idle /\ login'[c] = 0
      /\ shown'[c] = disk[Disk(c)].in
  BY <1>1 DEF SessionTypes
<1>6. NoFalseAlarm' BY <1>1, <1>3, <1>5 DEF NoFalseAlarm, Idle
<1>7. SignedOutStaysOut'
  <2> SUFFICES ASSUME ~crossed, NEW d \in Disks, disk[d].pair # 0
               PROVE  disk[d].in /\ \E e \in Clients : Disk(e) = d /\ shown'[e]
    BY <1>1 DEF SignedOutStaysOut
  <2>1. disk[d].in /\ \E e \in Clients : Disk(e) = d /\ shown[e] BY DEF SignedOutStaysOut
  <2> QED BY <1>5, <2>1
<1>8. ASSUME ~crossed PROVE Orderly'
  <2>0. OneInFlight /\ RenewsWhatItKeeps /\ GivenTheNewest /\ OwnerHasIt BY <1>8 DEF Orderly
  <2>1. OneInFlight' BY <1>5, <2>0, NoNewFlight
  <2>2. RenewsWhatItKeeps' BY <1>1, <1>5, <2>0 DEF RenewsWhatItKeeps, Idle
  <2>3. GivenTheNewest' BY <1>1, <1>5, <2>0 DEF GivenTheNewest, Idle
  <2>4. OwnerHasIt' BY <1>1, <1>5, <2>0, GivenUp
  <2> QED BY <2>1, <2>2, <2>3, <2>4 DEF Orderly
<1> QED BY <1>1, <1>4, <1>6, <1>7, <1>8

-------------------------------------------------------------------------------
LEMMA NextSessions == ASSUME SessionsInv, [SessionsNext]_sessionVars PROVE SessionsInv'
<1>1. ASSUME UNCHANGED sessionVars PROVE SessionsInv' BY <1>1, TokensKept DEF sessionVars, tokens
<1>2. ASSUME NEW r \in Requests, Send(r) \/ HandleRequest(r) PROVE SessionsInv'
  <2>1. CASE Send(r) BY <2>1, TokensKept DEF Send, tokens, history
  <2>2. CASE Serve(r) BY <2>2, TokensKept DEF Serve, tokens, history
  <2>3. CASE GiveUp(r) BY <2>3, TokensKept DEF GiveUp, tokens, history
  <2>4. CASE Join(r) BY <2>4, TokensKept DEF Join, tokens, history
  <2>5. CASE StartRenewal(r) BY <2>5, StartRenewalKeeps
  <2>6. CASE NothingToRenew(r) BY <2>6, NothingToRenewKeeps
  <2> QED BY <1>2, <2>1, <2>2, <2>3, <2>4, <2>5, <2>6 DEF HandleRequest
<1>3. ASSUME NEW c \in Clients, ServerStep(c) PROVE SessionsInv'
  BY <1>3, ReadUserKeeps, RotateKeeps, CloseAccountKeeps DEF ServerStep
<1>4. ASSUME NEW c \in Clients, AnswerRenewal(c) \/ LoseRenewal(c) PROVE SessionsInv'
  BY <1>4, RefreshedKeeps, RefreshFailedKeeps, LoseRenewalKeeps DEF AnswerRenewal
<1>5. ASSUME NEW c \in Clients,
             LogIn(c) \/ SignIn(c) \/ DiscardLogin(c) \/ Logout(c) \/ Restart(c)
      PROVE  SessionsInv'
  BY <1>5, LogInKeeps, SignInKeeps, DiscardLoginKeeps, LogoutKeeps, RestartKeeps
<1>6. ASSUME TokensExpire PROVE SessionsInv' BY <1>6, TokensKept DEF TokensExpire, tokens, history
<1> QED BY <1>1, <1>2, <1>3, <1>4, <1>5, <1>6 DEF SessionsNext

\* The inductive invariant, on any number of devices and pages.
THEOREM SessionsHold == SessionsSpec => []SessionsInv
<1>1. SessionsInit => SessionsInv BY InitSessions
<1>2. SessionsInv /\ [SessionsNext]_sessionVars => SessionsInv' BY NextSessions
<1> QED BY <1>1, <1>2, PTL DEF SessionsSpec

\* RefreshTokenAsync closes an account for its owner's own renewals only where a sign-in elsewhere,
\* a lost answer or two things at once on a device came between.
THEOREM DefenceSparesOwner == SessionsSpec => []NoFalseAlarm
<1>1. SessionsInv => NoFalseAlarm BY DEF SessionsInv
<1> QED BY <1>1, SessionsHold, PTL

\* No renewal brings a session back that was signed out of, unless the two crossed (client.ts).
THEOREM SignOutLasts == SessionsSpec => []SignedOutStaysOut
<1>1. SessionsInv => SignedOutStaysOut BY DEF SessionsInv
<1> QED BY <1>1, SessionsHold, PTL


-------------------------------------------------------------------------------
(* Registration, papers and reviews: the inductive invariant. *)

Statuses == {"Pending", "PendingReview", "ManualApprovalRequired", "Active", "Rejected"}
DocsOrNone == Docs \cup {None}

Rows == [status : Statuses, active : BOOLEAN, papers : SUBSET Docs, expired : SUBSET Docs,
         details : DocsOrNone]
Views == [status : Statuses, active : BOOLEAN, details : DocsOrNone]

\* On the web the field is full at eight digits, so nine are never there.
FormTypes ==
    /\ client \in {"web", "phone"} /\ role \in {"Customer", "Driver"}
    /\ dialled \in 0..10 /\ (client = "web" => dialled # 9)
    /\ flaw \in Flaws

RowTypes ==
    /\ standing \in Rows
    /\ uploads \in [Docs -> Rows \cup {None}]
    /\ views \in [Admins -> Views \cup {None}]
    /\ others \in Nat

\* Nobody was told anything about an account that is not verified.
ToldOfVerified == said # None => account = "verified"

\* What the clean-up selected had no paper; a deleted account stays deleted.
SelectedNobody ==
    /\ expiring # None => /\ expiring.papers = {}
                          /\ expiring.status \in {"PendingReview", "Rejected"}
                          /\ account = "verified" /\ others > 0
    /\ removed # None => account = "none" /\ others > 0

\* An account that may work under such a status was activated by hand.
HandActivates ==
    standing.active /\ standing.status \in {"PendingReview", "Rejected"} =>
        lastWord = "activated" \/ raced

\* A driver who is not active was suspended, or the login lets him in and there is a paper to
\* send or to decide on.
HasNextStep ==
    role = "Driver" /\ ~raced /\ ~standing.active /\ lastWord # "suspended" =>
        /\ standing.status # "Active"
        /\ \/ standing.papers # Docs
           \/ InQueue(standing.status) /\ standing.details # None

\* A customer sends no papers, and may work unless he was suspended.
CustomerMayWork ==
    role = "Customer" =>
        /\ \A d \in Docs : uploads[d] = None
        /\ account = "verified" /\ lastWord # "suspended" => standing.active

OnboardingInv ==
    /\ FormTypes /\ RowTypes
    /\ ActiveHasPapers /\ ToldTheTruth /\ ToldOfVerified
    /\ SelectedNobody /\ HandActivates /\ HasNextStep /\ CustomerMayWork /\ OnlyUnapprovedGo

-------------------------------------------------------------------------------
(* The form. *)

LEMMA WidthIs ==
    /\ \A n \in 0..3 : Width(n) = n
    /\ \A n \in 4..6 : Width(n) = n + 1
    /\ \A n \in 7..8 : Width(n) = n + 2
    /\ \A n \in 9..10 : Width(n) = n + 3
<1>1. /\ Cardinality({}) = 0 /\ Cardinality({3}) = 1
      /\ Cardinality({3, 6}) = 2 /\ Cardinality({3, 6, 8}) = 3
    <2>1. Cardinality({}) = 0 /\ IsFiniteSet({})
        BY FS_EmptySet
    <2>2. Cardinality({} \cup {3}) = 1 /\ IsFiniteSet({} \cup {3})
        BY <2>1, FS_AddElement
    <2>3. Cardinality({3} \cup {6}) = 2 /\ IsFiniteSet({3} \cup {6})
        <3>1. {} \cup {3} = {3}
            OBVIOUS
        <3> QED
            BY <2>2, <3>1, FS_AddElement
    <2>4. Cardinality({3, 6} \cup {8}) = 3
        <3>1. {3} \cup {6} = {3, 6}
            OBVIOUS
        <3> QED
            BY <2>3, <3>1, FS_AddElement
    <2>5. {} \cup {3} = {3} /\ {3} \cup {6} = {3, 6} /\ {3, 6} \cup {8} = {3, 6, 8}
        OBVIOUS
    <2> QED
        BY <2>1, <2>2, <2>3, <2>4, <2>5
<1>2. ASSUME NEW n \in 0..3 PROVE Width(n) = n
    <2>1. {k \in {3, 6, 8} : n > k} = {}
        OBVIOUS
    <2>2. Cardinality({k \in {3, 6, 8} : n > k}) = 0
        BY <1>1, <2>1
    <2> QED
        BY <2>2 DEF Width
<1>3. ASSUME NEW n \in 4..6 PROVE Width(n) = n + 1
    <2>1. {k \in {3, 6, 8} : n > k} = {3}
        OBVIOUS
    <2>2. Cardinality({k \in {3, 6, 8} : n > k}) = 1
        BY <1>1, <2>1
    <2> QED
        BY <2>2 DEF Width
<1>4. ASSUME NEW n \in 7..8 PROVE Width(n) = n + 2
    <2>1. {k \in {3, 6, 8} : n > k} = {3, 6}
        OBVIOUS
    <2>2. Cardinality({k \in {3, 6, 8} : n > k}) = 2
        BY <1>1, <2>1
    <2> QED
        BY <2>2 DEF Width
<1>5. ASSUME NEW n \in 9..10 PROVE Width(n) = n + 3
    <2>1. {k \in {3, 6, 8} : n > k} = {3, 6, 8}
        OBVIOUS
    <2>2. Cardinality({k \in {3, 6, 8} : n > k}) = 3
        BY <1>1, <2>1
    <2> QED
        BY <2>2 DEF Width
<1> QED
    BY <1>2, <1>3, <1>4, <1>5

\* Every digit of a number can be typed, except the ninth on the web.
LEMMA Typeable ==
    ASSUME FormTypes
    PROVE  /\ client = "web" /\ dialled = 8 => ~CanType(dialled)
           /\ dialled < 10 /\ ~(client = "web" /\ dialled = 8) => CanType(dialled)
<1>1. dialled \in 0..3 \/ dialled \in 4..6 \/ dialled \in 7..8 \/ dialled \in 9..10
    BY DEF FormTypes
<1> QED
    BY <1>1, WidthIs DEF FormTypes, CanType, FieldWidth

LEMMA FormStep ==
    ASSUME FormTypes, RegistrationNext \/ Login \/ Leave \/ UNCHANGED <<person, pages>>
    PROVE  FormTypes'
<1> USE DEF FormTypes, person, pages
<1>1. CASE UNCHANGED <<person, pages>>
    BY <1>1
<1>2. CASE TypeDigit
    BY <1>2, Typeable DEF TypeDigit, CanType
<1>3. CASE PasteNumber
    BY <1>3 DEF PasteNumber
<1>4. CASE FillIn
    BY <1>4 DEF FillIn, Possible
<1>5. ASSUME NEW p, Opened(p), UNCHANGED person PROVE FormTypes'
    BY <1>5 DEF Opened, Flaws
<1>6. CASE Register \/ Verified \/ Resend \/ CodeExpires
    BY <1>1, <1>5, <1>6 DEF Register, Verified, Resend, CodeExpires
<1>7. CASE Forgot \/ ResetCode \/ NewPassword \/ ResetExpires
    BY <1>1, <1>5, <1>7 DEF Forgot, ResetCode, NewPassword, ResetExpires
<1>8. CASE SentToCode \/ GoTo \/ Login \/ Leave
    BY <1>5, <1>8 DEF SentToCode, GoTo, Login, Leave
<1> QED
    BY <1>1, <1>2, <1>3, <1>4, <1>6, <1>7, <1>8 DEF RegistrationNext

\* Whoever writes his number can go on, and what the form passes the server takes.
LEMMA FormGoesOn ==
    ASSUME FormTypes, ~DeadEnd
    PROVE  /\ AsksForNumber /\ dialled < 10 => CanType(dialled)
           /\ FormPasses => flaw \notin ServerChecks
<1>1. AsksForNumber /\ dialled < 10 => CanType(dialled)
    BY Typeable DEF DeadEnd
<1>2. FormPasses => flaw \notin ServerChecks
    BY DEF DeadEnd, FormTypes, FormPasses, FormChecks, WebChecks, PhoneChecks, PhoneStep1, PhoneStep2,
           ServerChecks, Flaws
<1> QED
    BY <1>1, <1>2

-------------------------------------------------------------------------------
(* The rows. *)

LEMMA JudgedIsRow ==
    ASSUME NEW row \in Rows, NEW d \in Docs, NEW verdict \in Verdicts
    PROVE  Judged(row, d, verdict) \in Rows
<1>1. CASE verdict = "bad"
    BY <1>1 DEF Judged, Rows, Statuses
<1>2. CASE verdict = "failed"
    BY <1>2 DEF Judged, Rows, Statuses, DocsOrNone
<1>3. CASE verdict = "grey"
    BY <1>3 DEF Judged, Rows, Statuses, DocsOrNone
<1>4. CASE verdict = "good"
    BY <1>4 DEF Judged, Rows, Statuses, DocsOrNone
<1> QED
    BY <1>1, <1>2, <1>3, <1>4 DEF Verdicts

LEMMA SavedIsRow ==
    ASSUME RowTypes, NEW read \in Rows, NEW d \in Docs, NEW verdict \in Verdicts,
           NEW new \in Rows
    PROVE  Saved(read, new, d, verdict) \in Rows
BY DEF Saved, RowTypes, Rows, DocsOrNone

\* An upload that read the row as it still is leaves it as it judged it.
LEMMA NobodyBetween ==
    ASSUME RowTypes, NEW d \in Docs, NEW verdict \in Verdicts
    PROVE  LET saved == Saved(standing, Judged(standing, d, verdict), d, verdict)
               new == Judged(standing, d, verdict)
           IN  /\ saved.status = new.status /\ saved.active = new.active
               /\ saved.papers = new.papers
               /\ new.status \in {"PendingReview", "ManualApprovalRequired"} => saved.details = d
<1> DEFINE new == Judged(standing, d, verdict)
<1> DEFINE saved == Saved(standing, new, d, verdict)
<1>1. new \in Rows /\ standing \in Rows
    BY JudgedIsRow DEF RowTypes
<1>2. saved.status = new.status /\ saved.active = new.active
    BY <1>1 DEF Saved
<1>3. saved.papers = new.papers
    <2>1. saved.papers = (standing.papers \ (standing.papers \ new.papers))
                            \cup (new.papers \ standing.papers)
        BY DEF Saved
    <2> QED
        BY <2>1
<1>4. new.status \in {"PendingReview", "ManualApprovalRequired"} => saved.details = d
    BY DEF Saved
<1> HIDE DEF new, saved
<1> QED
    BY <1>2, <1>3, <1>4 DEF new, saved

\* What a judgement leaves behind.
LEMMA JudgedWell ==
    ASSUME RowTypes, NEW d \in Docs, NEW verdict \in Verdicts
    PROVE  LET new == Judged(standing, d, verdict)
           IN  /\ new.active <=> new.status = "Active"
               /\ new.active => new.papers = Docs
               /\ ~new.active => \/ new.papers # Docs
                                 \/ new.status \in {"PendingReview", "ManualApprovalRequired"}
<1>0. standing \in Rows
    BY DEF RowTypes
<1>1. CASE verdict = "bad"
    BY <1>0, <1>1 DEF Judged, Rows
<1>2. CASE verdict = "failed"
    BY <1>0, <1>2 DEF Judged, Rows
<1>3. CASE verdict = "grey"
    BY <1>0, <1>3 DEF Judged, Rows
<1>4. CASE verdict = "good"
    BY <1>0, <1>4 DEF Judged, Rows, Complete
<1> QED
    BY <1>1, <1>2, <1>3, <1>4 DEF Verdicts

\* What a decision leaves behind.
LEMMA DecidedWell ==
    ASSUME RowTypes, NEW d \in Docs, NEW row \in {Approved(d), Rejected(d)}
    PROVE  /\ row \in Rows
           /\ row.active <=> row.status = "Active"
           /\ row.active => row.papers = Docs
           /\ ~row.active => row.papers # Docs
<1>1. CASE row = Approved(d)
    BY <1>1 DEF Approved, RowTypes, Rows, Statuses
<1>2. CASE row = Rejected(d)
    BY <1>2 DEF Rejected, RowTypes, Rows, Statuses
<1> QED
    BY <1>1, <1>2

LEMMA ShownIsView ==
    ASSUME standing \in Rows
    PROVE  Shown \in Views
BY DEF Shown, Rows, Views

-------------------------------------------------------------------------------
(* The invariant: one lemma for each action. *)

LEMMA OnboardingInit ==
    ASSUME Init, OnboardingAssumption
    PROVE  OnboardingInv
<1> USE DEF Init, RegistrationInit
<1>1. FormTypes
    BY DEF FormTypes, Flaws
<1>2. RowTypes
    BY DEF RowTypes, Rows, Fresh, Statuses, DocsOrNone
<1>3. ActiveHasPapers /\ HandActivates /\ HasNextStep /\ CustomerMayWork
    BY DEF ActiveHasPapers, HandActivates, HasNextStep, CustomerMayWork, Fresh, OnboardingAssumption,
           RegistrationInit
<1>4. ToldTheTruth /\ ToldOfVerified /\ SelectedNobody /\ OnlyUnapprovedGo
    BY DEF ToldTheTruth, ToldOfVerified, SelectedNobody, OnlyUnapprovedGo
<1> QED
    BY <1>1, <1>2, <1>3, <1>4 DEF OnboardingInv

LEMMA VerifyKeeps ==
    ASSUME OnboardingInv, Verify
    PROVE  OnboardingInv'
<1> USE DEF OnboardingInv, Verify, driver, admin, cleanup
<1>1. FormTypes'
    BY FormStep DEF RegistrationNext
<1>2. said = None /\ account = "unverified" /\ account' = "verified" /\ role' = role
    BY DEF Verified, ToldOfVerified, person
<1>3. RowTypes'
    BY DEF RowTypes, Rows, Statuses
<1>4. ActiveHasPapers' /\ HasNextStep'
    BY <1>2 DEF ActiveHasPapers, HasNextStep, InQueue
<1>5. HandActivates' /\ CustomerMayWork'
    BY <1>2 DEF HandActivates, CustomerMayWork, RowTypes, Rows
<1>6. ToldTheTruth' /\ ToldOfVerified' /\ SelectedNobody' /\ OnlyUnapprovedGo'
    BY <1>2 DEF ToldTheTruth, ToldOfVerified, SelectedNobody, OnlyUnapprovedGo
<1> QED
    BY <1>1, <1>3, <1>4, <1>5, <1>6

\* Steps that leave the row, the administrators and the job as they are, and the account, too,
\* unless nobody has acted on it.
LEMMA RowStays ==
    ASSUME OnboardingInv, FormTypes', UNCHANGED <<standing, admin, lastWord, raced, cleanup, others, role>>,
           uploads' \in [Docs -> Rows \cup {None}], role = "Customer" => UNCHANGED uploads,
           \/ UNCHANGED account
           \/ others = 0 /\ account # "verified" /\ account' # "verified"
    PROVE  OnboardingInv'
<1> USE DEF OnboardingInv, admin, cleanup
<1>1. RowTypes'
    BY DEF RowTypes
<1>2. ActiveHasPapers' /\ HasNextStep' /\ HandActivates' /\ ToldTheTruth' /\ OnlyUnapprovedGo'
      /\ CustomerMayWork'
    BY DEF ActiveHasPapers, HasNextStep, HandActivates, ToldTheTruth, OnlyUnapprovedGo, InQueue,
           CustomerMayWork
<1>3. ToldOfVerified' /\ SelectedNobody'
    BY DEF ToldOfVerified, SelectedNobody, RowTypes
<1> QED
    BY <1>1, <1>2, <1>3

LEMMA SignUpKeeps ==
    ASSUME OnboardingInv, SignUp
    PROVE  OnboardingInv'
<1>1. FormTypes'
    BY FormStep DEF SignUp, OnboardingInv
<1>2. UNCHANGED <<role, account>> \/ (UNCHANGED role /\ account = "none" /\ account' = "unverified")
    BY DEF SignUp, RegistrationNext, TypeDigit, PasteNumber, FillIn, Register, Verified, Resend, CodeExpires,
           Forgot, ResetCode, NewPassword, ResetExpires, SentToCode, GoTo, person, signup
<1> QED
    BY <1>1, <1>2, RowStays DEF SignUp, OnboardingInv, RowTypes, onboardingVars, driver, admin, cleanup

LEMMA DriverKeeps ==
    ASSUME OnboardingInv,
           Login \/ Leave \/ Reopen \/ \E d \in Docs : StartUpload(d) \/ UploadFails(d)
    PROVE  OnboardingInv'
<1> USE DEF driver, admin, cleanup, person, signup, registrationVars
<1>1. CASE Login \/ Leave
    BY <1>1, RowStays, FormStep DEF Login, Leave, OnboardingInv, RowTypes
<1>2. FormTypes /\ UNCHANGED <<person, pages>> => FormTypes'
    BY FormStep
<1>3. CASE Reopen
    BY <1>2, <1>3, RowStays DEF Reopen, OnboardingInv, RowTypes
<1>4. ASSUME NEW d \in Docs, StartUpload(d) \/ UploadFails(d) PROVE OnboardingInv'
    BY <1>2, <1>4, RowStays DEF StartUpload, UploadFails, OnboardingInv, RowTypes, CustomerMayWork
<1> QED
    BY <1>1, <1>3, <1>4

LEMMA ExpireKeeps ==
    ASSUME OnboardingInv, NEW d \in Docs, Expire(d)
    PROVE  OnboardingInv'
<1> USE DEF OnboardingInv, Expire, driver, admin, cleanup, registrationVars
<1>1. FormTypes'
    BY FormStep
<1>2. UNCHANGED <<role, account>>
    BY DEF person, signup
<1>3. standing' \in Rows /\ standing'.status = standing.status /\ standing'.active = standing.active
      /\ standing'.papers = standing.papers /\ standing'.details = standing.details
    BY DEF RowTypes, Rows
<1>4. RowTypes'
    BY <1>3 DEF RowTypes
<1>5. ActiveHasPapers' /\ HasNextStep' /\ HandActivates' /\ ToldTheTruth' /\ OnlyUnapprovedGo'
      /\ CustomerMayWork'
    BY <1>2, <1>3 DEF ActiveHasPapers, HasNextStep, HandActivates, ToldTheTruth, OnlyUnapprovedGo, InQueue,
                      CustomerMayWork
<1>6. ToldOfVerified' /\ SelectedNobody'
    BY <1>2 DEF ToldOfVerified, SelectedNobody, RowTypes
<1> QED
    BY <1>1, <1>4, <1>5, <1>6

LEMMA FinishUploadKeeps ==
    ASSUME OnboardingInv, OnboardingAssumption, NEW d \in Docs, NEW verdict \in Verdicts, FinishUpload(d, verdict)
    PROVE  OnboardingInv'
<1> USE DEF OnboardingInv
<1>1. FormTypes'
    BY FormStep DEF FinishUpload, registrationVars
<1>2. /\ UNCHANGED <<role, account, views, others, expiring, removed>>
      /\ account = "verified" /\ said' = None /\ lastWord' = "upload"
    BY DEF FinishUpload, registrationVars, person, signup, cleanup
<1>3. uploads[d] \in Rows
    BY DEF FinishUpload, RowTypes
<1>4. RowTypes'
    <2>1. Judged(uploads[d], d, verdict) \in Rows
        BY <1>3, JudgedIsRow
    <2>2. standing' \in Rows
        BY <1>3, <2>1, SavedIsRow DEF FinishUpload
    <2> QED
        BY <1>2, <2>2 DEF RowTypes, FinishUpload
<1>5. ASSUME raced' PROVE ActiveHasPapers' /\ HasNextStep' /\ HandActivates'
    BY <1>5 DEF ActiveHasPapers, HasNextStep, HandActivates
<1>6. ASSUME ~raced' PROVE ActiveHasPapers' /\ HasNextStep' /\ HandActivates'
    <2>1. uploads[d] = standing
        BY <1>6 DEF FinishUpload
    <2> DEFINE new == Judged(standing, d, verdict)
    <2>2. /\ standing'.status = new.status /\ standing'.active = new.active
          /\ standing'.papers = new.papers
          /\ new.status \in {"PendingReview", "ManualApprovalRequired"} => standing'.details = d
        BY <2>1, NobodyBetween DEF FinishUpload
    <2>3. /\ new.active <=> new.status = "Active"
          /\ new.active => new.papers = Docs
          /\ ~new.active => \/ new.papers # Docs
                            \/ new.status \in {"PendingReview", "ManualApprovalRequired"}
        BY JudgedWell
    <2> HIDE DEF new
    <2>4. ActiveHasPapers'
        BY <2>2, <2>3 DEF ActiveHasPapers
    <2>5. HandActivates'
        BY <2>2, <2>3 DEF HandActivates
    <2>6. HasNextStep'
        BY <2>2, <2>3 DEF HasNextStep, InQueue, OnboardingAssumption
    <2> QED
        BY <2>4, <2>5, <2>6
<1>7. ToldTheTruth' /\ ToldOfVerified' /\ SelectedNobody' /\ OnlyUnapprovedGo'
    BY <1>2 DEF ToldTheTruth, ToldOfVerified, SelectedNobody, OnlyUnapprovedGo
<1>8. CustomerMayWork'
    BY <1>2 DEF CustomerMayWork, FinishUpload
<1> QED
    BY <1>1, <1>4, <1>5, <1>6, <1>7, <1>8

LEMMA LookKeeps ==
    ASSUME OnboardingInv, NEW a \in Admins, Look(a)
    PROVE  OnboardingInv'
<1> USE DEF OnboardingInv, Look, driver, cleanup, registrationVars
<1>1. FormTypes'
    BY FormStep
<1>2. UNCHANGED <<role, account>>
    BY DEF person, signup
<1>3. RowTypes'
    BY ShownIsView DEF RowTypes
<1>4. ActiveHasPapers' /\ HasNextStep' /\ HandActivates' /\ ToldTheTruth' /\ OnlyUnapprovedGo'
      /\ CustomerMayWork'
    BY <1>2 DEF ActiveHasPapers, HasNextStep, HandActivates, ToldTheTruth, OnlyUnapprovedGo, InQueue,
                CustomerMayWork
<1>5. ToldOfVerified' /\ SelectedNobody'
    BY <1>2 DEF ToldOfVerified, SelectedNobody
<1> QED
    BY <1>1, <1>3, <1>4, <1>5

LEMMA PressKeeps ==
    ASSUME OnboardingInv, OnboardingAssumption, NEW a \in Admins, Press(a)
    PROVE  OnboardingInv'
<1> USE DEF OnboardingInv, driver, cleanup, registrationVars
<1>1. FormTypes'
    BY FormStep DEF Press
<1>2. UNCHANGED <<role, account, raced, expiring, removed>> /\ account = "verified"
      /\ others' = others + 1
    BY DEF Press, person, signup
<1>3. views[a] \in Views /\ standing \in Rows
    BY DEF Press, RowTypes
<1>4. Pressed(a) \in BOOLEAN
    BY <1>3 DEF Pressed, Views, Rows
<1>5. /\ standing' \in Rows /\ standing'.active = Pressed(a)
      /\ standing'.status = standing.status /\ standing'.papers = standing.papers
      /\ standing'.details = standing.details
    BY <1>3, <1>4 DEF Press, Rows
<1>6. RowTypes'
    <2>1. Shown' \in Views
        BY <1>5 DEF Shown, Rows, Views
    <2> QED
        BY <1>5, <2>1 DEF RowTypes, Press
<1>7. ActiveHasPapers' /\ HandActivates' /\ HasNextStep' /\ CustomerMayWork'
    BY <1>2, <1>5 DEF Press, ActiveHasPapers, HandActivates, HasNextStep, CustomerMayWork
<1>8. ToldTheTruth'
    BY <1>3, <1>5 DEF ToldTheTruth, Press, Pressed, Admins, Views, Rows
<1>9. ToldOfVerified' /\ SelectedNobody' /\ OnlyUnapprovedGo'
    BY <1>2 DEF ToldOfVerified, SelectedNobody, OnlyUnapprovedGo, RowTypes
<1> QED
    BY <1>1, <1>6, <1>7, <1>8, <1>9

LEMMA DecideKeeps ==
    ASSUME OnboardingInv, OnboardingAssumption, NEW a \in Admins, Decide(a)
    PROVE  OnboardingInv'
<1> USE DEF OnboardingInv, driver, cleanup, registrationVars
<1>1. FormTypes'
    BY FormStep DEF Decide
<1>2. /\ UNCHANGED <<role, account, raced, expiring, removed>> /\ account = "verified"
      /\ others' = others + 1 /\ said' = None /\ lastWord' = "decision"
    BY DEF Decide, person, signup
<1>3. Meant(a) \in Docs
    BY DEF Decide, Meant, RowTypes, Rows, Views, DocsOrNone
<1>4. /\ standing' \in Rows
      /\ standing'.active <=> standing'.status = "Active"
      /\ standing'.active => standing'.papers = Docs
      /\ ~standing'.active => standing'.papers # Docs
    BY <1>3, DecidedWell DEF Decide
<1>5. RowTypes'
    <2>1. Shown' \in Views
        BY <1>4 DEF Shown, Rows, Views
    <2> QED
        BY <1>2, <1>4, <2>1 DEF RowTypes, Decide
<1>6. ActiveHasPapers' /\ HandActivates' /\ HasNextStep' /\ CustomerMayWork'
    BY <1>2, <1>4 DEF Decide, ActiveHasPapers, HandActivates, HasNextStep, CustomerMayWork
<1>7. ToldTheTruth' /\ ToldOfVerified' /\ SelectedNobody' /\ OnlyUnapprovedGo'
    BY <1>2 DEF ToldTheTruth, ToldOfVerified, SelectedNobody, OnlyUnapprovedGo, RowTypes
<1> QED
    BY <1>1, <1>5, <1>6, <1>7

LEMMA CleanupKeeps ==
    ASSUME OnboardingInv, OnboardingAssumption, SelectExpired \/ DeleteSelected \/ CleanupFails
    PROVE  OnboardingInv'
<1> USE DEF OnboardingInv
<1>1. CASE SelectExpired \/ CleanupFails
    <2>1. FormTypes'
        BY <1>1, FormStep DEF SelectExpired, CleanupFails, registrationVars
    <2>2. /\ UNCHANGED <<role, account, standing, uploads, views, said, lastWord, raced, removed>>
          /\ others' \in Nat /\ others' >= others
        BY <1>1 DEF SelectExpired, CleanupFails, registrationVars, person, signup, driver, admin, RowTypes
    <2>3. RowTypes'
        BY <2>2 DEF RowTypes
    <2>4. ActiveHasPapers' /\ HasNextStep' /\ HandActivates' /\ ToldTheTruth' /\ OnlyUnapprovedGo' /\ ToldOfVerified'
          /\ CustomerMayWork'
        BY <2>2 DEF CustomerMayWork, ActiveHasPapers, HasNextStep, HandActivates, ToldTheTruth, OnlyUnapprovedGo, ToldOfVerified,
                    InQueue
    <2>5. SelectedNobody'
        BY <1>1, <2>2 DEF SelectedNobody, SelectExpired, CleanupFails, NeverApproved, Standing, RowTypes
    <2> QED
        BY <2>1, <2>3, <2>4, <2>5
<1>2. CASE DeleteSelected
    <2> USE DEF driver
    <2>1. FormTypes'
        BY <1>2, FormStep DEF DeleteSelected
    <2>2. /\ UNCHANGED <<role, uploads, lastWord, raced, others>>
          /\ standing' = Fresh /\ account' = "none" /\ said' = None /\ expiring' = None
        BY <1>2 DEF DeleteSelected, person
    <2>3. RowTypes'
        BY <1>2, <2>2 DEF RowTypes, DeleteSelected, Fresh, Rows, Statuses, DocsOrNone
    <2>4. ActiveHasPapers' /\ HasNextStep' /\ HandActivates' /\ CustomerMayWork'
        BY <2>2 DEF ActiveHasPapers, HasNextStep, HandActivates, CustomerMayWork, Fresh, OnboardingAssumption
    <2>5. ToldTheTruth' /\ ToldOfVerified'
        BY <2>2 DEF ToldTheTruth, ToldOfVerified
    <2>6. SelectedNobody'
        BY <1>2, <2>2 DEF SelectedNobody, DeleteSelected
    <2>7. OnlyUnapprovedGo'
        <3>1. removed'.row = Standing
            BY <1>2 DEF DeleteSelected
        <3>2. removed'.read => expiring = Standing
            BY <1>2 DEF DeleteSelected
        <3>3. expiring = Standing => /\ standing.papers = {}
                                     /\ standing.status \in {"PendingReview", "Rejected"}
            BY <1>2 DEF DeleteSelected, SelectedNobody, Standing
        <3> QED
            BY <2>2, <3>1, <3>2, <3>3 DEF OnlyUnapprovedGo, HandActivates, Standing
    <2> QED
        BY <2>1, <2>3, <2>4, <2>5, <2>6, <2>7
<1> QED
    BY <1>1, <1>2

\* Every page's action is one administrator's look, press or decision.
LEMMA StepCases ==
    ASSUME Next
    PROVE  \/ SignUp \/ Verify
           \/ Login \/ Leave \/ Reopen \/ \E d \in Docs : StartUpload(d) \/ UploadFails(d)
           \/ \E d \in Docs : Expire(d)
           \/ \E d \in Docs, verdict \in Verdicts : FinishUpload(d, verdict)
           \/ \E a \in Admins : Look(a) \/ Press(a) \/ Decide(a)
           \/ SelectExpired \/ DeleteSelected \/ CleanupFails
BY DEF Next, AtUsers, AtDrivers, AtCustomers, AtDriver, AtCustomer, OnWeb, AtPhoneUsers, ActivatesInList,
       InUserSheet, AtReviews, InReview, AtPhoneReviews, InPhoneReview, Admins

LEMMA OnboardingStep ==
    ASSUME OnboardingInv, OnboardingAssumption, [Next]_vars
    PROVE  OnboardingInv'
<1>1. CASE UNCHANGED vars
    <2>1. UNCHANGED <<registrationVars, standing, uploads, views, said, lastWord, raced, expiring, removed, others>>
        BY <1>1 DEF vars, onboardingVars, driver, admin, cleanup
    <2>2. FormTypes'
        BY <2>1, FormStep DEF OnboardingInv, registrationVars
    <2> QED
        BY <2>1, <2>2, RowStays
        DEF OnboardingInv, RowTypes, registrationVars, person, signup, admin, cleanup
<1>2. CASE Next
    BY <1>2, StepCases, SignUpKeeps, VerifyKeeps, DriverKeeps, ExpireKeeps, FinishUploadKeeps, LookKeeps,
       PressKeeps, DecideKeeps, CleanupKeeps
<1> QED
    BY <1>1, <1>2

-------------------------------------------------------------------------------
(* The theorems. *)

\* The inductive invariant holds, whatever the papers and however often they are sent.
THEOREM OnboardingHolds == Spec => []OnboardingInv
<1>1. Init => OnboardingInv
    BY OnboardingInit, OnboardingAssumption
<1>2. OnboardingInv /\ [Next]_vars => OnboardingInv'
    BY OnboardingStep, OnboardingAssumption
<1> QED
    BY <1>1, <1>2, PTL DEF Spec

\* A driver whose account an upload or a decision spoke of last is active exactly when the
\* status says so, and then with all his papers, unless two uploads crossed.
THEOREM ActiveHasPapersHolds == Spec => []ActiveHasPapers
<1>1. OnboardingInv => ActiveHasPapers
    BY DEF OnboardingInv
<1> QED
    BY <1>1, OnboardingHolds, PTL

\* After a press, the account is as the page says, but for the web's stale page.
THEOREM ToldTheTruthHolds == Spec => []ToldTheTruth
<1>1. OnboardingInv => ToldTheTruth
    BY DEF OnboardingInv
<1> QED
    BY <1>1, OnboardingHolds, PTL

\* The nightly clean-up deletes nobody who was let in, but for what it cannot see.
THEOREM OnlyUnapprovedGoHolds == Spec => []OnlyUnapprovedGo
<1>1. OnboardingInv => OnlyUnapprovedGo
    BY DEF OnboardingInv
<1> QED
    BY <1>1, OnboardingHolds, PTL

\* Nobody is left without a next step, outside the dead ends that DeadEnd names.
THEOREM WayOnHolds == Spec => []WayOn
<1>1. OnboardingInv => WayOn
    <2>1. CASE DeadEnd
        BY <2>1 DEF WayOn
    <2>2. ASSUME OnboardingInv, ~DeadEnd PROVE WayOn
        <3>1. /\ AsksForNumber /\ dialled < 10 => CanType(dialled)
              /\ FormPasses => flaw \notin ServerChecks
            BY <2>2, FormGoesOn DEF OnboardingInv
        <3>2. HasNextStep /\ CustomerMayWork /\ ~raced /\ role \in {"Customer", "Driver"}
            BY <2>2 DEF OnboardingInv, DeadEnd, FormTypes
        <3>3. account = "unverified" => AsksForCode
            BY <2>2 DEF OnboardingInv, DeadEnd, Stranded, AsksForCode, WebCodePage, PhoneCodePage, FormTypes
        <3> QED
            BY <3>1, <3>2, <3>3 DEF WayOn, HasNextStep, CustomerMayWork, LoginRefused
    <2> QED
        BY <2>1, <2>2
<1> QED
    BY <1>1, OnboardingHolds, PTL

\* A decision changes no other paper than the one the administrator's page shows, but for a
\* page on the web that another upload has overtaken, and where nothing was shown.
THEOREM DecidedWhatWasShownHolds == Spec => DecidedWhatWasShown
<1> DEFINE OfShown(a) ==
        Decide(a) =>
          \/ views[a].details = None
          \/ a = "web" /\ views[a].details # standing.details
          \/ \A d \in Docs \ {views[a].details} : d \in standing.papers <=> d \in standing'.papers
<1>1. ASSUME RowTypes, NEW a \in Admins PROVE OfShown(a)
    <2>1. SUFFICES ASSUME Decide(a), views[a].details # None,
                          ~(a = "web" /\ views[a].details # standing.details)
                   PROVE  \A d \in Docs \ {views[a].details} : d \in standing.papers <=> d \in standing'.papers
        OBVIOUS
    <2>2. Meant(a) = views[a].details
        BY <2>1 DEF Meant, Admins
    <2>3. standing'.papers \in {standing.papers \cup {Meant(a)}, standing.papers \ {Meant(a)}}
        BY <1>1, <2>1 DEF Decide, Approved, Rejected, RowTypes, Rows
    <2> QED
        BY <2>2, <2>3
<1>2. OnboardingInv /\ [Next]_vars => [\A a \in Admins : OfShown(a)]_vars
    BY <1>1 DEF OnboardingInv
<1> QED
    BY <1>2, OnboardingHolds, PTL DEF Spec, DecidedWhatWasShown
===============================================================================
