------------------------------- MODULE Sessions -------------------------------
(***************************************************************************)
(* One account signed in on the tabs of a browser and on phones.  The      *)
(* server keeps ONE refresh token per account and replaces it at each use; *)
(* the clients keep the access token and the refresh token they were last  *)
(* given and renew them when a request is answered 401.  The two tokens    *)
(* are always issued, stored and replaced together, so a number stands for *)
(* the pair, 0 for none.                                                   *)
(***************************************************************************)
EXTENDS Naturals, FiniteSets

CONSTANTS Tabs, Phones,      \* pages of one browser, and app installations
          Browser,           \* the localStorage the tabs share
          Requests, From,    \* the requests that may be sent, and the client of each
          MaxLogins          \* bound on successful sign-ins

Clients == Tabs \cup Phones
Disks == {Browser} \cup Phones
Disk(c) == IF c \in Tabs THEN Browser ELSE c

ASSUME SessionsAssumption ==
    /\ Browser \notin Phones
    /\ Tabs \cap Phones = {}
    /\ IsFiniteSet(Requests)
    /\ From \in [Requests -> Clients]
    /\ MaxLogins \in Nat

VARIABLES
    current,   \* Users.RefreshToken, 0 when it is NULL
    issued,    \* how many pairs the server has issued
    logins,    \* how many sign-ins succeeded
    expired,   \* access tokens up to this one have expired: all live equally long
    disk,      \* the persisted store of each device: [pair, in]
    shown,     \* which clients' in-memory store says isAuthenticated
    req,       \* [state, pair, retry, anon] of each request
    refresh,   \* the renewal a client has in flight: [state, pair, new]
    login,     \* the sign-in answer on its way to a client
    owner,     \* history: the device the current pair was issued to
    orphan,    \* history: the current pair's answer was lost, or its device gave it up
    crossed    \* history: two of renewal, sign-in and sign-out met on one device

sessionVars == <<current, issued, logins, expired, disk, shown, req, refresh, login,
                 owner, orphan, crossed>>
history == <<owner, orphan, crossed>>

SignedOut == [pair |-> 0, in |-> FALSE]
Idle == [state |-> "idle", pair |-> 0, new |-> 0]
Request(state, pair, retry, anon) ==
    [state |-> state, pair |-> pair, retry |-> retry, anon |-> anon]
Ended(state) == Request(state, 0, FALSE, FALSE)

RequestsOf(c, state) == {r \in Requests : From[r] = c /\ req[r].state = state}
Pending(c) == {r \in Requests : From[r] = c /\ req[r].state \in {"sent", "refused", "waiting"}}

\* A renewal or a sign-in of the session kept on disk d is in flight.
Busy(d) == \E c \in Clients : Disk(c) = d /\ (refresh[c] # Idle \/ login[c] # 0)

SessionsInit ==
    /\ current = 0 /\ issued = 0 /\ logins = 0 /\ expired = 0
    /\ disk = [d \in Disks |-> SignedOut]
    /\ shown = [c \in Clients |-> FALSE]
    /\ req = [r \in Requests |-> Ended("idle")]
    /\ refresh = [c \in Clients |-> Idle]
    /\ login = [c \in Clients |-> 0]
    /\ owner = Browser
    /\ orphan = FALSE
    /\ crossed = FALSE

-------------------------------------------------------------------------------
(* AuthService and TokenService. *)

\* IssueTokensAsync: a new pair for a client, written over the old one.
Issue(c) ==
    /\ current' = issued + 1
    /\ issued' = issued + 1
    /\ owner' = Disk(c)
    /\ orphan' = FALSE

\* RefreshTokenAsync reads the user's row and compares.  A token whose seven days
\* are over is refused like a missing one.
ReadUser(c) ==
    /\ refresh[c].state = "posted"
    /\ \E verdict \in {"matched", "replayed", "denied"} :
          /\ verdict = "matched" => current # 0 /\ refresh[c].pair = current
          /\ verdict = "replayed" => current # 0 /\ refresh[c].pair # current
          /\ verdict = "denied" => current = 0 \/ refresh[c].pair = current
          /\ refresh' = [refresh EXCEPT ![c].state = verdict]
    /\ UNCHANGED <<current, issued, logins, expired, disk, shown, req, login, history>>

\* Mutant: the new refresh token is never saved.
RotateUnsaved(c) ==
    /\ refresh[c].state = "matched"
    /\ issued' = issued + 1
    /\ refresh' = [refresh EXCEPT ![c] = [state |-> "granted", pair |-> @.pair, new |-> issued + 1]]
    /\ UNCHANGED <<current, logins, expired, disk, shown, req, login, history>>

Rotate(c) ==
    /\ refresh[c].state = "matched"
    /\ Issue(c)
    /\ refresh' = [refresh EXCEPT ![c] = [state |-> "granted", pair |-> @.pair, new |-> issued + 1]]
    /\ UNCHANGED <<logins, expired, disk, shown, req, login, crossed>>

\* A token that is not the current one closes the whole account.
CloseAccount(c) ==
    /\ refresh[c].state = "replayed"
    /\ current' = 0
    /\ refresh' = [refresh EXCEPT ![c].state = "denied"]
    /\ UNCHANGED <<issued, logins, expired, disk, shown, req, login, history>>

TokensExpire ==
    /\ expired < issued
    /\ expired' = expired + 1
    /\ UNCHANGED <<current, issued, logins, disk, shown, req, refresh, login, history>>

-------------------------------------------------------------------------------
(* Requests: the interceptors of both clients. *)

\* The sign-in form of client c waits for an answer (its "loading" flag).
SigningIn(c) == login[c] # 0 \/ \E r \in Pending(c) : req[r].anon

\* A page behind a sign-in sends its requests with the token on the disk; what is
\* sent from the sign-in page (anon) is a wrong password.  On a phone such a
\* request carries no token and only ends in a message, so it is left out.
Send(r) ==
    LET c == From[r]
    IN  /\ req[r].state = "idle"
        /\ shown[c] \/ (c \in Tabs /\ ~SigningIn(c))
        /\ req' = [req EXCEPT ![r] = Request("sent", disk[Disk(c)].pair, FALSE, ~shown[c])]
        /\ UNCHANGED <<current, issued, logins, expired, disk, shown, refresh, login, history>>

Serve(r) ==
    /\ req[r].state = "sent"
    /\ req' = [req EXCEPT ![r] =
          IF req[r].pair > expired /\ ~req[r].anon THEN Ended("done")
          ELSE [req[r] EXCEPT !.state = "refused", !.pair = 0]]
    /\ UNCHANGED <<current, issued, logins, expired, disk, shown, refresh, login, history>>

Reject(S) == [r \in Requests |-> IF r \in S THEN Ended("failed") ELSE req[r]]

\* Nobody will ever use one of these pairs again.
Forget(pairs) == orphan' = (orphan \/ (current # 0 /\ current \in pairs))

\* Mutant: only the page forgets the session.
KeepDisk(d) == UNCHANGED disk /\ Forget({disk[d].pair})

\* A device lets go of its session.
SignOutDisk(d) ==
    /\ disk' = [disk EXCEPT ![d] = SignedOut]
    /\ Forget({disk[d].pair})

\* Neither client renews twice for one request.
GiveUp(r) ==
    /\ req[r].state = "refused" /\ req[r].retry
    /\ req' = Reject({r})
    /\ UNCHANGED <<current, issued, logins, expired, disk, shown, refresh, login, history>>

\* A renewal is under way: wait for it.  The page's request joins its queue and is
\* not marked as retried, the phone's is.
Join(r) ==
    /\ req[r].state = "refused" /\ ~req[r].retry
    /\ refresh[From[r]] # Idle
    /\ req' = [req EXCEPT ![r].state = "waiting", ![r].retry = From[r] \in Phones]
    /\ UNCHANGED <<current, issued, logins, expired, disk, shown, refresh, login, history>>

Posted(c) == [state |-> "posted", pair |-> disk[Disk(c)].pair, new |-> 0]

StartRenewal(r) ==
    LET c == From[r]
    IN  /\ req[r].state = "refused" /\ ~req[r].retry
        /\ refresh[c] = Idle
        /\ disk[Disk(c)].pair # 0
        /\ crossed' = (crossed \/ Busy(Disk(c)))
        /\ refresh' = [refresh EXCEPT ![c] = Posted(c)]
        /\ req' = [req EXCEPT ![r].state = "waiting", ![r].retry = TRUE]
        /\ UNCHANGED <<current, issued, logins, expired, disk, shown, login, owner, orphan>>

\* There is nothing to renew with: the phone signs out, the page goes to the
\* sign-in page and takes its requests with it.
NothingToRenew(r) ==
    LET c == From[r]
    IN  /\ req[r].state = "refused" /\ ~req[r].retry
        /\ refresh[c] = Idle
        /\ disk[Disk(c)].pair = 0
        /\ SignOutDisk(Disk(c))
        /\ shown' = [shown EXCEPT ![c] = FALSE]
        /\ req' = Reject(IF c \in Tabs THEN Pending(c) ELSE {r})
        /\ UNCHANGED <<current, issued, logins, expired, refresh, login, owner, crossed>>

-------------------------------------------------------------------------------
(* The answer to a renewal. *)

\* Mutant: the queue is not released.
ResentFirst(c, pair) ==
    [r \in Requests |-> IF r \in RequestsOf(c, "waiting") /\ req[r].retry
                        THEN [req[r] EXCEPT !.state = "sent", !.pair = pair] ELSE req[r]]

Resent(c, pair) ==
    [r \in Requests |-> IF r \in RequestsOf(c, "waiting")
                        THEN [req[r] EXCEPT !.state = "sent", !.pair = pair] ELSE req[r]]

\* The page writes back the store it read before the call, with its user and
\* isAuthenticated; the phone sets the two tokens in the store of the moment.
Renewed(c) ==
    [pair |-> refresh[c].new, in |-> c \in Tabs \/ disk[c].in]

Refreshed(c) ==
    /\ refresh[c].state = "granted"
    /\ disk' = [disk EXCEPT ![Disk(c)] = Renewed(c)]
    /\ req' = Resent(c, refresh[c].new)
    /\ refresh' = [refresh EXCEPT ![c] = Idle]
    /\ UNCHANGED <<current, issued, logins, expired, shown, login, history>>

RefreshFailed(c) ==
    /\ refresh[c].state = "denied"
    /\ SignOutDisk(Disk(c))
    /\ shown' = [shown EXCEPT ![c] = FALSE]
    /\ req' = Reject(IF c \in Tabs THEN Pending(c) ELSE RequestsOf(c, "waiting"))
    /\ refresh' = [refresh EXCEPT ![c] = Idle]
    /\ UNCHANGED <<current, issued, logins, expired, login, owner, crossed>>

\* The call never arrives, or its answer is lost: to the client a failure.
LoseRenewal(c) ==
    /\ refresh[c].state \in {"posted", "granted"}
    /\ refresh' = [refresh EXCEPT ![c].state = "denied"]
    /\ Forget({refresh[c].new})
    /\ UNCHANGED <<current, issued, logins, expired, disk, shown, req, login, owner, crossed>>

-------------------------------------------------------------------------------
(* Signing in and out, closing and opening a client. *)

LogIn(c) ==
    /\ ~shown[c] /\ ~SigningIn(c)
    /\ logins < MaxLogins
    /\ logins' = logins + 1
    /\ Issue(c)
    /\ login' = [login EXCEPT ![c] = issued + 1]
    /\ crossed' = (crossed \/ Busy(Disk(c)))
    /\ UNCHANGED <<expired, disk, shown, req, refresh>>

SignIn(c) ==
    /\ login[c] # 0
    /\ disk' = [disk EXCEPT ![Disk(c)] = [pair |-> login[c], in |-> TRUE]]
    /\ shown' = [shown EXCEPT ![c] = TRUE]
    /\ login' = [login EXCEPT ![c] = 0]
    /\ Forget({disk[Disk(c)].pair})
    /\ UNCHANGED <<current, issued, logins, expired, req, refresh, owner, crossed>>

\* The account has another role than the one the page is for, or the answer is
\* lost: the pair was issued and nobody has it.
DiscardLogin(c) ==
    /\ login[c] # 0
    /\ login' = [login EXCEPT ![c] = 0]
    /\ Forget({login[c]})
    /\ UNCHANGED <<current, issued, logins, expired, disk, shown, req, refresh, owner, crossed>>

Logout(c) ==
    /\ shown[c]
    /\ shown' = [shown EXCEPT ![c] = FALSE]
    /\ SignOutDisk(Disk(c))
    /\ crossed' = (crossed \/ Busy(Disk(c)))
    /\ UNCHANGED <<current, issued, logins, expired, req, refresh, login, owner>>

\* A page is reloaded or an app killed and opened again: what it was waiting for
\* is gone, the store is read from the disk.  (Not while the server is between its
\* read and its write; LoseRenewal covers the answer that finds nobody.)
Restart(c) ==
    /\ refresh[c].state \notin {"matched", "replayed"}
    /\ shown' = [shown EXCEPT ![c] = disk[Disk(c)].in]
    /\ req' = Reject(Pending(c))
    /\ refresh' = [refresh EXCEPT ![c] = Idle]
    /\ login' = [login EXCEPT ![c] = 0]
    /\ Forget({refresh[c].new, login[c]})
    /\ UNCHANGED <<current, issued, logins, expired, disk, owner, crossed>>

-------------------------------------------------------------------------------
ServerStep(c) == ReadUser(c) \/ Rotate(c) \/ CloseAccount(c)
AnswerRenewal(c) == Refreshed(c) \/ RefreshFailed(c)
HandleRequest(r) == Serve(r) \/ GiveUp(r) \/ Join(r) \/ StartRenewal(r) \/ NothingToRenew(r)

SessionsNext ==
    \/ \E r \in Requests : Send(r) \/ HandleRequest(r)
    \/ \E c \in Clients : \/ ServerStep(c) \/ AnswerRenewal(c) \/ LoseRenewal(c)
                          \/ LogIn(c) \/ SignIn(c) \/ DiscardLogin(c) \/ Logout(c) \/ Restart(c)
    \/ TokensExpire

\* The server answers what it received and the clients handle the answers; nothing
\* is assumed of users or of the network.
Fairness == /\ \A r \in Requests : WF_sessionVars(HandleRequest(r))
            /\ \A c \in Clients : WF_sessionVars(ServerStep(c)) /\ WF_sessionVars(AnswerRenewal(c))

SessionsSpec == SessionsInit /\ [][SessionsNext]_sessionVars
FairSessions == SessionsSpec /\ Fairness

-------------------------------------------------------------------------------
\* The replay defence of RefreshTokenAsync does not fire on an account's own
\* renewals.  It closes the account only if another device signed in since (one
\* token per account), an answer was lost, or two of renewal, sign-in and sign-out
\* were in flight on the device at once.
NoFalseAlarm ==
    \A c \in Clients : refresh[c].state = "replayed" /\ current # 0 =>
        \/ owner # Disk(c)
        \/ orphan
        \/ crossed

\* Unless it crossed a renewal or a sign-in, a sign-out lasts: a device on which nobody is
\* shown as signed in keeps no tokens that a restart would sign in with again.
SignedOutStaysOut ==
    crossed \/ \A d \in Disks : disk[d].pair # 0 =>
                  disk[d].in /\ \E c \in Clients : Disk(c) = d /\ shown[c]

\* Nobody waits for ever: whatever the order in which renewals, queued requests,
\* sign-outs and lost answers come, each request sent is answered or given up.
RequestsAnswered ==
    \A r \in Requests : req[r].state \in {"sent", "refused", "waiting"}
                            ~> req[r].state \in {"done", "failed"}

-------------------------------------------------------------------------------
(* The inductive invariant behind the first two properties.  All of it but the types holds as  *)
(* long as nothing has crossed on a device.                                                  *)
InFlight(c) == refresh[c] # Idle \/ login[c] # 0
RenewalStates == {"idle", "posted", "matched", "replayed", "denied", "granted"}

SessionTypes ==
    /\ current \in Nat /\ issued \in Nat
    /\ disk \in [Disks -> [pair : Nat, in : BOOLEAN]]
    /\ shown \in [Clients -> BOOLEAN]
    /\ refresh \in [Clients -> [state : RenewalStates, pair : Nat, new : Nat]]
    /\ login \in [Clients -> Nat]
    /\ orphan \in BOOLEAN /\ crossed \in BOOLEAN

\* A device has at most one renewal or sign-in in flight,
OneInFlight ==
    /\ \A c \in Clients : refresh[c] = Idle \/ login[c] = 0
    /\ \A c, e \in Clients : Disk(c) = Disk(e) /\ InFlight(c) /\ InFlight(e) => c = e

\* renews the pair that it keeps,
RenewsWhatItKeeps ==
    \A c \in Clients : refresh[c].state \in {"posted", "matched", "replayed", "granted"} =>
        refresh[c].pair # 0 /\ refresh[c].pair = disk[Disk(c)].pair

\* and is given the newest pair, if the newest was issued to it;
GivenTheNewest ==
    \A c \in Clients : current # 0 /\ owner = Disk(c) =>
        /\ refresh[c].state = "granted" => refresh[c].new = current
        /\ login[c] # 0 => login[c] = current

\* the owner of the newest pair keeps it, or it is on its way to him.
OwnerHasIt ==
    \A d \in Disks : current # 0 /\ owner = d /\ ~orphan =>
        \/ disk[d].pair = current
        \/ \E c \in Clients : /\ Disk(c) = d
                              /\ \/ refresh[c].state = "granted" /\ refresh[c].new = current
                                 \/ login[c] = current

Orderly == OneInFlight /\ RenewsWhatItKeeps /\ GivenTheNewest /\ OwnerHasIt

SessionsInv ==
    /\ SessionTypes
    /\ crossed \/ Orderly
    /\ NoFalseAlarm
    /\ SignedOutStaysOut
===============================================================================
