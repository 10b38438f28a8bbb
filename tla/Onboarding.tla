------------------------------ MODULE Onboarding ------------------------------
(***************************************************************************)
(* From a verified account to an active one and back.  A driver uploads     *)
(* his papers (Documents.tsx, documents.tsx), an AI service looks at each,  *)
(* what it is unsure of waits for an administrator (Reviews.tsx,            *)
(* reviews.tsx), who also suspends and activates accounts by hand           *)
(* (Users.tsx and others, users.tsx).  An upload reads the driver's row,     *)
(* waits for the service and then saves the columns that it changed: what    *)
(* was saved meanwhile is not looked at.  At night a job deletes accounts    *)
(* that were never approved (DocumentCleanupJob).  A second session of the   *)
(* driver and two uploads of one paper at the same time are left out, and    *)
(* so is the work of a driver, which would keep his account.                 *)
(***************************************************************************)
EXTENDS Registration

CONSTANTS Docs,      \* the mandatory papers
          None,
          MaxUploads, MaxOthers   \* bounds: uploads; what else happens to an account, see others

ASSUME OnboardingAssumption ==
    Docs # {} /\ None \notin Docs /\ MaxUploads \in Nat /\ MaxOthers \in Nat

VARIABLES
    standing,  \* the server's row, see Fresh; details: the paper AiInferenceDetails speaks of
    uploads,   \* by paper: the row as the upload that is under way read it
    known,     \* the papers the phone's page shows as approved
    views,     \* by administrator: the row as his page shows it
    said,      \* what the last press was told: [by, active, stale]
    lastWord,  \* history: who last decided on the account
    raced,     \* history: an upload was saved over a row it had not read
    expiring,  \* what the clean-up job selected the row by, see Standing
    removed,   \* history: the row that the job deleted, and whether it had read that
    uploaded, others   \* bounds; others: expiries, acts of administrators, nights of the job

driver == <<uploads, known, uploaded>>
admin == <<views, said>>
cleanup == <<expiring, removed>>
onboardingVars == <<standing, driver, admin, lastWord, raced, cleanup, others>>
vars == <<registrationVars, onboardingVars>>

Admins == {"web", "phone"}
Fresh == [status |-> "Pending", active |-> FALSE, papers |-> {}, expired |-> {}, details |-> None]

\* The slip of a queue that takes only what the service could not look at.
QueueOfFailures(status) == status \in {"Pending", "ManualApprovalRequired"}
InQueue(status) == status \in {"PendingReview", "Pending", "ManualApprovalRequired"}
LoginRefused == ~standing.active /\ standing.status = "Active"

-------------------------------------------------------------------------------
(* Verification and login. *)

\* A customer may work at once, a driver when his papers are approved.
Verify ==
    /\ Verified
    /\ standing' = IF role = "Customer" THEN [standing EXCEPT !.status = "Active", !.active = TRUE]
                   ELSE standing
    /\ UNCHANGED <<driver, admin, lastWord, raced, cleanup, others>>

\* Bound: nothing of this happens any more when somebody has acted on the account.
SignUp ==
    /\ RegistrationNext /\ ~Verified
    /\ uploaded = 0 /\ others = 0 /\ \A a \in Admins : views[a] = None
    /\ UNCHANGED onboardingVars

Login ==
    /\ page = "login" /\ account = "verified" /\ ~LoginRefused
    /\ Opened("in")
    /\ known' = IF client = "phone" THEN standing.papers ELSE {}
    /\ UNCHANGED <<person, asks, signup, standing, uploads, uploaded, admin, lastWord, raced, cleanup, others>>

\* Signed out, or the session of a suspended account came to its end.
Leave ==
    /\ page = "in"
    /\ Opened("login")
    /\ known' = {}
    /\ UNCHANGED <<person, asks, signup, standing, uploads, uploaded, admin, lastWord, raced, cleanup, others>>

-------------------------------------------------------------------------------
(* Papers. *)

\* The web offers every paper again, the phone those it does not show as approved.
Offered(d) == client = "web" \/ d \notin known

\* Both pages ask the service once before; a paper it does not find valid is not sent.
StartUpload(d) ==
    /\ page = "in" /\ role = "Driver" /\ account = "verified"
    /\ Offered(d) /\ uploads[d] = None
    /\ uploaded < MaxUploads
    /\ uploads' = [uploads EXCEPT ![d] = standing]
    /\ uploaded' = uploaded + 1
    /\ UNCHANGED <<registrationVars, standing, known, admin, lastWord, raced, cleanup, others>>

Verdicts == {"good", "grey", "bad", "failed"}

\* The slip of letting one paper be missing.
AllButOne(papers, expired) == Cardinality(Docs \ papers) <= 1 /\ expired = {}
Complete(papers, expired) == papers = Docs /\ expired = {}

\* The row as the upload leaves it in its own hands.
Judged(row, d, verdict) ==
    CASE verdict = "bad" ->
           [row EXCEPT !.status = "Rejected", !.active = FALSE,
                       !.papers = @ \ {d}, !.expired = @ \ {d}]
      [] verdict = "failed" ->
           [row EXCEPT !.status = "ManualApprovalRequired", !.active = FALSE, !.details = d]
      [] verdict = "grey" ->
           [row EXCEPT !.status = "PendingReview", !.active = FALSE, !.details = d]
      [] verdict = "good" /\ Complete(row.papers \cup {d}, row.expired \ {d}) ->
           [row EXCEPT !.status = "Active", !.active = TRUE,
                       !.papers = @ \cup {d}, !.expired = @ \ {d}]
      [] OTHER ->
           [row EXCEPT !.status = "PendingReview", !.active = FALSE, !.details = d,
                       !.papers = @ \cup {d}, !.expired = @ \ {d}]

\* SaveChanges writes the columns that differ from what was read; the details
\* carry the time and always differ, as does an approved paper's date.
Saved(read, new, d, verdict) ==
    [status  |-> IF new.status # read.status THEN new.status ELSE standing.status,
     active  |-> IF new.active # read.active THEN new.active ELSE standing.active,
     papers  |-> (standing.papers \ (read.papers \ new.papers)) \cup (new.papers \ read.papers),
     expired |-> standing.expired \ ((read.papers \ new.papers) \cup
                                     (IF verdict = "good" THEN {d} ELSE {})),
     details |-> IF new.status \in {"PendingReview", "ManualApprovalRequired"} THEN d
                 ELSE standing.details]

\* The phone's page reads the profile after an upload that was not refused.
FinishUpload(d, verdict) ==
    /\ uploads[d] # None /\ account = "verified"
    /\ LET read == uploads[d]
       IN  /\ standing' = Saved(read, Judged(read, d, verdict), d, verdict)
           /\ raced' = (raced \/ read # standing)
    /\ uploads' = [uploads EXCEPT ![d] = None]
    /\ known' = IF page = "in" /\ client = "phone" /\ verdict # "bad" THEN standing'.papers ELSE known
    /\ lastWord' = "upload"
    /\ said' = None
    /\ UNCHANGED <<registrationVars, uploaded, views, cleanup, others>>

\* The row is gone: its update finds nothing to change, and the page hears of an error.
UploadFails(d) ==
    /\ uploads[d] # None /\ account = "none"
    /\ uploads' = [uploads EXCEPT ![d] = None]
    /\ UNCHANGED <<registrationVars, standing, known, uploaded, admin, lastWord, raced, cleanup, others>>

Reopen ==
    /\ page = "in" /\ client = "phone" /\ account = "verified"
    /\ known # standing.papers
    /\ known' = standing.papers
    /\ UNCHANGED <<registrationVars, standing, uploads, uploaded, admin, lastWord, raced, cleanup, others>>

\* Nothing but the next upload looks at a paper's date again.
Expire(d) ==
    /\ others < MaxOthers
    /\ d \in standing.papers \ standing.expired
    /\ standing' = [standing EXCEPT !.expired = @ \cup {d}]
    /\ others' = others + 1
    /\ UNCHANGED <<registrationVars, driver, admin, lastWord, raced, cleanup>>

-------------------------------------------------------------------------------
(* Administrators. *)

Shown == [status |-> standing.status, active |-> standing.active, details |-> standing.details]

Look(a) ==
    /\ account = "verified" /\ views[a] # Shown
    /\ views' = [views EXCEPT ![a] = Shown]
    /\ UNCHANGED <<registrationVars, standing, driver, said, lastWord, raced, cleanup, others>>

\* The slip of a phone that turns the account over, too.
TurnedOver(a) == ~standing.active
\* The button says the opposite of the state the page shows.  The phone asks for
\* that, the web for the opposite of whatever the row says.
Pressed(a) == IF a = "phone" THEN ~views[a].active ELSE ~standing.active

Press(a) ==
    /\ views[a] # None /\ account = "verified" /\ others < MaxOthers
    /\ standing' = [standing EXCEPT !.active = Pressed(a)]
    /\ said' = [by |-> a, active |-> ~views[a].active, stale |-> views[a].active # standing.active]
    /\ views' = [views EXCEPT ![a] = Shown']
    /\ lastWord' = IF standing'.active THEN "activated" ELSE "suspended"
    /\ others' = others + 1
    /\ UNCHANGED <<registrationVars, driver, raced, cleanup>>

\* The slip of putting what the row says before what the administrator saw.
NewestFirst(a) == IF standing.details # None THEN standing.details ELSE views[a].details
\* Only the phone says which paper it means.
Meant(a) == IF a = "phone" /\ views[a].details # None THEN views[a].details ELSE standing.details

Approved(d) ==
    LET papers == standing.papers \cup {d}
        status == IF papers = Docs THEN "Active" ELSE "Pending"
    IN  [standing EXCEPT !.papers = papers, !.expired = @ \ {d},
                         !.status = status, !.active = (papers = Docs)]
Rejected(d) ==
    [standing EXCEPT !.papers = @ \ {d}, !.expired = @ \ {d}, !.status = "Rejected", !.active = FALSE]

Decide(a) ==
    /\ views[a] # None /\ account = "verified" /\ others < MaxOthers
    /\ role = "Driver"
    /\ InQueue(views[a].status) /\ InQueue(standing.status)
    /\ Meant(a) # None
    /\ standing' \in {Approved(Meant(a)), Rejected(Meant(a))}
    /\ views' = [views EXCEPT ![a] = Shown']
    /\ said' = None
    /\ lastWord' = "decision"
    /\ others' = others + 1
    /\ UNCHANGED <<registrationVars, driver, raced, cleanup>>

\* The web's lists and details, each of which reads the row again after its press; those that
\* ask for a confirmation press what the page showed when it was asked for.
OnWeb == Look("web") \/ Press("web")
AtUsers == OnWeb
AtDrivers == role = "Driver" /\ OnWeb
AtCustomers == role = "Customer" /\ OnWeb
AtDriver == role = "Driver" /\ OnWeb
AtCustomer == role = "Customer" /\ OnWeb

\* The phone's list only activates; to suspend it opens the sheet of the account, where a
\* reason has to be given.
ActivatesInList == views["phone"] # None /\ ~views["phone"].active /\ Press("phone")
AtPhoneUsers == Look("phone") \/ ActivatesInList
InUserSheet == Press("phone")

\* The queue of papers, and the sheet of one in it, which decides.
AtReviews == role = "Driver" /\ InQueue(standing.status) /\ Look("web")
InReview == Decide("web")
AtPhoneReviews == role = "Driver" /\ InQueue(standing.status) /\ Look("phone")
InPhoneReview == Decide("phone")

-------------------------------------------------------------------------------
(* The clean-up job. *)

\* The slip of looking at nothing but the status.
UnapprovedByStatus(row) == row.status \in {"PendingReview", "Rejected"}

\* Neither the flag that lets a driver work is looked at, nor when he sent his papers: that
\* the account is old enough may come true at any time.
NeverApproved(row) == row.status \in {"PendingReview", "Rejected"} /\ row.papers = {}

Standing == [status |-> standing.status, active |-> standing.active, papers |-> standing.papers]

SelectExpired ==
    /\ account = "verified" /\ NeverApproved(standing)
    /\ expiring = None /\ others < MaxOthers
    /\ expiring' = Standing
    /\ others' = others + 1
    /\ UNCHANGED <<registrationVars, standing, driver, admin, lastWord, raced, removed>>

\* A batch is deleted by the keys that were selected.  The administrators' pages find no
\* account any more, whatever they show of it.
DeleteSelected ==
    /\ expiring # None
    /\ removed' = [row |-> Standing, read |-> expiring = Standing]
    /\ standing' = Fresh
    /\ expiring' = None
    /\ account' = "none" /\ code' = "none" /\ reset' = "none"
    /\ views' = [a \in Admins |-> None] /\ said' = None
    /\ UNCHANGED <<person, pages, driver, lastWord, raced, others>>

\* The server is stopped, or the batch fails on a row that something refers to by now.
CleanupFails ==
    /\ expiring # None
    /\ expiring' = None
    /\ UNCHANGED <<registrationVars, standing, driver, admin, lastWord, raced, removed, others>>

-------------------------------------------------------------------------------

Init ==
    /\ RegistrationInit
    /\ standing = Fresh
    /\ uploads = [d \in Docs |-> None]
    /\ known = {}
    /\ views = [a \in Admins |-> None]
    /\ said = None
    /\ lastWord = "none"
    /\ raced = FALSE
    /\ expiring = None /\ removed = None
    /\ uploaded = 0 /\ others = 0

Next ==
    \/ SignUp \/ Verify \/ Login \/ Leave
    \/ \E d \in Docs : StartUpload(d) \/ UploadFails(d) \/ Expire(d)
    \/ \E d \in Docs, verdict \in Verdicts : FinishUpload(d, verdict)
    \/ Reopen
    \/ AtUsers \/ AtDrivers \/ AtCustomers \/ AtDriver \/ AtCustomer
    \/ AtPhoneUsers \/ InUserSheet
    \/ AtReviews \/ InReview \/ AtPhoneReviews \/ InPhoneReview
    \/ SelectExpired \/ DeleteSelected \/ CleanupFails

Spec == Init /\ [][Next]_vars

-------------------------------------------------------------------------------
(* Properties. *)

\* When the last word on a driver was an upload's or a decision's and no upload
\* was saved over a row it had not read, he is active exactly when the status
\* says so, and then every paper is approved.  An administrator's hand
\* activates without papers; two uploads at once can leave a status that says
\* one thing and a flag that says the other (User.cs, the only way to IsActive).
ActiveHasPapers ==
    role = "Driver" /\ lastWord \in {"upload", "decision"} /\ ~raced =>
        /\ standing.active <=> standing.status = "Active"
        /\ standing.active => standing.papers = Docs

\* What an administrator decides changes no other paper than the one his page
\* shows, except on the web when another upload was saved since he opened it,
\* and where nothing was shown.
DecidedWhatWasShown ==
    [][\A a \in Admins : Decide(a) =>
          \/ views[a].details = None
          \/ a = "web" /\ views[a].details # standing.details
          \/ \A d \in Docs \ {views[a].details} : d \in standing.papers <=> d \in standing'.papers]_vars

\* After a press, the account is as the page says it is now, except on the web
\* when the page was out of date: there the press does the opposite.
ToldTheTruth ==
    said # None /\ ~(said.by = "web" /\ said.stale) => standing.active = said.active

\* The nightly clean-up deletes nobody who was let in: the account it deletes has no approved
\* paper and may not work, except that it does not see what was saved after it selected the
\* account, nor that an administrator, or two crossing uploads, set the flag without the status.
OnlyUnapprovedGo ==
    removed # None /\ removed.read =>
        /\ removed.row.papers = {}
        /\ removed.row.active => lastWord = "activated" \/ raced

\* Nobody is left without a next step, except where DeadEnd says so.
\* - Whoever writes his number can go on writing it, and a form that the page
\*   lets pass is taken by the server.
\* - Whoever has registered is on the page that sends the code again to his own
\*   number, and when it is verified a customer may work unless he was suspended.
\* - A driver who is not active and was not suspended can log in, and a paper is
\*   missing that he can send, or one waits for an administrator.
\* The dead ends: the web's field for the number is full before the number is; names
\* only the server checks; the owner of an account that is not verified left the page for
\* the code, or never got to it because the message failed or the answer was lost (his
\* number is taken, RegisterAsync, and the page that the login opens knows it masked,
\* AuthController.Login, so that neither a code nor a new message finds his account); and
\* uploads that crossed.
Stranded == account = "unverified" /\ (page # "code" \/ asks # "own")
DeadEnd ==
    \/ AsksForNumber /\ client = "web" /\ dialled = 8
    \/ FormPasses /\ flaw \in {"blank", "long"}
    \/ Stranded
    \/ raced
WayOn ==
    \/ DeadEnd
    \/ /\ AsksForNumber /\ dialled < 10 => CanType(dialled)
       /\ FormPasses => flaw \notin ServerChecks
       /\ account = "unverified" => AsksForCode
       /\ account = "verified" /\ ~standing.active /\ lastWord # "suspended" =>
             /\ role = "Driver" /\ ~LoginRefused
             /\ \/ standing.papers # Docs
                \/ InQueue(standing.status) /\ standing.details # None
===============================================================================
