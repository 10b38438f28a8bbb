----------------------------- MODULE Registration -----------------------------
(***************************************************************************)
(* How somebody gets an account: the registration form, the page for the   *)
(* code that is sent by SMS, the login that sends an unverified owner back  *)
(* to it, and the three steps of a forgotten password (Register.tsx,        *)
(* VerifyPhone.tsx, Login.tsx, ForgotPassword.tsx and their screens on the  *)
(* phone; AuthController and AuthService on the server).  One person, one   *)
(* phone number, one page open at a time.  The limits on messages and tries *)
(* are in Limits, and the owner knows the password.  A request's answer may *)
(* get lost.                                                                *)
(***************************************************************************)
EXTENDS Integers, FiniteSets

VARIABLES
    client,    \* "web" or "phone"
    role,      \* "Customer" or "Driver"
    page,      \* the page that is open: "register", "code", "login", "forgot", "resetCode",
               \* "newPassword" or, signed in, "in"
    dialled,   \* digits in the page's field for the phone number
    flaw,      \* what is wrong in the form
    asks,      \* whose code the code page asks for: the "own" number or a "masked" one
    account,   \* the server's row: "none", "unverified", "verified"
    code,      \* its newest code: "none" (or expired), "lost" on the way, "known"
    reset      \* the newest code to reset a password

person == <<client, role>>
pages == <<page, dialled, flaw, asks>>
signup == <<account, code, reset>>
registrationVars == <<person, pages, signup>>

-------------------------------------------------------------------------------
(* The form. *)

\* A field that is not as it should be; "blank" and "long" are names of spaces
\* only, or of more than a hundred letters.
Flaws == {"none", "blank", "long", "email", "password", "consent", "company", "identity",
          "birth", "iban", "address", "tracking"}
OfCustomer == {"company"}
OfDriver == {"birth", "iban", "address", "tracking"}
\* What can be wrong in the form of this role.
Possible == Flaws \ (IF role = "Driver" THEN OfCustomer ELSE OfDriver)

PhoneStep1 == {"blank", "email"}
PhoneStep2 == {"company", "identity", "birth", "iban", "address"}
PhoneChecks == PhoneStep1 \cup PhoneStep2 \cup {"password", "consent", "tracking"}
WebChecks == {"email", "password", "consent", "company", "identity", "birth", "iban", "address", "tracking"}
FormChecks == IF client = "web" THEN WebChecks ELSE PhoneChecks
ServerChecks == Flaws \ {"none"}

\* A number is shown in groups, 5XX XXX XX XX: the blanks count for the field's width.
Width(digits) == digits + Cardinality({n \in {3, 6, 8} : digits > n})
FieldWidth == IF client = "web" THEN 10 ELSE 13
CanType(digits) == digits < 10 /\ Width(digits) < FieldWidth

\* The page for the code sends it when its sixth digit is typed; the three steps of a
\* forgotten password are one page, which keeps the code for the last one.
WebCodePage == client = "web" /\ page = "code"
PhoneCodePage == client = "phone" /\ page = "code"
WebForgotPage == client = "web" /\ page \in {"forgot", "resetCode", "newPassword"}
PhoneForgotPage == client = "phone" /\ page \in {"forgot", "resetCode", "newPassword"}

AsksForCode == (WebCodePage \/ PhoneCodePage) /\ asks = "own"
AtStep(step) == (WebForgotPage \/ PhoneForgotPage) /\ page = step
AsksForNumber == page = "register" \/ AtStep("forgot")
FormPasses == page = "register" /\ dialled = 10 /\ flaw \notin FormChecks

TypeDigit ==
    /\ AsksForNumber /\ CanType(dialled)
    /\ dialled' = dialled + 1
    /\ UNCHANGED <<person, page, flaw, asks, signup>>

PasteNumber ==
    /\ AsksForNumber /\ dialled = 0
    /\ dialled' = 10
    /\ UNCHANGED <<person, page, flaw, asks, signup>>

\* The other fields are filled in once the number is.
FillIn ==
    /\ page = "register" /\ dialled = 10
    /\ \E f \in Possible : f # flaw /\ flaw' = f
    /\ UNCHANGED <<person, page, dialled, asks, signup>>

Opened(p) == page' = p /\ dialled' = 0 /\ flaw' = "none"

-------------------------------------------------------------------------------
(* The server. *)

\* RegisterAsync: the row is saved, then the code goes out; when the gateway
\* refuses it, the page hears of an error.
Register ==
    /\ FormPasses
    /\ flaw \notin ServerChecks /\ account = "none"
    /\ account' = "unverified"
    /\ code' \in {"lost", "known"}
    /\ \/ code' = "known" /\ Opened("code") /\ asks' = "own"
       \/ UNCHANGED pages        \* the message failed, or the answer got lost
    /\ UNCHANGED <<person, reset>>

\* VerifyOtpAsync: the owner types the code that came, which is good once.
Verified ==
    /\ AsksForCode
    /\ account = "unverified" /\ code = "known"
    /\ account' = "verified"
    /\ code' = "none"
    /\ \/ Opened("login") /\ UNCHANGED asks
       \/ UNCHANGED pages
    /\ UNCHANGED <<person, reset>>

\* ResendVerificationOtpAsync finds no account under a masked number.
Resend ==
    /\ AsksForCode /\ account = "unverified"
    /\ code' \in {"lost", "known"}
    /\ UNCHANGED <<person, pages, account, reset>>

\* A code is good for some minutes.
CodeExpires ==
    /\ code # "none"
    /\ code' = "none"
    /\ UNCHANGED <<person, pages, account, reset>>

\* ForgotPasswordAsync, VerifyPasswordResetOtpAsync (which does not use the code
\* up) and ResetPasswordAsync.
Forgot ==
    /\ AtStep("forgot") /\ dialled = 10 /\ account # "none"
    /\ reset' \in {"lost", "known"}
    /\ \/ reset' = "known" /\ Opened("resetCode") /\ UNCHANGED asks
       \/ UNCHANGED pages
    /\ UNCHANGED <<person, account, code>>

ResetCode ==
    /\ AtStep("resetCode") /\ reset = "known"
    /\ Opened("newPassword")
    /\ UNCHANGED <<person, asks, signup>>

NewPassword ==
    /\ AtStep("newPassword") /\ reset = "known"
    /\ reset' = "none"
    /\ \/ Opened("login") /\ UNCHANGED asks
       \/ UNCHANGED pages
    /\ UNCHANGED <<person, account, code>>

ResetExpires ==
    /\ reset # "none"
    /\ reset' = "none"
    /\ UNCHANGED <<person, pages, account, code>>

\* The code page's number is the one the server's refusal named: only its first
\* digit is left.
SentToCode ==
    /\ page = "login" /\ account = "unverified"
    /\ Opened("code")
    /\ asks' = "masked"
    /\ UNCHANGED <<person, signup>>

-------------------------------------------------------------------------------
(* The links between the pages. *)

GoTo ==
    /\ page # "in"
    /\ \E p \in {"register", "login", "forgot"} : p # page /\ Opened(p)
    /\ UNCHANGED <<person, asks, signup>>

RegistrationInit ==
    /\ client \in {"web", "phone"} /\ role \in {"Customer", "Driver"}
    /\ page = "register" /\ dialled = 0 /\ flaw = "none" /\ asks = "own"
    /\ account = "none" /\ code = "none" /\ reset = "none"

RegistrationNext ==
    \/ TypeDigit \/ PasteNumber \/ FillIn
    \/ Register \/ Verified \/ Resend \/ CodeExpires
    \/ Forgot \/ ResetCode \/ NewPassword \/ ResetExpires
    \/ SentToCode \/ GoTo
===============================================================================
