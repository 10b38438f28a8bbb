\* A browser tab and a phone of one account: every order of requests, renewals,
\* expiries, sign-ins, sign-outs, lost answers and restarts.
CONSTANTS
    tab1 = tab1
    phone = phone
    Browser = Browser
    r1 = r1
    r2 = r2
    r3 = r3
    Tabs = {tab1}
    Phones = {phone}
    Requests = {r1, r2, r3}
    From <- MCFrom
    MaxLogins = 2

SPECIFICATION FairSessions
INVARIANTS NoFalseAlarm SignedOutStaysOut
PROPERTY RequestsAnswered
CHECK_DEADLOCK FALSE
