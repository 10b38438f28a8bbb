----------------------------- MODULE SupportDesk -----------------------------
(***************************************************************************)
(* The support tickets of one user, on the user's pages and those of the   *)
(* administrators.  A ticket is answered by the AI until it is handed over *)
(* to a person: then it waits in the administrators' list, as Open, for    *)
(* their answer.  A handler reads the ticket, may spend long on the AI's   *)
(* answer, and saves; a page polls the ticket it shows and puts every      *)
(* answer it gets in its place.                                            *)
(***************************************************************************)
EXTENDS Naturals, Sequences, FiniteSets

CONSTANTS Tickets, UserPages, DeskPages,
          Remounted,   \* the pages that build a new thread for every ticket
          Calls,       \* bound on the requests the pages send
          NoOne        \* no ticket, no call, no answer

ASSUME SupportAssumption ==
    /\ Remounted \subseteq UserPages \cup DeskPages
    /\ UserPages \cap DeskPages = {}

VARIABLES
    ticket,      \* Status of each ticket, "none" before it is created
    said,        \* what was written on a ticket, by CreatedAt: <<author, call>>
    call,        \* the requests: [page, ticket, kind, phase, seen, human, late]
    thread,      \* what a page has: [selected, shown, waits]
    polled,      \* the answer to a page's poll on its way: [ticket, status]
    overlapped,  \* history: tickets a request saved while another was at work on it
    displaced    \* history: pages given an answer about the ticket they showed before

deskVars == <<ticket, said, call, thread, polled, overlapped, displaced>>

Statuses == {"Open", "Answered", "Resolved", "Closed"}
Threads == UserPages \cup DeskPages
Unused == [page |-> NoOne, ticket |-> NoOne, kind |-> "", phase |-> "free", seen |-> "none",
           human |-> FALSE, late |-> FALSE]
Closed(status) == status \in {"Resolved", "Closed"}

DeskInit ==
    /\ ticket = [t \in Tickets |-> "none"]
    /\ said = [t \in Tickets |-> <<>>]
    /\ call = [c \in Calls |-> Unused]
    /\ thread = [p \in Threads |-> [selected |-> NoOne, shown |-> NoOne, waits |-> NoOne]]
    /\ polled = [p \in Threads |-> NoOne]
    /\ overlapped = {}
    /\ displaced = {}

-----------------------------------------------------------------------------
(* The pages *)

\* The tickets a list holds: the user's own, which are all here, and all for an administrator.
Listed == {t \in Tickets : ticket[t] # "none"}

\* Only a thread that is built anew for every ticket forgets the request it waits for.
OwnRequest(p) == IF p \in Remounted THEN NoOne ELSE thread[p].waits

\* The slip of an effect that keeps the old thread and its polls.
SelectKeeping(p, t) ==
    /\ t \in Listed
    /\ thread[p].selected # t
    /\ thread' = [thread EXCEPT ![p].selected = t]
    /\ UNCHANGED <<ticket, said, call, polled, overlapped, displaced>>

\* The ticket is picked in the list.
Select(p, t) ==
    /\ t \in Listed
    /\ thread[p].selected # t
    /\ thread' = [thread EXCEPT ![p] =
           [selected |-> t, shown |-> NoOne, waits |-> OwnRequest(p)]]
    /\ polled' = [polled EXCEPT ![p] = NoOne]
    /\ displaced' = displaced \ {p}
    /\ UNCHANGED <<ticket, said, call, overlapped>>

Poll(p) ==
    /\ thread[p].selected # NoOne
    /\ polled[p] = NoOne
    /\ polled' = [polled EXCEPT ![p] =
           [ticket |-> thread[p].selected, status |-> ticket[thread[p].selected]]]
    /\ UNCHANGED <<ticket, said, call, thread, overlapped, displaced>>

Show(p) ==
    /\ polled[p] # NoOne
    /\ thread' = [thread EXCEPT ![p].shown = polled[p]]
    /\ polled' = [polled EXCEPT ![p] = NoOne]
    /\ displaced' = displaced \ {p}
    /\ UNCHANGED <<ticket, said, call, overlapped>>

\* What the buttons of the shown thread offer.
UserOffers(status) ==
    (IF Closed(status) THEN {} ELSE {"say"}) \cup (IF status = "Answered" THEN {"escalate"} ELSE {})
DeskOffers(status) == IF Closed(status) THEN {} ELSE {"say", "resolve"}
Offered(p, kind) ==
    /\ thread[p].shown # NoOne
    /\ kind \in IF p \in UserPages THEN UserOffers(thread[p].shown.status)
                                  ELSE DeskOffers(thread[p].shown.status)

Send(p, t, kind) ==
    /\ thread[p].waits = NoOne
    /\ \E c \in Calls :
           /\ call[c] = Unused
           /\ call' = [call EXCEPT ![c] =
                  [Unused EXCEPT !.page = p, !.ticket = t, !.kind = kind, !.phase = "sent"]]
           /\ thread' = [thread EXCEPT ![p].waits = c]
    /\ UNCHANGED <<ticket, said, polled, overlapped, displaced>>

\* The message, or the wish, goes to the ticket selected in the list.
Press(p, kind) == Offered(p, kind) /\ Send(p, thread[p].selected, kind)

StartTicket(p, t) ==
    /\ p \in UserPages
    /\ \A c \in Calls : call[c].ticket # t
    /\ Send(p, t, "create")

\* The answer is put in place of the thread; a new ticket is selected.
Answer(p) ==
    \E c \in Calls :
        /\ thread[p].waits = c
        /\ call[c].phase = "saved"
        /\ thread' = [thread EXCEPT ![p] =
               IF call[c].kind = "create"
               THEN [selected |-> call[c].ticket, shown |-> NoOne, waits |-> NoOne]
               ELSE [selected |-> @.selected, waits |-> NoOne,
                     shown |-> [ticket |-> call[c].ticket, status |-> call[c].seen]]]
        /\ polled' = IF call[c].kind = "create" THEN [polled EXCEPT ![p] = NoOne] ELSE polled
        /\ displaced' = IF call[c].kind # "create" /\ call[c].ticket # thread[p].selected
                        THEN displaced \cup {p} ELSE displaced \ {p}
        /\ UNCHANGED <<ticket, said, call, overlapped>>

\* The request, its answer or the page's patience is lost; the draft stays for another try.
GiveUp(p) ==
    /\ thread[p].waits # NoOne
    /\ thread' = [thread EXCEPT ![p].waits = NoOne]
    /\ UNCHANGED <<ticket, said, call, polled, overlapped, displaced>>

-----------------------------------------------------------------------------
(* The server *)

Author(c) ==
    CASE call[c].kind = "escalate" -> "Notice"
      [] call[c].kind = "resolve" -> "Resolution"
      [] OTHER -> IF call[c].page \in DeskPages THEN "Admin" ELSE "User"

\* Which messages of a ticket are in the table: a request adds its own when it saves.
InTable(t) == {i \in DOMAIN said[t] : call[said[t][i][2]].phase = "saved"}

\* The slip of forgetting who has written.
HumanWhenOpen(t) == ticket[t] = "Open"

\* A person is in charge: the ticket was handed over, or an administrator has written.
HumanMode(t) ==
    \/ ticket[t] = "Open"
    \/ \E i \in InTable(t) : said[t][i][1] = "Admin"

LoadTicket(c) ==
    LET t == call[c].ticket
    IN  /\ call[c].phase = "sent"
        /\ call' = [call EXCEPT ![c].phase = "loaded", ![c].seen = ticket[t],
                                ![c].human = HumanMode(t)]
        /\ said' = [said EXCEPT ![t] = Append(@, <<Author(c), c>>)]
        /\ UNCHANGED <<ticket, thread, polled, overlapped, displaced>>

\* create and an administrator's answer: Answered; a user's message: whoever is in charge.
NewStatus(c) ==
    CASE call[c].kind = "escalate" -> "Open"
      [] call[c].kind = "resolve" -> "Resolved"
      [] OTHER -> IF Author(c) = "User" /\ call[c].human THEN "Open" ELSE "Answered"

\* The status column is written only where it differs from what was loaded.
SaveTicket(c) ==
    LET t == call[c].ticket
        after == IF NewStatus(c) = call[c].seen THEN ticket[t] ELSE NewStatus(c)
        atWork == {k \in Calls \ {c} : call[k].ticket = t /\ call[k].phase = "loaded"}
    IN  /\ call[c].phase = "loaded"
        /\ ticket' = [ticket EXCEPT ![t] = after]
        /\ call' = [k \in Calls |->
               IF k = c THEN [call[c] EXCEPT !.phase = "saved", !.seen = after]
               ELSE IF k \in atWork THEN [call[k] EXCEPT !.late = TRUE] ELSE call[k]]
        /\ overlapped' = IF call[c].late THEN overlapped \cup {t} ELSE overlapped
        /\ UNCHANGED <<said, thread, polled, displaced>>

-----------------------------------------------------------------------------
DeskNext ==
    \/ \E p \in Threads :
           \/ \E t \in Tickets : Select(p, t) \/ StartTicket(p, t)
           \/ \E kind \in {"say", "escalate", "resolve"} : Press(p, kind)
           \/ Poll(p) \/ Show(p) \/ Answer(p) \/ GiveUp(p)
    \/ \E c \in Calls : LoadTicket(c) \/ SaveTicket(c)

-----------------------------------------------------------------------------
(* What the user was told will be answered by a person, and was not yet: the notice of a *)
(* handover, and each message after one or after an administrator's.                     *)
Awaits(t, i) ==
    /\ \/ said[t][i][1] = "Notice"
       \/ said[t][i][1] = "User" /\ \E j \in InTable(t) : j < i /\ said[t][j][1] = "Admin"
    /\ \A j \in InTable(t) : j > i => said[t][j][1] \notin {"Admin", "Resolution"}

\* A ticket with something that waits for a person is Open, where the administrators look for
\* it, however its pages' polls, repeated messages and stale buttons cross, unless two requests
\* for it overlapped on the server (PostMessage, Escalate and UpdateStatus check nothing).
WaitingIsListed ==
    \A t \in Tickets \ overlapped :
        (\E i \in InTable(t) : Awaits(t, i)) => ticket[t] = "Open"

\* A page shows the thread of the ticket its message box writes to, unless the answer to its
\* own request came after another ticket had been selected (the thread is not keyed by ticket).
WritesWhatItShows ==
    \A p \in Threads :
        thread[p].shown # NoOne =>
            thread[p].shown.ticket = thread[p].selected \/ p \in displaced
=============================================================================
