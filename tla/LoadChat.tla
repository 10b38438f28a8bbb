------------------------------ MODULE LoadChat ------------------------------
(***************************************************************************)
(* The chat of one load.  The hub saves a message and pushes it to the     *)
(* connections in the load's room; a page asks for the history once, when  *)
(* it opens, and lives on the pushes from then on.  A connection that      *)
(* comes back is a new one, in no room.                                    *)
(***************************************************************************)
EXTENDS Naturals

CONSTANTS Chatters,   \* the pages that may be open
          Texts       \* bound on the messages sent

VARIABLES text, chat
chatVars == <<text, chat>>

Opened(kind) ==
    [kind |-> kind, socket |-> "starting", joining |-> "no", joined |-> FALSE, says |-> FALSE,
     history |-> "asked", answer |-> {}, list |-> {}, wire |-> {}, sure |-> {}]
Away == [Opened("none") EXCEPT !.socket = "off", !.history = "none"]

ChatInit ==
    /\ text = [m \in Texts |-> "unsent"]
    /\ chat = [p \in Chatters |-> Away]

\* Messages the history holds: the refused ones are kept from both parties.
Kept == {m \in Texts : text[m] \in {"stored", "pushed"}}

Changed(p, new) == chat' = [chat EXCEPT ![p] = new] /\ UNCHANGED text

\* The panel on a load's page, the phone's chat from its inbox, a thread of the web's inbox.
OpenPanel(p) == chat[p] = Away /\ Changed(p, Opened("panel"))
OpenPhone(p) == chat[p] = Away /\ Changed(p, Opened("phone"))
OpenInbox(p) == chat[p] = Away /\ Changed(p, Opened("inbox"))

Unmount(p) == chat[p] # Away /\ Changed(p, Away)

-----------------------------------------------------------------------------
(* The history, asked for beside the connection: its answer replaces the list *)

ReadHistory(p) ==
    /\ chat[p].history = "asked"
    /\ Changed(p, [chat[p] EXCEPT !.history = "read", !.answer = Kept])

ShowHistory(p) ==
    /\ chat[p].history = "read"
    /\ Changed(p, [chat[p] EXCEPT !.history = "shown", !.list = chat[p].answer, !.answer = {}])

\* Only the inbox empties its list when the history fails.
MissHistory(p) ==
    /\ chat[p].history \in {"asked", "read"}
    /\ Changed(p, [chat[p] EXCEPT !.history = "failed", !.answer = {},
                       !.list = IF chat[p].kind = "inbox" THEN {} ELSE @,
                       !.sure = IF chat[p].kind = "inbox" THEN {} ELSE @])

-----------------------------------------------------------------------------
(* The connection *)

\* start() resolves: the page joins the room; the phone calls itself live already.
Started(p) ==
    /\ chat[p].socket = "starting"
    /\ Changed(p, [chat[p] EXCEPT !.socket = "open", !.joining = "first",
                       !.says = chat[p].kind = "phone"])

NotStarted(p) ==
    /\ chat[p].socket = "starting"
    /\ Changed(p, [chat[p] EXCEPT !.socket = "closed"])

\* JoinChatGroup answers; the panel says it is connected only now.
Join(p) ==
    /\ chat[p].socket = "open"
    /\ chat[p].joining # "no"
    /\ Changed(p, [chat[p] EXCEPT !.joining = "no", !.joined = TRUE,
                       !.says = @ \/ chat[p].kind = "panel"])

\* The phone overlooks it after a reconnection.
JoinRefused(p) ==
    /\ chat[p].socket = "open"
    /\ chat[p].joining # "no"
    /\ Changed(p, [chat[p] EXCEPT !.joining = "no",
                       !.says = @ /\ chat[p].kind = "phone" /\ chat[p].joining = "again"])

\* The connection dies with what is on it; nobody notices yet.
Break(p) ==
    /\ chat[p].socket = "open"
    /\ Changed(p, [chat[p] EXCEPT !.socket = "dead", !.joined = FALSE, !.wire = {},
                       !.sure = @ \ chat[p].wire])

Noticed(p) ==
    /\ chat[p].socket = "dead"
    /\ Changed(p, [chat[p] EXCEPT !.socket = "reconnecting", !.joining = "no", !.says = FALSE])

\* The slip that the panel's comment warns of: connected, but in no room.
BackOutside(p) ==
    /\ chat[p].socket = "reconnecting"
    /\ Changed(p, [chat[p] EXCEPT !.socket = "open", !.says = chat[p].kind # "inbox"])

\* A new connection: panel and phone join again, the inbox does not.
Reconnected(p) ==
    /\ chat[p].socket = "reconnecting"
    /\ Changed(p, [chat[p] EXCEPT !.socket = "open", !.says = chat[p].kind = "phone",
                       !.joining = IF chat[p].kind = "inbox" THEN "no" ELSE "again"])

Abandoned(p) ==
    /\ chat[p].socket = "reconnecting"
    /\ Changed(p, [chat[p] EXCEPT !.socket = "closed"])

-----------------------------------------------------------------------------
(* Messages *)

\* Panel and phone offer it while they say that they are connected, the inbox always.
PanelSends(page) == page.kind = "panel" /\ page.says
PhoneSends(page) == page.kind = "phone" /\ page.says
InboxSends(page) == page.kind = "inbox"
CanSend(page) ==
    /\ page.socket = "open"
    /\ PanelSends(page) \/ PhoneSends(page) \/ InboxSends(page)

\* SendMessage: saved and, unless the filter refuses it, pushed next.
SendMessage(p, m) ==
    /\ CanSend(chat[p])
    /\ text[m] = "unsent"
    /\ \E outcome \in {"stored", "blocked"} : text' = [text EXCEPT ![m] = outcome]
    /\ UNCHANGED chat

\* What a page lets its user believe: that it shows all, now and from now on.
Believes(p) ==
    /\ IF chat[p].kind = "panel" THEN chat[p].says ELSE chat[p].joined
    /\ chat[p].socket # "dead"
    /\ chat[p].history # "read"

Push(m) ==
    /\ text[m] = "stored"
    /\ text' = [text EXCEPT ![m] = "pushed"]
    /\ chat' = [p \in Chatters |->
           [chat[p] EXCEPT !.wire = IF chat[p].joined THEN @ \cup {m} ELSE @,
                           !.sure = IF Believes(p) THEN @ \cup {m} ELSE @]]

Receive(p, m) ==
    /\ m \in chat[p].wire
    /\ Changed(p, [chat[p] EXCEPT !.wire = @ \ {m}, !.list = @ \cup {m}])

ChatNext ==
    \/ \E p \in Chatters :
           \/ OpenPanel(p) \/ OpenPhone(p) \/ OpenInbox(p) \/ Unmount(p)
           \/ ReadHistory(p) \/ ShowHistory(p) \/ MissHistory(p)
           \/ Started(p) \/ NotStarted(p) \/ Join(p) \/ JoinRefused(p)
           \/ Break(p) \/ Noticed(p) \/ Reconnected(p) \/ Abandoned(p)
           \/ \E m \in Texts : SendMessage(p, m) \/ Receive(p, m)
    \/ \E m \in Texts : Push(m)

\* A message sent while a page says it is connected is on that page, or on its way, however the
\* history and the pushes cross and however often the connection came back (joinGroup's comment).
\* Not promised, since the code does not do it: a message that comes while the history's answer is
\* on its way is wiped by it, one sent while the connection was down is never fetched, the phone
\* says it is live before it is in the room, and the inbox is in no room after a reconnection.
NothingMissed ==
    \A p \in Chatters : chat[p].sure \subseteq chat[p].list \cup chat[p].wire
=============================================================================
