--------------------------------- MODULE Bell ---------------------------------
(***************************************************************************)
(* The notifications of one user and the number on the phone's bell.  The  *)
(* server saves a notification and then pushes it.  The phone adds one for *)
(* every push, takes one off for every notification it marks, and puts the *)
(* server's count in its place whenever it has asked for it.               *)
(***************************************************************************)
EXTENDS Naturals, FiniteSets

CONSTANTS Notes,    \* bound on the notifications
          Lines,    \* the phone's connections, one after the other
          Asks,     \* bound on the counts asked for at once
          Marks     \* bound on the marks that are not answered at once

VARIABLES
    note,     \* each: none, unread or read
    due,      \* those saved and not pushed yet
    live,     \* the phone's connections that receive
    wire,     \* pushes on their way: <<line, note>>
    badge,    \* unreadCount
    list,     \* what the phone's list shows of each
    ask,      \* the counts asked for: [state, count, crossed]
    mark,     \* the marks not answered: [what, saved], what is a note, all or nothing
    adrift    \* history: the badge may be wrong until its next count

bellVars == <<note, due, live, wire, badge, list, ask, mark, adrift>>

NoAsk == [state |-> "idle", count |-> 0, crossed |-> FALSE]
NoMark == [what |-> "nothing", saved |-> FALSE]

BellInit ==
    /\ note = [n \in Notes |-> "none"]
    /\ due = {} /\ live = {} /\ wire = {} /\ badge = 0
    /\ list = note
    /\ ask = [a \in Asks |-> NoAsk]
    /\ mark = [k \in Marks |-> NoMark]
    /\ adrift = FALSE

Unread == {n \in Notes : note[n] = "unread"}

\* The server has marked all, and the phone is still to put its zero.
AllMarked == [what |-> "all", saved |-> TRUE] \in {mark[k] : k \in Marks}

\* What happens now is not in the counts that were read and not shown yet.
Crossed == [a \in Asks |-> [ask[a] EXCEPT !.crossed = @ \/ ask[a].state = "read"]]

AskCount == \E a \in Asks : ask[a] = NoAsk /\ ask' = [ask EXCEPT ![a].state = "asked"]

-----------------------------------------------------------------------------
(* The server: SendAsync saves, then pushes to whoever is connected *)

SaveNote(n) ==
    /\ note[n] = "none"
    /\ note' = [note EXCEPT ![n] = "unread"]
    /\ due' = due \cup {n}
    /\ ask' = Crossed
    /\ adrift' = (adrift \/ AllMarked)
    /\ UNCHANGED <<live, wire, badge, list, mark>>

PushNote(n) ==
    /\ n \in due
    /\ due' = due \ {n}
    /\ wire' = wire \cup (live \X {n})
    /\ adrift' = (adrift \/ live = {})
    /\ UNCHANGED <<note, live, badge, list, ask, mark>>

\* A row is read on another device, or by the web's bell, which has its own count.
ReadElsewhere(n) ==
    /\ note[n] = "unread"
    /\ note' = [note EXCEPT ![n] = "read"]
    /\ ask' = Crossed
    /\ adrift' = TRUE
    /\ UNCHANGED <<due, live, wire, badge, list, mark>>

-----------------------------------------------------------------------------
(* The phone's connection: one at a time, a new one for every token *)

\* The slip of leaving the former connection open.
KeepLines(l) == live \cup {l}
\* connectHub stops the connection there was.
OnlyLine(l) == {l}

\* useNotificationHub: the count is asked for and the connection made.
Connect(l) ==
    /\ l \notin live
    /\ live' = OnlyLine(l)
    /\ wire' = {w \in wire : w[1] \in live'}
    /\ adrift' = (adrift \/ wire' # wire)
    /\ AskCount
    /\ UNCHANGED <<note, due, badge, list, mark>>

\* Signed out, or the connection is lost with what is on it.
Disconnect ==
    /\ live # {}
    /\ live' = {}
    /\ wire' = {}
    /\ adrift' = (adrift \/ wire # {})
    /\ UNCHANGED <<note, due, badge, list, ask, mark>>

\* The connection comes back by itself: nothing is asked for.
ComeBack(l) ==
    /\ live = {}
    /\ live' = {l}
    /\ UNCHANGED <<note, due, wire, badge, list, ask, mark, adrift>>

ReceiveNote(l, n) ==
    /\ <<l, n>> \in wire
    /\ wire' = wire \ {<<l, n>>}
    /\ badge' = badge + 1
    /\ list' = IF list[n] = "none" THEN [list EXCEPT ![n] = "unread"] ELSE list
    /\ adrift' = (adrift \/ AllMarked)
    /\ UNCHANGED <<note, due, live, ask, mark>>

-----------------------------------------------------------------------------
(* The list and the count *)

\* fetchList: the rows and then the count; when the rows fail, the list is emptied.
FetchList ==
    /\ \/ list' = note /\ AskCount
       \/ list' = [n \in Notes |-> "none"] /\ UNCHANGED ask
    /\ UNCHANGED <<note, due, live, wire, badge, mark, adrift>>

\* A push, or a mark's answer, that the count knows of already is still to be added to it.
ReadCount(a) ==
    /\ ask[a].state = "asked"
    /\ ask' = [ask EXCEPT ![a] =
           [state |-> "read", count |-> Cardinality(Unread),
            crossed |-> wire # {} \/ due # {} \/ \E k \in Marks : mark[k].saved]]
    /\ UNCHANGED <<note, due, live, wire, badge, list, mark, adrift>>

\* fetchUnread: a lost answer changes nothing.
ShowCount(a) ==
    /\ ask[a].state = "read"
    /\ ask' = [ask EXCEPT ![a] = NoAsk]
    /\ \/ UNCHANGED <<badge, adrift>>
       \/ badge' = ask[a].count /\ adrift' = ask[a].crossed
    /\ UNCHANGED <<note, due, live, wire, list, mark>>

-----------------------------------------------------------------------------
(* Marking: one notification, or all that are unread *)

PressNote(k, n) ==
    /\ mark[k] = NoMark
    /\ list[n] = "unread"
    /\ mark' = [mark EXCEPT ![k].what = n]
    /\ UNCHANGED <<note, due, live, wire, badge, list, ask, adrift>>

PressAll(k) ==
    /\ mark[k] = NoMark
    /\ \A j \in Marks : mark[j].what # "all"
    /\ mark' = [mark EXCEPT ![k].what = "all"]
    /\ UNCHANGED <<note, due, live, wire, badge, list, ask, adrift>>

Marked(k) == IF mark[k].what = "all" THEN Notes ELSE {mark[k].what}

\* MarkAsRead and MarkAllAsRead: what is still to be pushed is added by the phone afterwards,
\* what was read already is taken off all the same.
MarkSaved(k) ==
    /\ mark[k].what # "nothing" /\ ~mark[k].saved
    /\ note' = [n \in Notes |-> IF n \in Marked(k) \cap Unread THEN "read" ELSE note[n]]
    /\ mark' = [mark EXCEPT ![k].saved = TRUE]
    /\ ask' = Crossed
    /\ adrift' = \/ adrift
                 \/ Marked(k) \cap (due \cup {w[2] : w \in wire}) # {}
                 \/ mark[k].what \in Notes \ Unread
                 \/ mark[k].what = "all" /\ \E j \in Marks \ {k} : mark[j].saved
                 \/ AllMarked
    /\ UNCHANGED <<due, live, wire, badge, list>>

\* onMarkRead takes one off and asks for the count, onReadAll puts zero.
MarkAnswered(k) ==
    /\ mark[k].saved
    /\ mark' = [mark EXCEPT ![k] = NoMark]
    /\ list' = [n \in Notes |-> IF n \in Marked(k) /\ list[n] # "none" THEN "read" ELSE list[n]]
    /\ IF mark[k].what = "all"
       THEN badge' = 0 /\ UNCHANGED ask
       ELSE badge' = (IF badge > 0 THEN badge - 1 ELSE 0) /\ AskCount
    /\ UNCHANGED <<note, due, live, wire, adrift>>

\* The request or its answer is lost: the phone changes nothing.
MarkLost(k) ==
    /\ mark[k] # NoMark
    /\ mark' = [mark EXCEPT ![k] = NoMark]
    /\ adrift' = (adrift \/ mark[k].saved)
    /\ UNCHANGED <<note, due, live, wire, badge, list, ask>>

BellNext ==
    \/ \E n \in Notes : SaveNote(n) \/ PushNote(n) \/ ReadElsewhere(n)
    \/ \E l \in Lines : Connect(l) \/ ComeBack(l) \/ \E n \in Notes : ReceiveNote(l, n)
    \/ Disconnect \/ FetchList
    \/ \E a \in Asks : ReadCount(a) \/ ShowCount(a)
    \/ \E k \in Marks :
           \/ PressAll(k) \/ MarkSaved(k) \/ MarkAnswered(k) \/ MarkLost(k)
           \/ \E n \in Notes : PressNote(k, n)

-----------------------------------------------------------------------------
\* When nothing is on its way the bell shows how many notifications are unread, although it is
\* counted twice over, by the phone's own sums and by the server (notifications.store), unless
\* since the last count one was pushed to nobody or read elsewhere, or a push or a mark crossed
\* another mark or a count: then the next count that nothing crosses mends it.
BadgeRight ==
    (wire = {} /\ due = {} /\ mark = [k \in Marks |-> NoMark] /\ ~adrift)
        => badge = Cardinality(Unread)
=============================================================================
