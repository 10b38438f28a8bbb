----------------------------- MODULE PanelsProofs -----------------------------
(***************************************************************************)
(* Theorems about the chat, the position, the address book, the profile,   *)
(* the support desk, the limits, the bell and the ratings of Panels, for   *)
(* any number of pages, messages, trips, set-ups, addresses, values,       *)
(* tickets, requests, notifications, loads and scores, and for any limits. *)
(* Each has an inductive invariant of its own; the other panels leave its  *)
(* variables alone.                                                        *)
(***************************************************************************)
EXTENDS Panels, SumsProofs

-------------------------------------------------------------------------------
(* The chat. *)

ChatPages ==
    [kind : {"none", "panel", "phone", "inbox"},
     socket : {"off", "starting", "open", "closed", "dead", "reconnecting"},
     joining : {"no", "first", "again"}, joined : BOOLEAN, says : BOOLEAN,
     history : {"none", "asked", "read", "shown", "failed"}, answer : SUBSET Texts,
     list : SUBSET Texts, wire : SUBSET Texts, sure : SUBSET Texts]

ChatTypes ==
    /\ text \in [Texts -> {"unsent", "stored", "pushed", "blocked"}]
    /\ chat \in [Chatters -> ChatPages]

\* What a page is sure of is in the table; the history that will replace its list has it; and a
\* panel that says it is connected is in the room.
ChatSound(pg) ==
    /\ pg.sure \subseteq Kept
    /\ pg.sure \subseteq pg.list \cup pg.wire
    /\ pg.history = "read" => pg.sure \subseteq pg.answer
    /\ pg.kind = "panel" /\ pg.says /\ pg.socket # "dead" => pg.joined

ChatInv == ChatTypes /\ \A p \in Chatters : ChatSound(chat[p])

\* A page that becomes another sound page, while the table stays, keeps the invariant.
LEMMA ChatPageChanges ==
    ASSUME ChatInv, NEW p \in Chatters, NEW new \in ChatPages, Changed(p, new), ChatSound(new)
    PROVE  ChatInv'
<1>1. text' = text /\ Kept' = Kept
    BY DEF Changed, Kept
<1>2. chat' = [chat EXCEPT ![p] = new] /\ chat \in [Chatters -> ChatPages]
    BY DEF Changed, ChatInv, ChatTypes
<1>3. \A q \in Chatters : ChatSound(chat[q])'
    BY <1>1, <1>2 DEF ChatInv, ChatSound
<1> QED
    BY <1>1, <1>2, <1>3 DEF ChatInv, ChatTypes

\* A page that was closed, or is, is sound.
LEMMA ClosedIsSound ==
    /\ Away \in ChatPages /\ ChatSound(Away)
    /\ \A kind \in {"panel", "phone", "inbox"} :
           Opened(kind) \in ChatPages /\ ChatSound(Opened(kind))
BY DEF Away, Opened, ChatPages, ChatSound

LEMMA HistoryKeeps ==
    ASSUME ChatInv, NEW p \in Chatters, ReadHistory(p) \/ ShowHistory(p) \/ MissHistory(p)
    PROVE  ChatInv'
<1> DEFINE pg == chat[p]
<1>1. pg \in ChatPages /\ ChatSound(pg) /\ Kept \subseteq Texts
    BY DEF ChatInv, ChatTypes, Kept
<1>2. CASE ReadHistory(p)
    <2> DEFINE new == [pg EXCEPT !.history = "read", !.answer = Kept]
    <2>1. new \in ChatPages /\ ChatSound(new)
        BY <1>1, <1>2 DEF ChatPages, ChatSound
    <2> QED
        BY <1>2, <2>1, ChatPageChanges DEF ReadHistory
<1>3. CASE ShowHistory(p)
    <2> DEFINE new == [pg EXCEPT !.history = "shown", !.list = pg.answer, !.answer = {}]
    <2>1. new \in ChatPages /\ ChatSound(new)
        BY <1>1, <1>3 DEF ChatPages, ChatSound, ShowHistory
    <2> QED
        BY <1>3, <2>1, ChatPageChanges DEF ShowHistory
<1>4. CASE MissHistory(p)
    <2> DEFINE new == [pg EXCEPT !.history = "failed", !.answer = {},
                           !.list = IF pg.kind = "inbox" THEN {} ELSE @,
                           !.sure = IF pg.kind = "inbox" THEN {} ELSE @]
    <2>1. new \in ChatPages /\ ChatSound(new)
        BY <1>1, <1>4 DEF ChatPages, ChatSound
    <2> QED
        BY <1>4, <2>1, ChatPageChanges DEF MissHistory
<1> QED
    BY <1>2, <1>3, <1>4

LEMMA ConnectionKeeps ==
    ASSUME ChatInv, NEW p \in Chatters,
           \/ Started(p) \/ NotStarted(p) \/ Join(p) \/ JoinRefused(p)
           \/ Break(p) \/ Noticed(p) \/ Reconnected(p) \/ Abandoned(p)
    PROVE  ChatInv'
<1> DEFINE pg == chat[p]
<1>1. pg \in ChatPages /\ ChatSound(pg)
    BY DEF ChatInv, ChatTypes
<1>2. Changed(p, chat'[p])
    BY DEF Changed, ChatInv, ChatTypes, Started, NotStarted, Abandoned, Join, JoinRefused, Break,
           Noticed, Reconnected
<1>3. chat'[p] \in ChatPages /\ ChatSound(chat'[p])
    <2> USE <1>1 DEF Changed, ChatInv, ChatTypes, ChatPages, ChatSound
    <2>1. CASE Started(p)
        BY <2>1 DEF Started
    <2>2. CASE NotStarted(p) \/ Abandoned(p)
        BY <2>2 DEF NotStarted, Abandoned
    <2>3. CASE Join(p)
        BY <2>3 DEF Join
    <2>4. CASE JoinRefused(p)
        BY <2>4 DEF JoinRefused
    <2>5. CASE Break(p)
        BY <2>5 DEF Break
    <2>6. CASE Noticed(p)
        BY <2>6 DEF Noticed
    <2>7. CASE Reconnected(p)
        BY <2>7 DEF Reconnected
    <2> QED
        BY <2>1, <2>2, <2>3, <2>4, <2>5, <2>6, <2>7
<1> QED
    BY <1>2, <1>3, ChatPageChanges

\* The push reaches whom the page told that it shows all: it is in the room then.
LEMMA PushKeeps ==
    ASSUME ChatInv, NEW m \in Texts, Push(m)
    PROVE  ChatInv'
<1>1. text' = [text EXCEPT ![m] = "pushed"] /\ text[m] = "stored" /\ m \in Kept'
    BY DEF Push, Kept, ChatInv, ChatTypes
<1>2. Kept \subseteq Kept'
    BY <1>1 DEF Kept, ChatInv, ChatTypes
<1>3. ASSUME NEW p \in Chatters
      PROVE  chat'[p] \in ChatPages /\ ChatSound(chat[p])'
    <2>1. chat[p] \in ChatPages /\ ChatSound(chat[p])
        BY DEF ChatInv, ChatTypes
    <2>2. chat'[p] = [chat[p] EXCEPT !.wire = IF chat[p].joined THEN @ \cup {m} ELSE @,
                                     !.sure = IF Believes(p) THEN @ \cup {m} ELSE @]
        BY DEF Push
    <2>3. Believes(p) => chat[p].joined /\ chat[p].history # "read"
        BY <2>1 DEF Believes, ChatSound
    <2>4. chat'[p] \in ChatPages
        <3>1. chat[p].wire \cup {m} \in SUBSET Texts /\ chat[p].sure \cup {m} \in SUBSET Texts
            BY <2>1 DEF ChatPages
        <3> QED
            BY <2>1, <2>2, <3>1 DEF ChatPages
    <2>5. ChatSound(chat[p])'
        BY <1>1, <1>2, <2>1, <2>2, <2>3 DEF ChatPages, ChatSound
    <2> QED
        BY <2>4, <2>5
<1>4. chat' = [p \in Chatters |-> chat'[p]]
    BY DEF Push
<1>5. chat' \in [Chatters -> ChatPages]
    BY <1>3, <1>4
<1>6. text' \in [Texts -> {"unsent", "stored", "pushed", "blocked"}]
    BY <1>1 DEF ChatInv, ChatTypes
<1> QED
    BY <1>3, <1>5, <1>6 DEF ChatInv, ChatTypes

LEMMA MessageKeeps ==
    ASSUME ChatInv, NEW p \in Chatters, NEW m \in Texts, SendMessage(p, m) \/ Receive(p, m)
    PROVE  ChatInv'
<1>1. CASE SendMessage(p, m)
    <2>1. PICK outcome \in {"stored", "blocked"} : text' = [text EXCEPT ![m] = outcome]
        BY <1>1 DEF SendMessage
    <2>2. Kept \subseteq Kept' /\ chat' = chat
        BY <1>1, <2>1 DEF SendMessage, Kept, ChatInv, ChatTypes
    <2> QED
        BY <2>1, <2>2 DEF ChatInv, ChatTypes, ChatSound
<1>2. CASE Receive(p, m)
    <2> DEFINE new == [chat[p] EXCEPT !.wire = @ \ {m}, !.list = @ \cup {m}]
    <2>1. chat[p] \in ChatPages /\ ChatSound(chat[p])
        BY DEF ChatInv, ChatTypes
    <2>2. new \in ChatPages /\ ChatSound(new)
        BY <2>1 DEF ChatPages, ChatSound
    <2> QED
        BY <1>2, <2>2, ChatPageChanges DEF Receive
<1> QED
    BY <1>1, <1>2

LEMMA ChatKeeps == ChatInv /\ ChatNext => ChatInv'
<1> SUFFICES ASSUME ChatInv, ChatNext PROVE ChatInv'
    OBVIOUS
<1>1. ASSUME NEW p \in Chatters, OpenPanel(p) \/ OpenPhone(p) \/ OpenInbox(p) \/ Unmount(p)
      PROVE  ChatInv'
    BY <1>1, ClosedIsSound, ChatPageChanges DEF OpenPanel, OpenPhone, OpenInbox, Unmount
<1> QED
    BY <1>1, HistoryKeeps, ConnectionKeeps, MessageKeeps, PushKeeps DEF ChatNext

\* Every message a page was sure of, for any number of pages and messages, is on the page or on its
\* way to it: the history that replaces the list already has it, the connection that dies takes
\* with it the page's right to be sure, and a panel says it is connected only in the room.
THEOREM ChatMissesNothing == PanelsSpec => []NothingMissed
<1>1. PanelsInit => ChatInv
    BY ClosedIsSound DEF PanelsInit, ChatInit, ChatInv, ChatTypes
<1>2. ChatInv /\ [PanelsNext]_panelVars => ChatInv'
    <2> SUFFICES ASSUME ChatInv, [PanelsNext]_panelVars PROVE ChatInv'
        OBVIOUS
    <2>1. ChatNext \/ UNCHANGED chatVars
        BY DEF PanelsNext, DeskStep, ChatStep, PositionStep, RatingsStep, BellStep, AddressesStep,
               ProfileStep, LimitsStep, panelVars, talkVars
    <2>2. CASE UNCHANGED chatVars
        BY <2>2 DEF chatVars, ChatInv, ChatTypes, ChatSound, Kept
    <2> QED
        BY <2>1, <2>2, ChatKeeps
<1>3. ChatInv => NothingMissed
    BY DEF ChatInv, ChatSound, NothingMissed
<1> QED
    BY <1>1, <1>2, <1>3, PTL DEF PanelsSpec

-------------------------------------------------------------------------------
(* The position: the driver's page with its set-ups and timers, then those who follow. *)

TripOrNone == Trips \cup {NoTrip}
Looks == {"none", "Assigned", "OnWay", "Arrived", "Delivered", "Cancelled"}
TripPages == [kind : {"closed"} \cup DriverKinds, trip : TripOrNone, looks : Looks, sharing : BOOLEAN]
SetUpRows == [trip : TripOrNone, phase : {"unused", "starting", "done", "refused"}]

SharingTypes ==
    /\ page \in TripPages /\ run \in [Runs -> SetUpRows]
    /\ timers \subseteq Runs /\ hurried \subseteq Runs
    /\ current \in Runs \cup {0} /\ ref \in Runs \cup {0}

\* The set-up in force is for the trip the page shares; one that still waits is the one in force,
\* or was hurried; what was never set up has left nothing behind; and of the timers only the
\* hurried are unknown to the clean-up.
CurrentShares == current # 0 => Shares(page) /\ run[current].trip = page.trip
WaitingIsCurrent == \A r \in Runs : run[r].phase = "starting" => r = current \/ r \in hurried
UnusedIsFree ==
    \A r \in Runs : run[r].phase = "unused" => r \notin timers \cup hurried /\ r # current /\ r # ref
RefKnows == \A r \in timers \ hurried : r = ref

SharingInv ==
    /\ SharingTypes /\ CurrentShares /\ WaitingIsCurrent /\ UnusedIsFree /\ RefKnows
    /\ TimersOfTheTrip
    /\ page.kind = "closed" => page.trip = NoTrip

sharingVars == <<page, run, current, timers, ref, hurried>>

\* An effect that is not set up again has the trip, and shares, as before.
LEMMA SameEffect ==
    ASSUME NEW p, ~SetsUpAgain(p)
    PROVE  p.trip = page.trip /\ (Shares(p) <=> Shares(page))
<1>1. Shares(p) \in BOOLEAN /\ Shares(page) \in BOOLEAN
    BY DEF Shares
<1>2. \A c, d : <<p.trip, c>> = <<page.trip, d>> => p.trip = page.trip /\ c = d
    OBVIOUS
<1>3. <<p.trip, Shares(p)>> = <<page.trip, Shares(page)>>
    BY DEF SetsUpAgain
<1>4. p.trip = page.trip /\ Shares(p) = Shares(page)
    BY <1>2, <1>3
<1> QED
    BY <1>1, <1>4

\* The page becomes another one: its timer is cleared, all the others are hurried.
LEMMA BecomesKeeps ==
    ASSUME SharingInv, NEW p \in TripPages, p.kind # "closed", Becomes(p)
    PROVE  SharingInv'
<1>1. page' = p
    BY DEF Becomes
<1>2. CASE ~SetsUpAgain(p)
    <2>1. p.trip = page.trip /\ (Shares(p) <=> Shares(page))
        BY <1>2, SameEffect
    <2>2. UNCHANGED <<run, current, timers, ref, hurried>>
        BY <1>2 DEF Becomes
    <2>3. Shares(page)' <=> Shares(page)
        BY <1>1, <2>1 DEF Shares
    <2>4. CurrentShares' /\ TimersOfTheTrip'
        BY <1>1, <2>1, <2>2, <2>3 DEF SharingInv, CurrentShares, TimersOfTheTrip
    <2> QED
        BY <1>1, <2>2, <2>4 DEF SharingInv, SharingTypes, WaitingIsCurrent, UnusedIsFree, RefKnows
<1>3. CASE SetsUpAgain(p)
    <2>1. /\ hurried' = hurried \cup {r \in Runs : r = current /\ run[r].phase = "starting"}
          /\ Cleared \subseteq hurried /\ Cleared \subseteq timers
        BY <1>3 DEF Becomes, Cleared, SharingInv, RefKnows
    <2>2. \A r \in Runs : run[r].phase = "starting" => r \in hurried'
        BY <2>1 DEF SharingInv, WaitingIsCurrent
    <2>3. CASE ~Shares(p)
        <3>1. current' = 0 /\ timers' = Cleared /\ ref' = 0 /\ run' = run
            BY <1>3, <2>3 DEF Becomes
        <3>2. SharingTypes'
            BY <1>1, <2>1, <3>1 DEF SharingInv, SharingTypes
        <3>3. \A r \in Runs : run[r].phase = "unused" => r \notin hurried' /\ r # 0
            BY <2>1, RunsAssumption DEF SharingInv, UnusedIsFree
        <3> QED
            BY <1>1, <2>1, <2>2, <3>1, <3>2, <3>3 DEF SharingInv, CurrentShares, WaitingIsCurrent,
               UnusedIsFree, RefKnows, TimersOfTheTrip
    <2>4. CASE Shares(p)
        <3> DEFINE row == [trip |-> p.trip, phase |-> IF p.kind = "phone" THEN "starting" ELSE "done"]
        <3>1. PICK r \in Runs :
                  /\ run[r].phase = "unused"
                  /\ run' = [run EXCEPT ![r] = row]
                  /\ current' = r
                  /\ timers' = IF p.kind = "web" THEN Cleared \cup {r} ELSE Cleared
                  /\ ref' = IF p.kind = "web" THEN r ELSE 0
            BY <1>3, <2>4 DEF Becomes
        <3>2. row \in SetUpRows /\ row.phase # "unused" /\ row.trip = p.trip
            BY DEF SetUpRows, TripPages
        <3>3. /\ SharingTypes'
              /\ run'[r] = row /\ \A q \in Runs \ {r} : run'[q] = run[q]
            BY <1>1, <2>1, <3>1, <3>2 DEF SharingInv, SharingTypes
        <3>4. \A q \in Runs : run[q].phase = "unused" => q \notin hurried' /\ q \notin Cleared /\ q # 0
            BY <2>1, RunsAssumption DEF SharingInv, UnusedIsFree
        <3>5. Shares(page)'
            BY <1>1, <2>4 DEF Shares
        <3>6. CurrentShares' /\ WaitingIsCurrent'
            BY <1>1, <2>2, <3>1, <3>2, <3>3, <3>5 DEF CurrentShares, WaitingIsCurrent
        <3>7. UnusedIsFree'
            BY <3>1, <3>2, <3>3, <3>4 DEF UnusedIsFree
        <3>8. RefKnows' /\ TimersOfTheTrip'
            BY <1>1, <2>1, <3>1, <3>2, <3>3, <3>5 DEF RefKnows, TimersOfTheTrip
        <3> QED
            BY <1>1, <3>3, <3>6, <3>7, <3>8 DEF SharingInv
    <2> QED
        BY <2>3, <2>4
<1> QED
    BY <1>2, <1>3

\* The answers of the server and the switch.
LEMMA PageKeeps ==
    ASSUME SharingInv, road \in [Trips -> Looks], FetchTrip \/ RefreshTrip \/ Switch
    PROVE  SharingInv'
<1>1. page \in TripPages /\ (page.kind = "closed" => page.trip = NoTrip)
    BY DEF SharingInv, SharingTypes
<1>2. CASE FetchTrip
    <2>1. PICK p \in TripPages : p.kind = page.kind /\ Becomes(p)
        <3>1. CASE \E t \in Trips : Becomes([page EXCEPT !.trip = t, !.looks = road[t]])
            <4>1. PICK t \in Trips : Becomes([page EXCEPT !.trip = t, !.looks = road[t]])
                BY <3>1
            <4>2. /\ [page EXCEPT !.trip = t, !.looks = road[t]] \in TripPages
                  /\ [page EXCEPT !.trip = t, !.looks = road[t]].kind = page.kind
                BY <1>1 DEF TripPages, TripOrNone
            <4> QED
                BY <4>1, <4>2
        <3>2. CASE Becomes([page EXCEPT !.trip = NoTrip, !.looks = "none"])
            <4>1. /\ [page EXCEPT !.trip = NoTrip, !.looks = "none"] \in TripPages
                  /\ [page EXCEPT !.trip = NoTrip, !.looks = "none"].kind = page.kind
                BY <1>1 DEF TripPages, TripOrNone, Looks
            <4> QED
                BY <3>2, <4>1
        <3> QED
            BY <1>2, <3>1, <3>2 DEF FetchTrip
    <2> QED
        BY <1>2, <2>1, BecomesKeeps DEF FetchTrip
<1>3. CASE RefreshTrip
    <2> DEFINE looks == road[page.trip]
               still == [page EXCEPT !.looks = looks,
                             !.sharing = @ /\ (page.kind = "web" => looks # "Delivered")]
               gone == [page EXCEPT !.trip = NoTrip, !.looks = "none"]
    <2>1. page.kind # "closed" /\ looks \in Looks
        BY <1>1, <1>3 DEF RefreshTrip, TripPages, TripOrNone
    <2>2. still \in TripPages /\ still.kind = page.kind
        BY <1>1, <2>1 DEF TripPages
    <2>3. gone \in TripPages /\ gone.kind = page.kind
        BY <1>1 DEF TripPages, TripOrNone, Looks
    <2>4. Becomes(still) \/ Becomes(gone)
        BY <1>3 DEF RefreshTrip
    <2> QED
        BY <2>1, <2>2, <2>3, <2>4, BecomesKeeps
<1>4. CASE Switch
    <2> DEFINE turned == [page EXCEPT !.sharing = ~page.sharing]
    <2>1. turned \in TripPages /\ turned.kind = page.kind
        BY <1>1 DEF TripPages
    <2> QED
        BY <1>4, <2>1, BecomesKeeps DEF Switch
<1> QED
    BY <1>2, <1>3, <1>4

\* A set-up that is done starts its timer: it is the one in force, or it was hurried, and then the
\* timer it takes the place of is hurried too.
LEMMA BeginKeeps ==
    ASSUME SharingInv, NEW r \in Runs, Begin(r)
    PROVE  SharingInv'
<1>0. PICK phase \in {"done", "refused"} : run' = [run EXCEPT ![r].phase = phase]
    BY DEF Begin
<1>1. /\ run[r].phase = "starting" /\ run[r] \in SetUpRows /\ r # 0
      /\ run' = [run EXCEPT ![r].phase = phase] /\ UNCHANGED <<page, current>>
    BY <1>0, RunsAssumption DEF Begin, SharingInv, SharingTypes
<1>2. /\ run' \in [Runs -> SetUpRows] /\ run'[r].phase = phase /\ run'[r].trip = run[r].trip
      /\ \A q \in Runs \ {r} : run'[q] = run[q]
    <2>1. [run[r] EXCEPT !.phase = phase] \in SetUpRows
        BY <1>1 DEF SetUpRows
    <2>2. run' = [run EXCEPT ![r] = [run[r] EXCEPT !.phase = phase]]
        BY <1>1
    <2>3. run' \in [Runs -> SetUpRows] /\ run'[r] = [run[r] EXCEPT !.phase = phase]
        BY <2>1, <2>2 DEF SharingInv, SharingTypes
    <2>4. run'[r].phase = phase /\ run'[r].trip = run[r].trip
        BY <1>1, <2>3 DEF SetUpRows
    <2> QED
        BY <2>2, <2>3, <2>4 DEF SharingInv, SharingTypes
<1>3. /\ r = current \/ r \in hurried
      /\ \A q \in Runs : run'[q].phase = "unused" => run[q].phase = "unused"
      /\ \A q \in Runs : run'[q].phase = "starting" => run[q].phase = "starting"
      /\ \A q \in Runs : run'[q].trip = run[q].trip
    BY <1>1, <1>2 DEF SharingInv, WaitingIsCurrent
<1>4. (Shares(page))' <=> Shares(page)
    BY <1>1 DEF Shares
<1>5. CurrentShares'
    BY <1>1, <1>3, <1>4 DEF SharingInv, SharingTypes, CurrentShares
<1>6. CASE UNCHANGED <<timers, ref, hurried>>
    BY <1>1, <1>2, <1>3, <1>4, <1>5, <1>6 DEF SharingInv, SharingTypes, WaitingIsCurrent, UnusedIsFree,
       RefKnows, TimersOfTheTrip
<1>7. CASE /\ timers' = timers \cup {r} /\ ref' = r
           /\ hurried' = IF r \in hurried THEN hurried \cup ({ref} \ {0}) ELSE hurried
    <2>1. SharingTypes'
        BY <1>1, <1>2, <1>7 DEF SharingInv, SharingTypes
    <2>2. hurried \subseteq hurried' /\ hurried' \subseteq hurried \cup ({ref} \ {0})
        BY <1>7
    <2>3. WaitingIsCurrent' /\ UnusedIsFree'
        BY <1>1, <1>2, <1>3, <1>7, <2>2 DEF SharingInv, WaitingIsCurrent, UnusedIsFree
    <2>4. CASE r \in hurried
        <3>1. timers' \ hurried' = {}
            BY <1>7, <2>4, RunsAssumption DEF SharingInv, SharingTypes, RefKnows
        <3> QED
            BY <1>1, <1>5, <2>1, <2>3, <3>1 DEF SharingInv, RefKnows, TimersOfTheTrip
    <2>5. CASE r \notin hurried
        <3>1. r = current /\ hurried' = hurried /\ Shares(page) /\ run[r].trip = page.trip
            BY <1>1, <1>3, <1>7, <2>5 DEF SharingInv, CurrentShares
        <3>2. \A q \in timers' \ hurried' : q = r
            BY <1>7, <3>1 DEF SharingInv, TimersOfTheTrip
        <3> QED
            BY <1>1, <1>2, <1>4, <1>5, <1>7, <2>1, <2>3, <3>1, <3>2
               DEF SharingInv, RefKnows, TimersOfTheTrip
    <2> QED
        BY <2>4, <2>5
<1> QED
    BY <1>6, <1>7 DEF Begin

\* The page is opened, and the app leaves the foreground.
LEMMA OpenKeeps == ASSUME SharingInv, OpenTrip \/ Background PROVE SharingInv'
<1>1. CASE OpenTrip
    <2>1. PICK kind \in DriverKinds : page' = [page EXCEPT !.kind = kind, !.sharing = kind = "phone"]
        BY <1>1 DEF OpenTrip
    <2>2. page \in TripPages /\ page.trip = NoTrip /\ UNCHANGED <<run, current, timers, ref, hurried>>
        BY <1>1 DEF OpenTrip, SharingInv, SharingTypes
    <2>3. page' \in TripPages /\ page'.trip = NoTrip
        BY <2>1, <2>2 DEF TripPages
    <2>4. ~Shares(page)
        BY <2>2 DEF Shares
    <2>5. current = 0 /\ timers \ hurried = {}
        BY <2>4 DEF SharingInv, CurrentShares, TimersOfTheTrip
    <2> QED
        BY <2>2, <2>3, <2>5 DEF SharingInv, SharingTypes, CurrentShares, WaitingIsCurrent, UnusedIsFree,
           RefKnows, TimersOfTheTrip
<1>2. CASE Background
    <2>1. /\ timers' = Cleared /\ Cleared \subseteq timers /\ Cleared \subseteq hurried
          /\ ref' = 0 /\ UNCHANGED <<page, run, current, hurried>>
        BY <1>2 DEF Background, Cleared, SharingInv, RefKnows
    <2>2. \A r \in Runs : r # 0
        BY RunsAssumption
    <2> QED
        BY <2>1, <2>2 DEF SharingInv, SharingTypes, CurrentShares, Shares, WaitingIsCurrent, UnusedIsFree,
           RefKnows, TimersOfTheTrip
<1> QED
    BY <1>1, <1>2

-------------------------------------------------------------------------------
(* Those who follow *)

Watches == [kind : {"closed"} \cup WatchKinds, trip : TripOrNone, looks : Looks,
            answer : TripOrNone \cup {"no"}, sees : TripOrNone]

WatchInv ==
    /\ watch \in Watches /\ last \in TripOrNone
    /\ watch.kind = "closed" => watch.looks = "none" /\ watch.answer = "no" /\ watch.sees = NoTrip
    /\ watch.kind # "closed" => watch.trip \in Trips
    /\ watch.answer # "no" => Follows(watch)
    /\ SeenUnderway

LEMMA WatchKeeps ==
    ASSUME WatchInv, road \in [Trips -> Looks], OpenWatch \/ LookAgain \/ AskPosition \/ SeePosition
    PROVE  WatchInv'
<1> USE DEF WatchInv, SeenUnderway, Follows
<1>1. CASE OpenWatch
    <2>1. PICK kind \in WatchKinds, t \in Trips : watch' = [watch EXCEPT !.kind = kind, !.trip = t]
        BY <1>1 DEF OpenWatch
    <2> QED
        BY <1>1, <2>1 DEF OpenWatch, Watches, WatchKinds, TripOrNone
<1>2. CASE LookAgain
    <2> DEFINE w == [watch EXCEPT !.looks = road[watch.trip]]
               dropped == [w EXCEPT !.answer = "no", !.sees = NoTrip]
    <2>1. /\ w \in Watches /\ w.kind = watch.kind /\ w.trip = watch.trip
          /\ w.answer = watch.answer /\ w.sees = watch.sees
        BY <1>2 DEF LookAgain, Watches
    <2>2. /\ dropped \in Watches /\ dropped.kind = watch.kind /\ dropped.trip = watch.trip
          /\ dropped.answer = "no" /\ dropped.sees = NoTrip
        BY <2>1 DEF Watches, TripOrNone
    <2>3. watch.kind # "closed" /\ last' = last /\ watch' = IF Follows(w) THEN w ELSE dropped
        BY <1>2 DEF LookAgain
    <2>4. CASE Follows(w)
        <3>1. watch' = w
            BY <2>3, <2>4
        <3>2. Follows(watch)'
            BY <2>4, <3>1
        <3> QED
            BY <2>1, <2>3, <3>1, <3>2
    <2>5. CASE ~Follows(w)
        BY <2>2, <2>3, <2>5
    <2> QED
        BY <2>4, <2>5
<1>3. CASE AskPosition
    <2>1. watch' = [watch EXCEPT !.answer = last] /\ Follows(watch) /\ last' = last
        BY <1>3 DEF AskPosition
    <2>2. /\ watch' \in Watches /\ watch'.kind = watch.kind /\ watch'.trip = watch.trip
          /\ watch'.looks = watch.looks /\ watch'.sees = watch.sees
        BY <2>1 DEF Watches
    <2>3. watch.kind # "closed"
        BY <2>1 DEF PhoneFollows, WebFollows, AdminFollows, Underway
    <2> QED
        BY <2>1, <2>2, <2>3
<1>4. CASE SeePosition
    <2>1. PICK seen \in {watch.answer, NoTrip} : watch' = [watch EXCEPT !.answer = "no", !.sees = seen]
        BY <1>4 DEF SeePosition
    <2>2. Follows(watch) /\ last' = last /\ seen \in TripOrNone
        BY <1>4, <2>1 DEF SeePosition, Watches, TripOrNone
    <2>3. /\ watch' \in Watches /\ watch'.kind = watch.kind /\ watch'.trip = watch.trip
          /\ watch'.looks = watch.looks /\ watch'.answer = "no"
        BY <2>1, <2>2 DEF Watches
    <2>4. watch.kind # "closed"
        BY <1>4 DEF SeePosition
    <2> QED
        BY <2>2, <2>3, <2>4
<1> QED
    BY <1>1, <1>2, <1>3, <1>4

PositionInv == road \in [Trips -> Looks] /\ SharingInv /\ WatchInv

LEMMA PositionKeeps == PositionInv /\ PositionNext => PositionInv'
<1> SUFFICES ASSUME PositionInv, PositionNext PROVE PositionInv'
    OBVIOUS
<1>1. (UNCHANGED sharingVars) => SharingInv'
    BY DEF PositionInv, sharingVars, SharingInv, SharingTypes, CurrentShares, Shares, WaitingIsCurrent,
           UnusedIsFree, RefKnows, TimersOfTheTrip
<1>2. (watch' = watch /\ last' \in TripOrNone) => WatchInv'
    BY DEF PositionInv, WatchInv, SeenUnderway, Follows
<1>3. last \in TripOrNone
    BY DEF PositionInv, WatchInv
<1>4. ASSUME NEW t \in Trips, Advance(t) PROVE PositionInv'
    <2>1. UNCHANGED sharingVars /\ watch' = watch /\ last' = last
        BY <1>4 DEF Advance, sharingVars
    <2>2. \E next \in Looks : road' = [road EXCEPT ![t] = next]
        BY <1>4 DEF Advance, Looks
    <2> QED
        BY <1>1, <1>2, <1>3, <2>1, <2>2 DEF PositionInv
<1>5. CASE OpenTrip \/ Background
    BY <1>2, <1>3, <1>5, OpenKeeps DEF OpenTrip, Background, PositionInv
<1>6. CASE FetchTrip \/ RefreshTrip \/ Switch
    BY <1>2, <1>3, <1>6, PageKeeps DEF FetchTrip, RefreshTrip, Switch, PositionInv
<1>7. ASSUME NEW r \in Runs, Begin(r) PROVE PositionInv'
    BY <1>2, <1>3, <1>7, BeginKeeps DEF Begin, PositionInv
<1>8. ASSUME NEW r \in Runs, Post(r) PROVE PositionInv'
    <2>1. UNCHANGED sharingVars /\ watch' = watch
        BY <1>8 DEF Post, sharingVars
    <2>2. last' \in TripOrNone
        BY <1>8 DEF Post, PositionInv, SharingInv, SharingTypes, SetUpRows
    <2>3. road' \in [Trips -> Looks]
        <3>1. road' = road \/ road' = [road EXCEPT ![run[r].trip] = "Arrived"]
            BY <1>8 DEF Post
        <3> QED
            BY <3>1 DEF PositionInv, Looks
    <2> QED
        BY <1>1, <1>2, <2>1, <2>2, <2>3 DEF PositionInv
<1>9. CASE OpenWatch \/ LookAgain \/ AskPosition \/ SeePosition
    <2>1. UNCHANGED sharingVars /\ road' = road
        BY <1>9 DEF OpenWatch, LookAgain, AskPosition, SeePosition, sharingVars
    <2> QED
        BY <1>1, <1>9, <2>1, WatchKeeps DEF PositionInv
<1> QED
    BY <1>4, <1>5, <1>6, <1>7, <1>8, <1>9 DEF PositionNext

\* A timer posts only for the trip the page shares, and a follower sees a position only of a load it
\* takes to be under way, for any number of trips and set-ups.
THEOREM PositionOfTheTrip == PanelsSpec => []SharesOnlyTheTrip
<1>1. PanelsInit => PositionInv
    <2> SUFFICES ASSUME PanelsInit PROVE PositionInv
        OBVIOUS
    <2>1. road \in [Trips -> Looks]
        BY DEF PanelsInit, PositionInit, Looks
    <2>2. SharingInv
        BY RunsAssumption DEF PanelsInit, PositionInit, SharingInv, SharingTypes, CurrentShares,
           WaitingIsCurrent, UnusedIsFree, RefKnows, TimersOfTheTrip, TripPages, SetUpRows, TripOrNone, Looks
    <2>3. WatchInv
        BY DEF PanelsInit, PositionInit, WatchInv, Watches, SeenUnderway, TripOrNone, Looks
    <2> QED
        BY <2>1, <2>2, <2>3 DEF PositionInv
<1>2. PositionInv /\ [PanelsNext]_panelVars => PositionInv'
    <2> SUFFICES ASSUME PositionInv, [PanelsNext]_panelVars PROVE PositionInv'
        OBVIOUS
    <2>1. PositionNext \/ UNCHANGED positionVars
        BY DEF PanelsNext, DeskStep, ChatStep, PositionStep, RatingsStep, BellStep, AddressesStep,
               ProfileStep, LimitsStep, panelVars
    <2>2. CASE UNCHANGED positionVars
        BY <2>2 DEF positionVars, PositionInv, SharingInv, SharingTypes, CurrentShares, Shares,
           WaitingIsCurrent, UnusedIsFree, RefKnows, TimersOfTheTrip, WatchInv, SeenUnderway, Follows
    <2> QED
        BY <2>1, <2>2, PositionKeeps
<1>3. PositionInv => SharesOnlyTheTrip
    BY DEF PositionInv, SharingInv, WatchInv, SharesOnlyTheTrip
<1> QED
    BY <1>1, <1>2, <1>3, PTL DEF PanelsSpec

-------------------------------------------------------------------------------
(* The address book. *)

Words == Addresses \cup {Nobody, "company", "blank"}
BookRows == [state : {"unused", "listed", "deleted"}, text : Words, default : BOOLEAN]

BookTypes ==
    /\ book \in [Addresses -> BookRows] /\ phoneList \in [Addresses -> BookRows]
    /\ draft \in [id : Addresses \cup {Nobody}, text : Words, default : BOOLEAN]
    /\ profile \in [open : BOOLEAN, text : Words, firsts : SUBSET Addresses]
    /\ excused \subseteq Addresses /\ overtaken \in BOOLEAN

OneDefault == ~overtaken => \A a, b \in Defaults : a = b

\* The rows, the phone's copies of them, its form and the profile page say of an address what was
\* typed for it, or the address is excused.
Says(rows) == \A a \in Present(rows) : rows[a].text = a \/ a \in excused
DraftFaithful == draft.text = draft.id \/ draft.id \in excused
ProfileFaithful ==
    \A a \in Addresses : profile.firsts = {a} =>
        profile.text \in {Nobody, "company", "blank", a} \/ a \in excused

BookInv ==
    /\ BookTypes /\ OneDefault
    /\ Says(book) /\ Says(phoneList) /\ DraftFaithful /\ ProfileFaithful

\* Where the rows change, the phone keeps its copies or takes the new rows, and its form is as it
\* was or empty.
LEMMA RowsChange ==
    ASSUME BookInv, book' \in [Addresses -> BookRows], Says(book)', OneDefault',
           phoneList' = book' \/ phoneList' = phoneList, draft' = draft \/ draft' = NoDraft,
           profile' = profile, excused \subseteq excused', excused' \subseteq Addresses,
           overtaken' \in BOOLEAN
    PROVE  BookInv'
<1>1. BookTypes'
    <2>1. NoDraft \in [id : Addresses \cup {Nobody}, text : Words, default : BOOLEAN]
        BY DEF NoDraft, Words
    <2> QED
        BY <2>1 DEF BookInv, BookTypes
<1>2. Says(phoneList)'
    BY DEF BookInv, Says, Present
<1>3. DraftFaithful' /\ ProfileFaithful'
    BY DEF BookInv, DraftFaithful, ProfileFaithful, NoDraft
<1> QED
    BY <1>1, <1>2, <1>3 DEF BookInv

\* A page that reads the list again leaves the phone's copies, or makes them the rows.
LEMMA ListIsRows ==
    ASSUME NEW pg, LoadList(pg)
    PROVE  phoneList' = book' \/ phoneList' = phoneList
BY DEF LoadList

\* A new row has the text it was added with, and is marked where there was no row.
LEMMA NewRow ==
    ASSUME BookInv, NEW a \in Addresses, NEW words \in Words, NEW marked \in BOOLEAN,
           New(a, words, marked), words = a \/ a \in excused', marked => Present(book) = {},
           excused \subseteq excused', overtaken' = overtaken
    PROVE  book' \in [Addresses -> BookRows] /\ Says(book)' /\ OneDefault'
<1> DEFINE row == [state |-> "listed", text |-> words, default |-> marked]
<1>1. book' = [book EXCEPT ![a] = row] /\ book \in [Addresses -> BookRows] /\ row \in BookRows
    BY DEF New, BookInv, BookTypes, BookRows
<1>2. book' \in [Addresses -> BookRows]
    BY <1>1
<1>3. book'[a] = row /\ \A b \in Addresses \ {a} : book'[b] = book[b]
    BY <1>1
<1>4. Says(book)'
    BY <1>3 DEF Says, Present, BookInv
<1>5. OneDefault'
    BY <1>3 DEF OneDefault, Defaults, Present, BookInv
<1> QED
    BY <1>2, <1>4, <1>5

LEMMA AddKeeps ==
    ASSUME BookInv, NEW a \in Addresses, AddOnWeb(a) \/ AddOnPhone(a) \/ AddWithLoad(a)
    PROVE  BookInv'
<1>1. New(a, a, FALSE) /\ UNCHANGED <<draft, profile, excused, overtaken>>
    BY DEF AddOnWeb, AddOnPhone, AddWithLoad
<1>2. book' \in [Addresses -> BookRows] /\ Says(book)' /\ OneDefault'
    BY <1>1, NewRow DEF Words
<1>3. phoneList' = book' \/ phoneList' = phoneList
    BY ListIsRows DEF AddOnWeb, AddOnPhone, AddWithLoad
<1> QED
    BY <1>1, <1>2, <1>3, RowsChange DEF BookInv, BookTypes

LEMMA ListKeeps ==
    ASSUME BookInv, NEW pg, Reopen(pg) \/ \E a \in Addresses : Delete(pg, a) \/ MakeDefault(pg, a)
    PROVE  BookInv'
<1>1. /\ UNCHANGED <<profile, excused, overtaken>> /\ draft' \in {draft, NoDraft}
      /\ phoneList' = book' \/ phoneList' = phoneList
    BY ListIsRows DEF Reopen, Delete, MakeDefault
<1>2. CASE book' = book
    <2>1. Says(book)' /\ OneDefault'
        BY <1>1, <1>2 DEF Says, Present, OneDefault, Defaults, BookInv
    <2> QED
        BY <1>1, <1>2, <2>1, RowsChange DEF BookInv, BookTypes
<1>3. CASE \E a \in Addresses : book' = [book EXCEPT ![a] = [NoRow EXCEPT !.state = "deleted"]]
    <2>1. PICK a \in Addresses : book' = [book EXCEPT ![a] = [NoRow EXCEPT !.state = "deleted"]]
        BY <1>3
    <2>2. [NoRow EXCEPT !.state = "deleted"] \in BookRows /\ [NoRow EXCEPT !.state = "deleted"].state = "deleted"
        BY DEF NoRow, BookRows, Words
    <2>3. book' \in [Addresses -> BookRows] /\ \A b \in Addresses \ {a} : book'[b] = book[b]
        BY <2>1, <2>2 DEF BookInv, BookTypes
    <2>4. Present(book') \subseteq Present(book) \ {a}
        BY <2>1, <2>2, <2>3 DEF Present, BookInv, BookTypes
    <2>5. Says(book)' /\ OneDefault'
        BY <1>1, <2>3, <2>4 DEF Says, Present, OneDefault, Defaults, BookInv
    <2> QED
        BY <1>1, <2>3, <2>5, RowsChange DEF BookInv, BookTypes
<1>4. CASE \E a \in Addresses : book' = Only(a)
    <2>1. PICK a \in Addresses : book' = Only(a)
        BY <1>4
    <2>2. \A b \in Addresses : book'[b] = [book[b] EXCEPT !.default = (b = a /\ book[b].state = "listed")]
        BY <2>1 DEF Only
    <2>3. book' \in [Addresses -> BookRows]
        BY <2>1 DEF Only, BookInv, BookTypes, BookRows
    <2>4. ASSUME NEW b \in Addresses
          PROVE  /\ book'[b].state = book[b].state /\ book'[b].text = book[b].text
                 /\ book'[b].default => b = a
        <3>1. book[b] \in BookRows
            BY DEF BookInv, BookTypes
        <3>2. /\ book'[b].state = book[b].state /\ book'[b].text = book[b].text
              /\ book'[b].default = (b = a /\ book[b].state = "listed")
            BY <2>2, <3>1 DEF BookRows
        <3> QED
            BY <3>2
    <2>5. Says(book)' /\ OneDefault'
        BY <1>1, <2>4 DEF Says, Present, OneDefault, Defaults, BookInv
    <2> QED
        BY <1>1, <2>3, <2>5, RowsChange DEF BookInv, BookTypes
<1> QED
    BY <1>2, <1>3, <1>4 DEF Reopen, Delete, MakeDefault

\* Saving an edit moves the text of the form into its row, and brings the old mark back only where
\* that is noted.
LEMMA SaveEditKeeps == ASSUME BookInv, SaveEdit PROVE BookInv'
<1> DEFINE i == draft.id
<1>1. /\ i \in Addresses /\ book \in [Addresses -> BookRows]
      /\ draft.text \in Words /\ draft.default \in BOOLEAN
    BY DEF SaveEdit, Present, BookInv, BookTypes
<1>2. book' = [book EXCEPT ![i].text = draft.text, ![i].default = draft.default]
    BY DEF SaveEdit
<1>3. /\ book'[i] = [book[i] EXCEPT !.text = draft.text, !.default = draft.default]
      /\ \A b \in Addresses \ {i} : book'[b] = book[b]
      /\ book' \in [Addresses -> BookRows]
    BY <1>1, <1>2 DEF BookRows
<1>4. book'[i].state = book[i].state /\ book'[i].text = draft.text /\ book'[i].default = draft.default
    BY <1>1, <1>3 DEF BookRows
<1>5. Says(book)'
    BY <1>3, <1>4 DEF Says, Present, SaveEdit, BookInv, DraftFaithful
<1>6. OneDefault'
    BY <1>3, <1>4 DEF OneDefault, Defaults, Present, SaveEdit, BookInv, BookTypes
<1> QED
    BY <1>3, <1>5, <1>6, ListIsRows, RowsChange DEF SaveEdit, BookInv, BookTypes

\* Saving the profile changes the text of one row, which is what the page showed of that row,
\* unless the row is excused.
LEMMA SaveProfileKeeps == ASSUME BookInv, SaveProfile PROVE BookInv'
<1>1. PICK a \in IF Present(book) = {} THEN Addresses ELSE WrittenFirst :
          /\ IF Present(book) = {} THEN New(a, profile.text, TRUE)
             ELSE book' = [book EXCEPT ![a].text = profile.text]
          /\ excused' = IF profile.text = "company" \/ profile.firsts # ShownFirst
                           \/ Cardinality(ShownFirst) # 1
                        THEN excused \cup {a} ELSE excused
    BY DEF SaveProfile
<1>2. a \in Addresses /\ (Present(book) # {} => a \in ShownFirst)
    BY <1>1 DEF WrittenFirst, ShownFirst, Defaults, Present
<1>3. IsFiniteSet(ShownFirst)
    <2>1. ShownFirst \subseteq Addresses
        BY DEF ShownFirst, Defaults, Present
    <2> QED
        BY <2>1, AddressesAssumption, FS_Subset
<1>4. Cardinality(ShownFirst) = 1 => \E x : ShownFirst = {x}
    BY <1>3, FS_Singleton
<1>5. Present(book) = {} => Cardinality(ShownFirst) # 1
    BY <1>4 DEF ShownFirst, Defaults
<1>6. profile.text = a \/ a \in excused'
    <2>1. CASE a \in excused'
        BY <2>1
    <2>2. CASE a \notin excused'
        <3>1. profile.text # "company" /\ profile.firsts = ShownFirst /\ Cardinality(ShownFirst) = 1
            BY <1>1, <2>2
        <3>2. profile.firsts = {a}
            BY <1>2, <1>4, <1>5, <3>1
        <3>3. a \notin excused
            BY <1>1, <2>2
        <3> QED
            BY <1>2, <3>1, <3>2, <3>3 DEF SaveProfile, BookInv, ProfileFaithful
    <2> QED
        BY <2>1, <2>2
<1>7. excused \subseteq excused' /\ excused' \subseteq Addresses
    BY <1>1, <1>2 DEF BookInv, BookTypes
<1>8. UNCHANGED <<phoneList, draft, profile, overtaken>>
    BY DEF SaveProfile
<1>9. book' \in [Addresses -> BookRows] /\ Says(book)' /\ OneDefault'
    <2>1. CASE Present(book) = {}
        BY <1>1, <1>2, <1>6, <1>7, <1>8, <2>1, NewRow DEF BookInv, BookTypes
    <2>2. CASE Present(book) # {}
        <3>1. book[a] \in BookRows /\ profile.text \in Words /\ book \in [Addresses -> BookRows]
            BY <1>2 DEF BookInv, BookTypes
        <3>2. book' = [book EXCEPT ![a] = [book[a] EXCEPT !.text = profile.text]]
            BY <1>1, <2>2
        <3>3. [book[a] EXCEPT !.text = profile.text] \in BookRows
            BY <3>1 DEF BookRows
        <3>4. /\ book'[a].text = profile.text
              /\ book'[a].state = book[a].state /\ book'[a].default = book[a].default
            BY <1>2, <3>1, <3>2 DEF BookRows
        <3>5. book' \in [Addresses -> BookRows] /\ \A b \in Addresses \ {a} : book'[b] = book[b]
            BY <3>1, <3>2, <3>3
        <3> QED
            BY <1>6, <1>7, <1>8, <3>4, <3>5 DEF Says, OneDefault, Defaults, Present, BookInv
    <2> QED
        BY <2>1, <2>2
<1> QED
    BY <1>7, <1>8, <1>9, RowsChange DEF BookInv, BookTypes

\* What happens on the form and on the profile page alone.
LEMMA PagesKeep ==
    ASSUME BookInv, (\E a \in Addresses : StartEdit(a)) \/ Retype \/ CancelEdit \/ OpenProfile \/ TypeCompany
    PROVE  BookInv'
<1>1. UNCHANGED <<book, phoneList, excused, overtaken>>
    BY DEF StartEdit, Retype, CancelEdit, OpenProfile, TypeCompany
<1>2. Says(book)' /\ Says(phoneList)' /\ OneDefault'
    BY <1>1 DEF BookInv, Says, Present, OneDefault, Defaults
<1>3. BookTypes' /\ DraftFaithful' /\ ProfileFaithful'
    <2> USE <1>1 DEF BookInv, BookTypes, DraftFaithful, ProfileFaithful
    <2>1. ASSUME NEW a \in Addresses, StartEdit(a)
          PROVE  BookTypes' /\ DraftFaithful' /\ ProfileFaithful'
        BY <2>1 DEF StartEdit, Says, Present, BookRows
    <2>2. CASE Retype
        BY <2>2 DEF Retype, NoDraft, Words
    <2>3. CASE CancelEdit
        BY <2>3 DEF CancelEdit, NoDraft, Words
    <2>4. CASE OpenProfile
        <3>1. ShownFirst \subseteq Present(book) /\ Present(book) \subseteq Addresses
            BY DEF ShownFirst, Defaults, Present
        <3>2. PICK words \in IF ShownFirst = {} THEN {Nobody} ELSE {book[a].text : a \in ShownFirst} :
                  profile' = [open |-> TRUE, text |-> words, firsts |-> ShownFirst]
            BY <2>4 DEF OpenProfile
        <3>3. words \in Words
            BY <3>1, <3>2 DEF Words, BookRows
        <3>4. \A a \in Addresses : ShownFirst = {a} => words = a \/ a \in excused
            BY <3>1, <3>2 DEF Says
        <3>5. draft' = draft
            BY <2>4 DEF OpenProfile
        <3> QED
            BY <3>1, <3>2, <3>3, <3>4, <3>5
    <2>5. CASE TypeCompany
        BY <2>5 DEF TypeCompany, Words
    <2> QED
        BY <2>1, <2>2, <2>3, <2>4, <2>5
<1> QED
    BY <1>2, <1>3 DEF BookInv

\* The address book of any number of addresses: one default address at most, and every address with
\* its own text, but for what the two histories say.
THEOREM BookStaysInOrder == PanelsSpec => []BookInOrder
<1>1. PanelsInit => BookInv
    <2> SUFFICES ASSUME PanelsInit PROVE BookInv
        OBVIOUS
    <2>1. NoRow \in BookRows /\ NoRow.state = "unused"
        BY DEF NoRow, BookRows, Words
    <2>2. BookTypes
        BY <2>1 DEF PanelsInit, BookInit, BookTypes, NoDraft, Words
    <2> QED
        BY <2>1, <2>2 DEF PanelsInit, BookInit, BookInv, OneDefault, Defaults, Says, Present,
                          DraftFaithful, ProfileFaithful, NoDraft
<1>2. BookInv /\ [PanelsNext]_panelVars => BookInv'
    <2> SUFFICES ASSUME BookInv, [PanelsNext]_panelVars PROVE BookInv'
        OBVIOUS
    <2>1. BookNext \/ UNCHANGED bookVars
        BY DEF PanelsNext, DeskStep, ChatStep, PositionStep, RatingsStep, BellStep, AddressesStep,
               ProfileStep, LimitsStep, panelVars, ownVars
    <2>2. CASE UNCHANGED bookVars
        BY <2>2 DEF bookVars, BookInv, BookTypes, OneDefault, Defaults, Says, Present,
                    DraftFaithful, ProfileFaithful
    <2>3. CASE BookNext
        BY <2>3, AddKeeps, ListKeeps, SaveEditKeeps, SaveProfileKeeps, PagesKeep DEF BookNext
    <2> QED
        BY <2>1, <2>2, <2>3
<1>3. BookInv => BookInOrder
    <2> SUFFICES ASSUME BookInv PROVE BookInOrder
        OBVIOUS
    <2>1. ASSUME \A a, b \in Defaults : a = b PROVE Cardinality(Defaults) <= 1
        <3>1. Defaults = {} \/ \E a : Defaults = {a}
            BY <2>1
        <3>2. CASE Defaults = {}
            BY <3>2, FS_EmptySet
        <3>3. CASE \E a : Defaults = {a}
            BY <3>3, FS_Singleton
        <3> QED
            BY <3>1, <3>2, <3>3
    <2> QED
        BY <2>1 DEF BookInv, BookInOrder, OneDefault, Says
<1> QED
    BY <1>1, <1>2, <1>3, PTL DEF PanelsSpec

-------------------------------------------------------------------------------
(* The profile. *)

Kinds == Values \cup {Empty, "masked"}

ProfileTypes ==
    /\ column \in [Fields -> Kinds] /\ wish \in [Fields -> Kinds]
    /\ sheet \in [Sheets -> [open : BOOLEAN, shows : [Fields -> Kinds], typed : SUBSET Fields,
                             stale : BOOLEAN]]
    /\ reverted \subseteq Fields

\* A page that is not behind shows the column where nothing was typed, or nothing, or hides it.
ShowsColumn ==
    \A p \in Sheets : sheet[p].open /\ ~sheet[p].stale => \A f \in Fields \ sheet[p].typed :
        \/ sheet[p].shows[f] \in {column[f], Empty}
        \/ f = "iban" /\ sheet[p].shows[f] = "masked"

ProfileInv == ProfileTypes /\ ShowsColumn /\ TypedStays

LEMMA OpenSheetKeeps ==
    ASSUME ProfileInv, NEW p \in Sheets, OpenSheet(p)
    PROVE  ProfileInv'
<1> DEFINE new == [Unopened EXCEPT !.open = TRUE, !.shows = Masked]
<1>1. sheet' = [sheet EXCEPT ![p] = new] /\ UNCHANGED <<column, wish, reverted>>
    BY DEF OpenSheet
<1>2. /\ Masked \in [Fields -> Kinds]
      /\ \A f \in Fields : Masked[f] = column[f] \/ (f = "iban" /\ Masked[f] = "masked") \/ Masked[f] = Empty
    BY DEF Masked, Fields, Kinds, ProfileInv, ProfileTypes
<1>3. ProfileTypes'
    <2>1. new \in [open : BOOLEAN, shows : [Fields -> Kinds], typed : SUBSET Fields, stale : BOOLEAN]
        BY <1>2 DEF Unopened
    <2> QED
        BY <1>1, <2>1 DEF ProfileInv, ProfileTypes
<1>4. ShowsColumn'
    <2>1. new.shows = Masked
        BY DEF Unopened
    <2> QED
        BY <1>1, <1>2, <2>1 DEF ProfileInv, ProfileTypes, ShowsColumn
<1> QED
    BY <1>1, <1>3, <1>4 DEF ProfileInv, TypedStays

LEMMA TypeKeeps ==
    ASSUME ProfileInv, NEW p \in Sheets, NEW f \in Fields, NEW v \in Values \cup {Empty}, Type(p, f, v)
    PROVE  ProfileInv'
<1> DEFINE s == sheet[p]
<1>1. /\ sheet' = [sheet EXCEPT ![p].shows[f] = v, ![p].typed = @ \cup {f}]
      /\ UNCHANGED <<column, wish, reverted>>
    BY DEF Type
<1>2. s \in [open : BOOLEAN, shows : [Fields -> Kinds], typed : SUBSET Fields, stale : BOOLEAN]
    BY DEF ProfileInv, ProfileTypes
<1>3. /\ sheet'[p] = [s EXCEPT !.shows[f] = v, !.typed = @ \cup {f}]
      /\ \A q \in Sheets \ {p} : sheet'[q] = sheet[q]
    BY <1>1 DEF ProfileInv, ProfileTypes
<1>4. sheet'[p] = [open |-> s.open, shows |-> [s.shows EXCEPT ![f] = v],
                   typed |-> s.typed \cup {f}, stale |-> s.stale]
    BY <1>2, <1>3
<1>5. ProfileTypes'
    <2>1. sheet'[p] \in [open : BOOLEAN, shows : [Fields -> Kinds], typed : SUBSET Fields, stale : BOOLEAN]
        BY <1>2, <1>4 DEF Kinds
    <2> QED
        BY <1>1, <2>1, <1>3 DEF ProfileInv, ProfileTypes
<1>6. ShowsColumn'
    <2> SUFFICES ASSUME NEW q \in Sheets, sheet'[q].open, ~sheet'[q].stale,
                        NEW g \in Fields \ sheet'[q].typed
                 PROVE  sheet'[q].shows[g] \in {column[g], Empty} \/ (g = "iban" /\ sheet'[q].shows[g] = "masked")
        BY <1>1 DEF ShowsColumn
    <2>1. CASE q # p
        BY <1>3, <2>1 DEF ProfileInv, ShowsColumn
    <2>2. CASE q = p
        <3>1. s.open /\ ~s.stale /\ g \notin s.typed /\ g # f
            BY <1>4, <2>2
        <3>2. sheet'[q].shows[g] = s.shows[g]
            BY <1>2, <1>4, <2>2, <3>1
        <3> QED
            BY <3>1, <3>2 DEF ProfileInv, ShowsColumn
    <2> QED
        BY <2>1, <2>2
<1> QED
    BY <1>1, <1>5, <1>6 DEF ProfileInv, TypedStays

\* What is sent and was not typed is what the column has, or the page was behind: then it is noted.
LEMMA SaveKeeps ==
    ASSUME ProfileInv, NEW p \in Sheets, Save(p)
    PROVE  ProfileInv'
<1> DEFINE s == sheet[p]
<1>1. /\ s \in [open : BOOLEAN, shows : [Fields -> Kinds], typed : SUBSET Fields, stale : BOOLEAN]
      /\ s.open /\ s.shows["iban"] # "masked"
      /\ column \in [Fields -> Kinds] /\ wish \in [Fields -> Kinds] /\ reverted \subseteq Fields
    BY DEF Save, Takes, ProfileInv, ProfileTypes
<1>2. /\ column' = [f \in Fields |-> IF f \in Sent(p) THEN s.shows[f] ELSE column[f]]
      /\ wish' = [f \in Fields |-> IF f \in Sent(p) \cap s.typed THEN s.shows[f] ELSE wish[f]]
      /\ reverted' = (reverted \cup (IF s.stale THEN Sent(p) \ s.typed ELSE {})) \ (Sent(p) \cap s.typed)
      /\ sheet' = [q \in Sheets |-> IF q = p THEN [sheet[q] EXCEPT !.typed = {}, !.stale = FALSE]
                                    ELSE [sheet[q] EXCEPT !.stale = TRUE]]
    BY DEF Save
<1>3. sheet'[p] = [open |-> s.open, shows |-> s.shows, typed |-> {}, stale |-> FALSE]
    BY <1>1, <1>2
<1>4. \A q \in Sheets \ {p} : /\ sheet'[q].stale = TRUE
                              /\ sheet'[q] \in [open : BOOLEAN, shows : [Fields -> Kinds],
                                                 typed : SUBSET Fields, stale : BOOLEAN]
    BY <1>2 DEF ProfileInv, ProfileTypes
<1>5. ProfileTypes'
    <2>1. sheet' \in [Sheets -> [open : BOOLEAN, shows : [Fields -> Kinds], typed : SUBSET Fields,
                                 stale : BOOLEAN]]
        BY <1>1, <1>2, <1>3, <1>4
    <2>2. column' \in [Fields -> Kinds] /\ wish' \in [Fields -> Kinds] /\ reverted' \subseteq Fields
        BY <1>1, <1>2 DEF Sent
    <2> QED
        BY <2>1, <2>2 DEF ProfileTypes
<1>6. ShowsColumn'
    BY <1>1, <1>2, <1>3, <1>4 DEF ShowsColumn, Sent
<1>7. ASSUME NEW f \in Fields, f \notin reverted'
      PROVE  column'[f] = wish'[f]
    <2>1. CASE f \in Sent(p) \cap s.typed
        BY <1>2, <2>1
    <2>2. CASE f \notin Sent(p)
        BY <1>2, <1>7, <2>2 DEF ProfileInv, TypedStays
    <2>3. CASE f \in Sent(p) \ s.typed
        <3>1. ~s.stale /\ f \notin reverted /\ s.shows[f] # Empty
            BY <1>1, <1>2, <1>7, <2>3 DEF Sent
        <3>2. s.shows[f] = column[f]
            BY <1>1, <2>3, <3>1 DEF ProfileInv, ShowsColumn
        <3> QED
            BY <1>2, <2>3, <3>1, <3>2 DEF ProfileInv, TypedStays
    <2> QED
        BY <2>1, <2>2, <2>3
<1> QED
    BY <1>5, <1>6, <1>7 DEF ProfileInv, TypedStays

\* What a driver typed and saved stays, for any values: a page that is not behind sends back what
\* the column has, and a hidden number is refused.
THEOREM ProfileKeepsTyped == PanelsSpec => []TypedStays
<1>1. PanelsInit => ProfileInv
    <2>1. ProfileInit => ProfileTypes
        BY DEF ProfileInit, ProfileTypes, Unopened, Kinds
    <2> QED
        BY <2>1 DEF PanelsInit, ProfileInit, ProfileInv, ShowsColumn, TypedStays, Unopened
<1>2. ProfileInv /\ [PanelsNext]_panelVars => ProfileInv'
    <2> SUFFICES ASSUME ProfileInv, [PanelsNext]_panelVars PROVE ProfileInv'
        OBVIOUS
    <2>1. ProfileNext \/ UNCHANGED profileVars
        BY DEF PanelsNext, DeskStep, ChatStep, PositionStep, RatingsStep, BellStep, AddressesStep,
               ProfileStep, LimitsStep, panelVars, ownVars
    <2>2. CASE UNCHANGED profileVars
        BY <2>2 DEF profileVars, ProfileInv, ProfileTypes, ShowsColumn, TypedStays
    <2>3. CASE ProfileNext
        BY <2>3, OpenSheetKeeps, SaveKeeps, TypeKeeps DEF ProfileNext
    <2> QED
        BY <2>1, <2>2, <2>3
<1>3. ProfileInv => TypedStays
    BY DEF ProfileInv
<1> QED
    BY <1>1, <1>2, <1>3, PTL DEF PanelsSpec

-------------------------------------------------------------------------------
(* The support desk. *)

DeskShape ==
    /\ thread = [p \in Threads |-> [selected |-> thread[p].selected, shown |-> thread[p].shown,
                                    waits |-> thread[p].waits]]
    /\ polled = [p \in Threads |-> polled[p]]

\* The answer to a poll is about the selected ticket: selecting another one drops it.
PollsSelected ==
    \A p \in Threads : polled[p] # NoOne => polled[p].ticket = thread[p].selected

DeskInv == DeskShape /\ PollsSelected /\ WritesWhatItShows

\* A page that becomes another one keeps the invariant if what it shows and polls is about the
\* ticket it has selected, or it is known to be displaced.
LEMMA ThreadChanges ==
    ASSUME DeskInv, NEW p \in Threads, NEW selected, NEW shown, NEW waits, NEW answer,
           thread' = [thread EXCEPT ![p] =
                         [selected |-> selected, shown |-> shown, waits |-> waits]],
           polled' = [polled EXCEPT ![p] = answer],
           displaced \ {p} \subseteq displaced',
           answer # NoOne => answer.ticket = selected,
           shown # NoOne => shown.ticket = selected \/ p \in displaced'
    PROVE  DeskInv'
<1>1. DeskShape'
    BY DEF DeskInv, DeskShape
<1>2. PollsSelected'
    BY DEF DeskInv, DeskShape, PollsSelected
<1>3. WritesWhatItShows'
    BY DEF DeskInv, DeskShape, WritesWhatItShows
<1> QED
    BY <1>1, <1>2, <1>3 DEF DeskInv

LEMMA SelectStays ==
    ASSUME DeskInv, NEW p \in Threads, NEW t \in Tickets, Select(p, t)
    PROVE  DeskInv'
<1>1. /\ thread' = [thread EXCEPT ![p] =
                       [selected |-> t, shown |-> NoOne, waits |-> OwnRequest(p)]]
      /\ polled' = [polled EXCEPT ![p] = NoOne]
      /\ displaced \ {p} \subseteq displaced'
    BY DEF Select
<1> QED
    BY <1>1, ThreadChanges

\* A request sent or given up changes only what the page waits for.
LEMMA WaitStays ==
    ASSUME DeskInv, NEW p \in Threads, NEW c, thread' = [thread EXCEPT ![p].waits = c],
           UNCHANGED <<polled, displaced>>
    PROVE  DeskInv'
<1>1. DeskShape'
    BY DEF DeskInv, DeskShape
<1>2. \A q \in Threads : /\ thread'[q].selected = thread[q].selected
                         /\ thread'[q].shown = thread[q].shown
    BY DEF DeskInv, DeskShape
<1> QED
    BY <1>1, <1>2 DEF DeskInv, PollsSelected, WritesWhatItShows

LEMMA PollStays ==
    ASSUME DeskInv, NEW p \in Threads, Poll(p)
    PROVE  DeskInv'
BY DEF Poll, DeskInv, DeskShape, PollsSelected, WritesWhatItShows

LEMMA ShowStays ==
    ASSUME DeskInv, NEW p \in Threads, Show(p)
    PROVE  DeskInv'
<1>1. thread' = [thread EXCEPT ![p] = [selected |-> thread[p].selected, shown |-> polled[p],
                                       waits |-> thread[p].waits]]
    <2>1. thread[p] = [selected |-> thread[p].selected, shown |-> thread[p].shown,
                       waits |-> thread[p].waits]
        BY DEF DeskInv, DeskShape
    <2>2. [thread[p] EXCEPT !.shown = polled[p]]
              = [selected |-> thread[p].selected, shown |-> polled[p], waits |-> thread[p].waits]
        BY <2>1
    <2>3. thread' = [thread EXCEPT ![p] = [thread[p] EXCEPT !.shown = polled[p]]]
        BY DEF Show
    <2> QED
        BY <2>2, <2>3
<1>2. polled' = [polled EXCEPT ![p] = NoOne] /\ displaced \ {p} \subseteq displaced'
    BY DEF Show
<1>3. polled[p] # NoOne => polled[p].ticket = thread[p].selected
    BY DEF DeskInv, PollsSelected
<1> QED
    BY <1>1, <1>2, <1>3, ThreadChanges

LEMMA AnswerStays ==
    ASSUME DeskInv, NEW p \in Threads, Answer(p)
    PROVE  DeskInv'
<1>1. PICK c \in Calls :
        /\ thread' = [thread EXCEPT ![p] =
               IF call[c].kind = "create"
               THEN [selected |-> call[c].ticket, shown |-> NoOne, waits |-> NoOne]
               ELSE [selected |-> @.selected, waits |-> NoOne,
                     shown |-> [ticket |-> call[c].ticket, status |-> call[c].seen]]]
        /\ polled' = IF call[c].kind = "create" THEN [polled EXCEPT ![p] = NoOne] ELSE polled
        /\ displaced' = IF call[c].kind # "create" /\ call[c].ticket # thread[p].selected
                        THEN displaced \cup {p} ELSE displaced \ {p}
    BY DEF Answer
<1>2. CASE call[c].kind = "create"
    <2>1. /\ thread' = [thread EXCEPT ![p] =
                           [selected |-> call[c].ticket, shown |-> NoOne, waits |-> NoOne]]
          /\ polled' = [polled EXCEPT ![p] = NoOne]
          /\ displaced \ {p} \subseteq displaced'
        BY <1>1, <1>2
    <2> QED
        BY <2>1, ThreadChanges
<1>3. CASE call[c].kind # "create"
    <2> DEFINE answer == [ticket |-> call[c].ticket, status |-> call[c].seen]
    <2>1. /\ thread' = [thread EXCEPT ![p] =
                           [selected |-> thread[p].selected, shown |-> answer, waits |-> NoOne]]
          /\ polled' = [polled EXCEPT ![p] = polled[p]]
        BY <1>1, <1>3 DEF DeskInv, DeskShape
    <2>2. displaced \ {p} \subseteq displaced' /\ (answer.ticket = thread[p].selected \/ p \in displaced')
        BY <1>1, <1>3
    <2>3. polled[p] # NoOne => polled[p].ticket = thread[p].selected
        BY DEF DeskInv, PollsSelected
    <2> QED
        BY <2>1, <2>2, <2>3, ThreadChanges
<1> QED
    BY <1>2, <1>3

\* A page shows the thread of the ticket its message box writes to, for any pages, tickets and
\* requests, unless an answer of its own overtook a selection: polls never bring that about.
THEOREM DeskWritesWhatItShows == PanelsSpec => []WritesWhatItShows
<1>1. PanelsInit => DeskInv
    BY DEF PanelsInit, DeskInit, DeskInv, DeskShape, PollsSelected, WritesWhatItShows
<1>2. DeskInv /\ [PanelsNext]_panelVars => DeskInv'
    <2> SUFFICES ASSUME DeskInv, [PanelsNext]_panelVars PROVE DeskInv'
        OBVIOUS
    <2>1. DeskNext \/ UNCHANGED deskVars
        BY DEF PanelsNext, DeskStep, ChatStep, PositionStep, RatingsStep, BellStep, AddressesStep,
               ProfileStep, LimitsStep, panelVars, talkVars
    <2>2. CASE UNCHANGED <<thread, polled, displaced>>
        BY <2>2 DEF DeskInv, DeskShape, PollsSelected, WritesWhatItShows
    <2>3. CASE UNCHANGED deskVars
        BY <2>2, <2>3 DEF deskVars
    <2>4. CASE DeskNext
        <3>1. ASSUME NEW p \in Threads, NEW t \in Tickets, NEW kind, Send(p, t, kind) PROVE DeskInv'
            BY <3>1, WaitStays DEF Send
        <3>2. ASSUME NEW p \in Threads, NEW kind, Press(p, kind) PROVE DeskInv'
            BY <3>2, WaitStays DEF Press, Send
        <3>3. ASSUME NEW p \in Threads, GiveUp(p) PROVE DeskInv'
            BY <3>3, WaitStays DEF GiveUp
        <3>4. ASSUME NEW c \in Calls, LoadTicket(c) \/ SaveTicket(c) PROVE DeskInv'
            BY <2>2, <3>4 DEF LoadTicket, SaveTicket
        <3> QED
            BY <2>4, <3>1, <3>2, <3>3, <3>4, SelectStays, PollStays, ShowStays, AnswerStays
               DEF DeskNext, StartTicket
    <2> QED
        BY <2>1, <2>3, <2>4
<1>3. DeskInv => WritesWhatItShows
    BY DEF DeskInv
<1> QED
    BY <1>1, <1>2, <1>3, PTL DEF PanelsSpec

\* What waits for a person.  A message on a ticket is that of one request for it, which has loaded the
\* ticket; a request that nothing overtook since has read the ticket as it is, and its message comes
\* after those that are in the table.
Authors == {"User", "Admin", "Notice", "Resolution"}

WaitShape ==
    /\ DOMAIN ticket = Tickets
    /\ said \in [Tickets -> Seq(Authors \X Calls)]
    /\ call = [c \in Calls |->
           [page |-> call[c].page, ticket |-> call[c].ticket, kind |-> call[c].kind,
            phase |-> call[c].phase, seen |-> call[c].seen, human |-> call[c].human,
            late |-> call[c].late]]

At(t, i) == said[t][i][2]

OneMessageEach ==
    /\ \A t \in Tickets : \A i \in DOMAIN said[t] :
           /\ call[At(t, i)].ticket = t
           /\ call[At(t, i)].phase \in {"loaded", "saved"}
           /\ said[t][i][1] = Author(At(t, i))
    /\ \A t \in Tickets : \A i, j \in DOMAIN said[t] : At(t, i) = At(t, j) => i = j
    /\ \A c \in Calls :
           call[c].phase = "loaded" /\ call[c].ticket \in Tickets =>
               \E i \in DOMAIN said[call[c].ticket] : At(call[c].ticket, i) = c

InTime(c) == call[c].phase = "loaded" /\ call[c].late # TRUE

ReadAsItIs ==
    \A t \in Tickets : \A c \in Calls :
        call[c].ticket = t /\ InTime(c) =>
            /\ call[c].seen = ticket[t]
            /\ call[c].human = TRUE <=> HumanMode(t)
            /\ \A i \in InTable(t), k \in DOMAIN said[t] : At(t, k) = c => i < k

WaitInv == WaitShape /\ OneMessageEach /\ ReadAsItIs /\ WaitingIsListed

\* Steps that leave the tickets' messages and the requests at work on them alone.
LEMMA WaitKept ==
    ASSUME WaitInv, UNCHANGED <<ticket, said, overlapped>>, WaitShape',
           \A c \in Calls : call'[c] = call[c] \/ (call[c].phase = "free" /\ call'[c].phase = "sent")
    PROVE  WaitInv'
<1> USE DEF WaitInv
<1>1. \A t \in Tickets : \A i \in DOMAIN said[t] : At(t, i) \in Calls /\ call'[At(t, i)] = call[At(t, i)]
    BY DEF OneMessageEach, WaitShape, At
<1>2. \A t \in Tickets : InTable(t)' = InTable(t)
    BY <1>1 DEF InTable, At
<1>3. \A t \in Tickets : /\ HumanMode(t)' <=> HumanMode(t)
                         /\ \A i \in InTable(t) : Awaits(t, i)' <=> Awaits(t, i)
    BY <1>2 DEF HumanMode, Awaits
<1>4. OneMessageEach'
    BY <1>1 DEF OneMessageEach, Author, At
<1>5. ReadAsItIs'
    <2> SUFFICES ASSUME NEW t \in Tickets, NEW c \in Calls, call'[c].ticket = t, InTime(c)'
                 PROVE  /\ call'[c].seen = ticket[t]
                        /\ call'[c].human = TRUE <=> HumanMode(t)'
                        /\ \A i \in InTable(t)', k \in DOMAIN said'[t] : At(t, k)' = c => i < k
        BY DEF ReadAsItIs
    <2>1. call'[c] = call[c]
        BY DEF InTime
    <2>2. InTime(c) /\ call[c].ticket = t
        BY <2>1 DEF InTime
    <2> QED
        BY <1>2, <1>3, <2>1, <2>2 DEF ReadAsItIs, At
<1>6. WaitingIsListed'
    BY <1>2, <1>3 DEF WaitingIsListed
<1> QED
    BY <1>4, <1>5, <1>6

LEMMA SendKeepsWaiting ==
    ASSUME WaitInv, NEW p, NEW t, NEW kind, Send(p, t, kind)
    PROVE  WaitInv'
<1>1. PICK c \in Calls :
          /\ call[c] = Unused
          /\ call' = [call EXCEPT ![c] =
                 [Unused EXCEPT !.page = p, !.ticket = t, !.kind = kind, !.phase = "sent"]]
    BY DEF Send
<1> DEFINE new == [Unused EXCEPT !.page = p, !.ticket = t, !.kind = kind, !.phase = "sent"]
<1>2. call' = [call EXCEPT ![c] = new]
    BY <1>1
<1>3. Unused = [page |-> Unused.page, ticket |-> Unused.ticket, kind |-> Unused.kind,
                phase |-> Unused.phase, seen |-> Unused.seen, human |-> Unused.human,
                late |-> Unused.late]
    BY DEF Unused
<1>4. new = [Unused EXCEPT !.page = p, !.ticket = t, !.kind = kind, !.phase = "sent"]
    OBVIOUS
<1> HIDE DEF new
<1>5. /\ new = [page |-> new.page, ticket |-> new.ticket, kind |-> new.kind, phase |-> new.phase,
                seen |-> new.seen, human |-> new.human, late |-> new.late]
      /\ new.phase = "sent"
    BY <1>3, <1>4
<1>6. WaitShape'
    BY <1>2, <1>5 DEF WaitInv, WaitShape, Send
<1>7. call[c].phase = "free"
    <2>1. Unused.phase = "free"
        BY DEF Unused
    <2> QED
        BY <1>1, <2>1
<1>8. \A d \in Calls : call'[d] = call[d] \/ (call[d].phase = "free" /\ call'[d].phase = "sent")
    <2>1. DOMAIN call = Calls
        BY DEF WaitInv, WaitShape
    <2>2. call'[c] = new /\ \A d \in Calls \ {c} : call'[d] = call[d]
        BY <1>2, <2>1
    <2> QED
        BY <1>5, <1>7, <2>2
<1> QED
    BY <1>6, <1>8, WaitKept DEF Send

LEMMA LoadKeepsWaiting ==
    ASSUME WaitInv, NEW c \in Calls, LoadTicket(c)
    PROVE  WaitInv'
<1> USE DEF WaitInv
<1>1. PICK t : t = call[c].ticket
    OBVIOUS
<1> DEFINE new == [call[c] EXCEPT !.phase = "loaded", !.seen = ticket[t], !.human = HumanMode(t)]
<1>2. /\ call[c].phase = "sent"
      /\ call' = [call EXCEPT ![c] = new]
      /\ said' = [said EXCEPT ![t] = Append(@, <<Author(c), c>>)]
      /\ UNCHANGED <<ticket, overlapped>>
    BY <1>1 DEF LoadTicket
<1>3. /\ new = [page |-> new.page, ticket |-> new.ticket, kind |-> new.kind, phase |-> new.phase,
                seen |-> new.seen, human |-> new.human, late |-> new.late]
      /\ new.page = call[c].page /\ new.kind = call[c].kind /\ new.ticket = t
      /\ new.phase = "loaded" /\ new.seen = ticket[t] /\ new.late = call[c].late
      /\ new.human = HumanMode(t)
    <2>1. ASSUME NEW r, r = [page |-> r.page, ticket |-> r.ticket, kind |-> r.kind, phase |-> r.phase,
                             seen |-> r.seen, human |-> r.human, late |-> r.late],
                 NEW human, NEW seen,
                 NEW n, n = [r EXCEPT !.phase = "loaded", !.seen = seen, !.human = human]
          PROVE  /\ n = [page |-> n.page, ticket |-> n.ticket, kind |-> n.kind, phase |-> n.phase,
                         seen |-> n.seen, human |-> n.human, late |-> n.late]
                 /\ n.page = r.page /\ n.kind = r.kind /\ n.ticket = r.ticket
                 /\ n.phase = "loaded" /\ n.seen = seen /\ n.late = r.late /\ n.human = human
        BY <2>1
    <2>2. call[c] = [page |-> call[c].page, ticket |-> call[c].ticket, kind |-> call[c].kind,
                     phase |-> call[c].phase, seen |-> call[c].seen, human |-> call[c].human,
                     late |-> call[c].late]
        BY DEF WaitShape
    <2>3. new = [call[c] EXCEPT !.phase = "loaded", !.seen = ticket[t], !.human = HumanMode(t)]
        OBVIOUS
    <2> HIDE DEF new
    <2> QED
        BY <1>1, <2>1, <2>2, <2>3
<1>4. new.human = TRUE <=> HumanMode(t)
    <2>1. CASE HumanMode(t)
        BY <1>3, <2>1, Zenon
    <2>2. CASE ~HumanMode(t)
        BY <1>3, <2>2, Zenon
    <2> QED
        BY <2>1, <2>2
<1> HIDE DEF new
<1>5. call'[c] = new /\ \A d \in Calls \ {c} : call'[d] = call[d]
    BY <1>2 DEF WaitShape
<1>6. Author(c) \in Authors
    BY DEF Author, Authors
\* The message comes last, and the request had none before.
<1>7. \A u \in Tickets : \A i \in DOMAIN said[u] : At(u, i) \in Calls /\ At(u, i) # c
    BY <1>2 DEF OneMessageEach, WaitShape, At
<1>8. PICK end : end = Len(said[t]) + 1
    OBVIOUS
<1>9. /\ said' \in [Tickets -> Seq(Authors \X Calls)]
      /\ \A u \in Tickets \ {t} : said'[u] = said[u]
      /\ t \in Tickets => /\ DOMAIN said'[t] = DOMAIN said[t] \cup {end}
                          /\ said'[t][end] = <<Author(c), c>>
                          /\ \A i \in DOMAIN said[t] : /\ i \in Nat /\ end \in Nat /\ i < end
                                                       /\ said'[t][i] = said[t][i]
    <2>1. said \in [Tickets -> Seq(Authors \X Calls)] /\ <<Author(c), c>> \in Authors \X Calls
        BY <1>6 DEF WaitShape
    <2> DEFINE m == <<Author(c), c>>
    <2>2. \A u \in Tickets \ {t} : said'[u] = said[u]
        BY <1>2, <2>1
    <2>3. ASSUME t \in Tickets
          PROVE  /\ said'[t] = Append(said[t], m) /\ said'[t] \in Seq(Authors \X Calls)
                 /\ DOMAIN said'[t] = DOMAIN said[t] \cup {end} /\ said'[t][end] = m
                 /\ \A i \in DOMAIN said[t] : /\ i \in Nat /\ end \in Nat /\ i < end
                                              /\ said'[t][i] = said[t][i]
        <3>1. said'[t] = Append(said[t], m)
            BY <1>2, <2>1, <2>3
        <3>2. said[t] \in Seq(Authors \X Calls) /\ m \in Authors \X Calls
            BY <2>1, <2>3
        <3> HIDE DEF m
        <3> QED
            BY <1>8, <3>1, <3>2
    <2>4. said' \in [Tickets -> Seq(Authors \X Calls)]
        BY <1>2, <2>1, <2>2, <2>3
    <2> QED
        BY <2>2, <2>3, <2>4
<1>10. WaitShape'
    <2>1. call' = [call EXCEPT ![c] = new]
        BY <1>2 DEF new
    <2>2. call' = [d \in Calls |->
               [page |-> call'[d].page, ticket |-> call'[d].ticket, kind |-> call'[d].kind,
                phase |-> call'[d].phase, seen |-> call'[d].seen, human |-> call'[d].human,
                late |-> call'[d].late]]
        BY <1>3, <2>1 DEF WaitShape
    <2> QED
        BY <1>2, <1>9, <2>2 DEF WaitShape
<1>11. OneMessageEach'
    <2>1. \A d \in Calls : Author(d)' = Author(d)
        BY <1>3, <1>5 DEF Author
    <2>2. \A u \in Tickets : \A i \in DOMAIN said[u] :
              /\ i \in DOMAIN said'[u] /\ said'[u][i] = said[u][i] /\ At(u, i)' = At(u, i)
              /\ call'[At(u, i)] = call[At(u, i)] /\ At(u, i) # c
              /\ said[u][i][1] = Author(At(u, i)) /\ At(u, i) \in Calls
        BY <1>5, <1>7, <1>9 DEF At, OneMessageEach
    <2>3. t \in Tickets => At(t, end)' = c /\ said'[t][end][1] = Author(c)
        BY <1>9 DEF At
    <2>4. \A u \in Tickets : \A i \in DOMAIN said'[u] : i \in DOMAIN said[u] \/ (u = t /\ i = end)
        BY <1>9
    <2>5. ASSUME NEW u \in Tickets, NEW i \in DOMAIN said'[u]
          PROVE  /\ call'[At(u, i)'].ticket = u
                 /\ call'[At(u, i)'].phase \in {"loaded", "saved"}
                 /\ said'[u][i][1] = Author(At(u, i))'
        <3>1. CASE i \in DOMAIN said[u]
            <4>1. call[At(u, i)].ticket = u /\ call[At(u, i)].phase \in {"loaded", "saved"}
                BY <3>1 DEF OneMessageEach
            <4> QED
                BY <2>1, <2>2, <3>1, <4>1
        <3>2. CASE u = t /\ i = end
            BY <1>3, <1>5, <2>1, <2>3, <3>2
        <3> QED
            BY <2>4, <3>1, <3>2
    <2>6. ASSUME NEW u \in Tickets, NEW i \in DOMAIN said'[u], NEW j \in DOMAIN said'[u],
                 At(u, i)' = At(u, j)'
          PROVE  i = j
        BY <2>2, <2>3, <2>4, <2>6 DEF OneMessageEach
    <2>7. ASSUME NEW d \in Calls, call'[d].phase = "loaded", call'[d].ticket \in Tickets
          PROVE  \E i \in DOMAIN said'[call'[d].ticket] : said'[call'[d].ticket][i][2] = d
        <3>1. CASE d = c
            BY <1>3, <1>5, <1>9, <2>7, <3>1
        <3>2. CASE d # c
            <4>1. call[d].phase = "loaded" /\ call[d].ticket \in Tickets /\ call'[d] = call[d]
                BY <1>5, <2>7, <3>2
            <4>2. PICK i \in DOMAIN said[call[d].ticket] : At(call[d].ticket, i) = d
                BY <4>1 DEF OneMessageEach
            <4> QED
                BY <2>2, <4>1, <4>2 DEF At
        <3> QED
            BY <3>1, <3>2
    <2> QED
        BY <2>5, <2>6, <2>7 DEF OneMessageEach, At
<1>12. \A u \in Tickets : InTable(u)' = InTable(u)
    BY <1>3, <1>5, <1>7, <1>9 DEF InTable, At
<1>13. \A u \in Tickets : /\ HumanMode(u)' <=> HumanMode(u)
                          /\ \A i \in InTable(u) : Awaits(u, i)' <=> Awaits(u, i)
    <2> SUFFICES ASSUME NEW u \in Tickets
                 PROVE  /\ HumanMode(u)' <=> HumanMode(u)
                        /\ \A i \in InTable(u) : Awaits(u, i)' <=> Awaits(u, i)
        OBVIOUS
    <2>1. InTable(u)' = InTable(u) /\ \A i \in InTable(u) : said'[u][i] = said[u][i]
        BY <1>9, <1>12 DEF InTable
    <2> QED
        BY <1>2, <2>1 DEF HumanMode, Awaits
<1>14. ReadAsItIs'
    <2> SUFFICES ASSUME NEW u \in Tickets, NEW d \in Calls, call'[d].ticket = u, InTime(d)'
                 PROVE  /\ call'[d].seen = ticket'[u]
                        /\ call'[d].human = TRUE <=> HumanMode(u)'
                        /\ \A i \in InTable(u)', k \in DOMAIN said'[u] : At(u, k)' = d => i < k
        BY DEF ReadAsItIs
    <2>1. CASE d = c
        <3>1. u = t
            BY <1>3, <1>5, <2>1
        <3>2. \A i \in InTable(t), k \in DOMAIN said'[t] : At(t, k)' = c => i < k
            BY <1>7, <1>9, <3>1 DEF At, InTable
        <3> QED
            BY <1>2, <1>3, <1>4, <1>5, <1>12, <1>13, <2>1, <3>1, <3>2
    <2>2. CASE d # c
        <3>1. call'[d] = call[d] /\ InTime(d)
            BY <1>5, <2>2 DEF InTime
        <3>2. /\ call[d].seen = ticket[u]
              /\ call[d].human = TRUE <=> HumanMode(u)
              /\ \A i \in InTable(u), k \in DOMAIN said[u] : At(u, k) = d => i < k
            BY <3>1 DEF ReadAsItIs
        <3>3. \A k \in DOMAIN said'[u] : At(u, k)' = d => k \in DOMAIN said[u] /\ At(u, k) = d
            BY <1>9, <2>2 DEF At
        <3>4. call'[d].seen = ticket'[u]
            BY <1>2, <3>1, <3>2
        <3>5. call'[d].human = TRUE <=> HumanMode(u)'
            BY <1>13, <3>1, <3>2
        <3>6. \A i \in InTable(u)', k \in DOMAIN said'[u] : At(u, k)' = d => i < k
            BY <1>12, <3>2, <3>3
        <3> QED
            BY <3>4, <3>5, <3>6
    <2> QED
        BY <2>1, <2>2
<1>15. WaitingIsListed'
    BY <1>2, <1>12, <1>13 DEF WaitingIsListed
<1> QED
    BY <1>10, <1>11, <1>14, <1>15

LEMMA SaveKeepsWaiting ==
    ASSUME WaitInv, NEW c \in Calls, SaveTicket(c)
    PROVE  WaitInv'
<1> USE DEF WaitInv
<1>1. PICK t : t = call[c].ticket
    OBVIOUS
<1>2. PICK after : after = IF NewStatus(c) = call[c].seen THEN ticket[t] ELSE NewStatus(c)
    OBVIOUS
<1> DEFINE atWork == {k \in Calls \ {c} : call[k].ticket = t /\ call[k].phase = "loaded"}
<1>3. /\ call[c].phase = "loaded"
      /\ ticket' = [ticket EXCEPT ![t] = after]
      /\ call' = [k \in Calls |->
             IF k = c THEN [call[c] EXCEPT !.phase = "saved", !.seen = after]
             ELSE IF k \in atWork THEN [call[k] EXCEPT !.late = TRUE] ELSE call[k]]
      /\ overlapped' = IF call[c].late THEN overlapped \cup {t} ELSE overlapped
      /\ said' = said
    BY <1>1, <1>2 DEF SaveTicket
\* The requests that are at work on the ticket become late; the others, and the tickets', stay.
<1>4. \A d \in Calls :
          /\ call'[d] = [page |-> call'[d].page, ticket |-> call'[d].ticket, kind |-> call'[d].kind,
                         phase |-> call'[d].phase, seen |-> call'[d].seen, human |-> call'[d].human,
                         late |-> call'[d].late]
          /\ call'[d].page = call[d].page /\ call'[d].kind = call[d].kind
          /\ call'[d].ticket = call[d].ticket
          /\ call'[d].phase = IF d = c THEN "saved" ELSE call[d].phase
          /\ d # c => \/ call'[d] = call[d] /\ d \notin atWork
                      \/ d \in atWork /\ call'[d].late = TRUE
    <2> SUFFICES ASSUME NEW d \in Calls
                 PROVE  /\ call'[d] = [page |-> call'[d].page, ticket |-> call'[d].ticket,
                               kind |-> call'[d].kind, phase |-> call'[d].phase, seen |-> call'[d].seen,
                               human |-> call'[d].human, late |-> call'[d].late]
                        /\ call'[d].page = call[d].page /\ call'[d].kind = call[d].kind
                        /\ call'[d].ticket = call[d].ticket
                        /\ call'[d].phase = IF d = c THEN "saved" ELSE call[d].phase
                        /\ d # c => \/ call'[d] = call[d] /\ d \notin atWork
                                    \/ d \in atWork /\ call'[d].late = TRUE
        OBVIOUS
    <2>1. call[d] = [page |-> call[d].page, ticket |-> call[d].ticket, kind |-> call[d].kind,
                     phase |-> call[d].phase, seen |-> call[d].seen, human |-> call[d].human,
                     late |-> call[d].late]
        BY DEF WaitShape
    <2> HIDE DEF WaitInv, atWork
    <2>2. CASE d = c
        <3>1. call'[d] = [call[d] EXCEPT !.phase = "saved", !.seen = after]
            BY <1>3, <2>2
        <3> QED
            BY <2>1, <2>2, <3>1
    <2>3. CASE d # c /\ d \in atWork
        <3>1. call'[d] = [call[d] EXCEPT !.late = TRUE]
            BY <1>3, <2>3
        <3> QED
            BY <2>1, <2>3, <3>1
    <2>4. CASE d # c /\ d \notin atWork
        BY <1>3, <2>1, <2>4
    <2> QED
        BY <2>2, <2>3, <2>4
<1>5. WaitShape'
    <2>1. call' = [d \in Calls |->
               [page |-> call'[d].page, ticket |-> call'[d].ticket, kind |-> call'[d].kind,
                phase |-> call'[d].phase, seen |-> call'[d].seen, human |-> call'[d].human,
                late |-> call'[d].late]]
        <3>1. call' = [d \in Calls |-> call'[d]]
            BY <1>3
        <3> QED
            BY <1>4, <3>1
    <2> QED
        BY <1>3, <2>1 DEF WaitShape
<1> HIDE DEF atWork
<1>6. OneMessageEach'
    <2>1. \A d \in Calls : Author(d)' = Author(d)
        BY <1>4 DEF Author
    <2>2. \A u \in Tickets : \A i \in DOMAIN said[u] : At(u, i)' = At(u, i) /\ At(u, i) \in Calls
        BY <1>3 DEF At, WaitShape
    <2>3. ASSUME NEW u \in Tickets, NEW i \in DOMAIN said[u]
          PROVE  /\ call'[At(u, i)].ticket = u
                 /\ call'[At(u, i)].phase \in {"loaded", "saved"}
                 /\ said'[u][i][1] = Author(At(u, i))'
        BY <1>3, <1>4, <2>1, <2>2 DEF OneMessageEach
    <2>4. \A d \in Calls : call'[d].phase = "loaded" => call[d].phase = "loaded"
        BY <1>4
    <2>5. ASSUME NEW u \in Tickets, NEW i \in DOMAIN said[u], NEW j \in DOMAIN said[u],
                 At(u, i)' = At(u, j)'
          PROVE  i = j
        BY <2>2, <2>5 DEF OneMessageEach
    <2>6. ASSUME NEW d \in Calls, call'[d].phase = "loaded", call'[d].ticket \in Tickets
          PROVE  \E i \in DOMAIN said[call'[d].ticket] : said[call'[d].ticket][i][2] = d
        <3>1. call'[d].ticket = call[d].ticket /\ call[d].phase = "loaded"
            BY <1>4, <2>4, <2>6
        <3> QED
            BY <2>6, <3>1 DEF OneMessageEach, At
    <2> QED
        BY <1>3, <2>3, <2>5, <2>6 DEF OneMessageEach, At
\* The tickets of other requests are as they were.
<1>7. ASSUME NEW u \in Tickets \ {t}
      PROVE  /\ InTable(u)' = InTable(u) /\ ticket'[u] = ticket[u]
             /\ HumanMode(u)' <=> HumanMode(u)
             /\ \A i \in InTable(u) : Awaits(u, i)' <=> Awaits(u, i)
    <2>1. \A i \in DOMAIN said[u] : At(u, i) \in Calls /\ At(u, i) # c
        BY <1>1 DEF OneMessageEach, WaitShape, At
    <2>2. InTable(u)' = InTable(u)
        BY <1>3, <1>4, <2>1 DEF InTable, At
    <2>3. ticket'[u] = ticket[u]
        BY <1>3 DEF WaitShape
    <2> QED
        BY <1>3, <2>2, <2>3 DEF HumanMode, Awaits
<1>8. ReadAsItIs'
    <2> SUFFICES ASSUME NEW u \in Tickets, NEW d \in Calls, call'[d].ticket = u, InTime(d)'
                 PROVE  /\ call'[d].seen = ticket'[u]
                        /\ call'[d].human = TRUE <=> HumanMode(u)'
                        /\ \A i \in InTable(u)', k \in DOMAIN said'[u] : At(u, k)' = d => i < k
        BY DEF ReadAsItIs
    <2>1. d # c /\ call'[d] = call[d] /\ d \notin atWork
        BY <1>4 DEF InTime
    <2>2. u # t
        BY <2>1 DEF atWork, InTime
    <2>3. /\ call[d].seen = ticket[u]
          /\ call[d].human = TRUE <=> HumanMode(u)
          /\ \A i \in InTable(u), k \in DOMAIN said[u] : At(u, k) = d => i < k
        <3>1. InTime(d) /\ call[d].ticket = u
            BY <2>1 DEF InTime
        <3> QED
            BY <3>1 DEF ReadAsItIs
    <2>4. call'[d].seen = ticket'[u]
        BY <1>7, <2>1, <2>2, <2>3
    <2>5. call'[d].human = TRUE <=> HumanMode(u)'
        BY <1>7, <2>1, <2>2, <2>3
    <2>6. \A i \in InTable(u)', k \in DOMAIN said'[u] : At(u, k)' = d => i < k
        BY <1>3, <1>7, <2>2, <2>3 DEF At
    <2> QED
        BY <2>4, <2>5, <2>6
<1>9. WaitingIsListed'
    <2> SUFFICES ASSUME NEW u \in Tickets, u \notin overlapped',
                        NEW i, i \in InTable(u)', Awaits(u, i)'
                 PROVE  ticket'[u] = "Open"
        BY DEF WaitingIsListed
    <2>1. CASE u # t
        BY <1>3, <1>7, <2>1 DEF WaitingIsListed
    <2>2. CASE u = t
        <3>1. u \notin overlapped /\ InTime(c)
            BY <1>3, <2>2 DEF InTime
        <3>2. /\ call[c].seen = ticket[u] /\ call[c].ticket = u
              /\ call[c].human = TRUE <=> HumanMode(u)
              /\ \A j \in InTable(u), k \in DOMAIN said[u] : At(u, k) = c => j < k
            BY <1>1, <2>2, <3>1 DEF ReadAsItIs
        <3>3. ticket'[u] = NewStatus(c)
            BY <1>2, <1>3, <2>2, <3>2 DEF WaitShape
        <3>4. PICK k \in DOMAIN said[u] : At(u, k) = c
            BY <1>3, <3>2 DEF OneMessageEach
        <3>5. said[u][k][1] = Author(c)
            BY <3>4 DEF OneMessageEach
        <3>6. InTable(u)' = InTable(u) \cup {k} /\ k \in Nat /\ \A j \in InTable(u) : j \in Nat /\ j < k
            <4>1. \A j \in DOMAIN said[u] : j \in Nat /\ At(u, j) \in Calls /\ (At(u, j) = c <=> j = k)
                BY <3>4 DEF OneMessageEach, WaitShape, At
            <4>2. \A j \in DOMAIN said[u] : call'[At(u, j)].phase = "saved"
                                               <=> call[At(u, j)].phase = "saved" \/ j = k
                BY <1>4, <4>1
            <4>3. InTable(u)' = InTable(u) \cup {k}
                BY <1>3, <4>2 DEF InTable, At
            <4> QED
                BY <3>2, <3>4, <4>1, <4>3 DEF InTable
        <3>7. \/ said[u][i][1] = "Notice"
              \/ said[u][i][1] = "User" /\ \E j \in InTable(u)' : j < i /\ said[u][j][1] = "Admin"
            BY <1>3 DEF Awaits
        <3>8. \A j \in InTable(u)' : j > i => said[u][j][1] \notin {"Admin", "Resolution"}
            BY <1>3 DEF Awaits
        \* An answer or a decision would have come after what waits.
        <3>9. Author(c) \in {"User", "Notice"}
            <4>1. Author(c) \in Authors
                BY DEF Author, Authors
            <4>2. ASSUME Author(c) \in {"Admin", "Resolution"} PROVE FALSE
                <5>1. k \in InTable(u)' /\ said[u][k][1] \in {"Admin", "Resolution"}
                    BY <3>5, <3>6, <4>2
                <5>2. i \in Nat /\ i # k /\ (i = k \/ i \in InTable(u))
                    BY <3>6, <3>7, <5>1
                <5> QED
                    BY <3>6, <3>8, <5>1, <5>2
            <4> QED
                BY <4>1, <4>2 DEF Authors
        <3>10. CASE Author(c) = "Notice"
            BY <3>3, <3>10 DEF Author, NewStatus
        <3>11. CASE Author(c) = "User" /\ HumanMode(u)
            BY <3>2, <3>3, <3>11 DEF Author, NewStatus
        \* With nobody in charge there is nothing that waits: only an old notice could.
        <3>12. CASE Author(c) = "User" /\ ~HumanMode(u)
            <4>1. ticket[u] # "Open" /\ \A j \in InTable(u) : said[u][j][1] # "Admin"
                BY <3>12 DEF HumanMode
            <4>2. \A j \in InTable(u)' : said[u][j][1] # "Admin"
                BY <3>5, <3>6, <3>12, <4>1
            <4>3. said[u][i][1] = "Notice" /\ i \in InTable(u)
                BY <3>5, <3>6, <3>7, <3>12, <4>2
            <4>4. Awaits(u, i)
                BY <3>6, <3>8, <4>3 DEF Awaits
            <4> QED
                BY <3>1, <4>1, <4>3, <4>4 DEF WaitingIsListed
        <3> QED
            BY <3>9, <3>10, <3>11, <3>12
    <2> QED
        BY <2>1, <2>2
<1> QED
    BY <1>5, <1>6, <1>8, <1>9

LEMMA WaitingStarts == DeskInit => WaitInv
<1> SUFFICES ASSUME DeskInit PROVE WaitInv
    OBVIOUS
<1>1. Unused = [page |-> Unused.page, ticket |-> Unused.ticket, kind |-> Unused.kind,
                phase |-> Unused.phase, seen |-> Unused.seen, human |-> Unused.human,
                late |-> Unused.late]
    BY DEF Unused
<1>2. \A c \in Calls : call[c] = Unused /\ call[c].phase = "free"
    BY DEF DeskInit, Unused
<1>3. call = [c \in Calls |-> call[c]]
    BY DEF DeskInit
<1>4. call = [c \in Calls |->
           [page |-> call[c].page, ticket |-> call[c].ticket, kind |-> call[c].kind,
            phase |-> call[c].phase, seen |-> call[c].seen, human |-> call[c].human,
            late |-> call[c].late]]
    BY <1>1, <1>2, <1>3
<1>5. \A t \in Tickets : said[t] = <<>> /\ DOMAIN said[t] = {} /\ InTable(t) = {}
    BY DEF DeskInit, InTable
<1>6. WaitShape
    BY <1>4 DEF DeskInit, WaitShape
<1>7. OneMessageEach
    BY <1>2, <1>5 DEF OneMessageEach
<1>8. ReadAsItIs
    BY <1>2 DEF ReadAsItIs, InTime
<1>9. WaitingIsListed
    BY <1>5 DEF WaitingIsListed
<1> QED
    BY <1>6, <1>7, <1>8, <1>9 DEF WaitInv

LEMMA WaitingKeeps == WaitInv /\ [DeskNext]_deskVars => WaitInv'
<1> SUFFICES ASSUME WaitInv, [DeskNext]_deskVars PROVE WaitInv'
    OBVIOUS
<1>1. CASE UNCHANGED <<ticket, said, call, overlapped>>
    <2>1. WaitShape'
        BY <1>1 DEF WaitInv, WaitShape
    <2> QED
        BY <1>1, <2>1, WaitKept
<1>2. CASE UNCHANGED deskVars
    BY <1>1, <1>2 DEF deskVars
<1>3. ASSUME NEW p \in Threads,
             \/ \E t \in Tickets : Select(p, t) \/ StartTicket(p, t)
             \/ \E kind \in {"say", "escalate", "resolve"} : Press(p, kind)
             \/ Poll(p) \/ Show(p) \/ Answer(p) \/ GiveUp(p)
      PROVE  WaitInv'
    <2>1. ASSUME NEW t \in Tickets, Select(p, t) PROVE WaitInv'
        BY <1>1, <2>1 DEF Select
    <2>2. ASSUME NEW t \in Tickets, StartTicket(p, t) PROVE WaitInv'
        BY <2>2, SendKeepsWaiting DEF StartTicket
    <2>3. ASSUME NEW kind, Press(p, kind) PROVE WaitInv'
        BY <2>3, SendKeepsWaiting DEF Press
    <2>4. CASE Poll(p)
        BY <1>1, <2>4 DEF Poll
    <2>5. CASE Show(p)
        BY <1>1, <2>5 DEF Show
    <2>6. CASE Answer(p)
        BY <1>1, <2>6 DEF Answer
    <2>7. CASE GiveUp(p)
        BY <1>1, <2>7 DEF GiveUp
    <2> QED
        BY <1>3, <2>1, <2>2, <2>3, <2>4, <2>5, <2>6, <2>7
<1>4. ASSUME NEW c \in Calls, LoadTicket(c) \/ SaveTicket(c) PROVE WaitInv'
    BY <1>4, LoadKeepsWaiting, SaveKeepsWaiting
<1> QED
    BY <1>2, <1>3, <1>4 DEF DeskNext

\* A ticket with something that waits for a person is Open, for any pages, tickets and requests: the
\* requests cross as they like, the status is right unless two of them overlapped on the server.
THEOREM WaitingStaysListed == PanelsSpec => []WaitingIsListed
<1>1. PanelsInit => WaitInv
    BY WaitingStarts DEF PanelsInit
<1>2. WaitInv /\ [PanelsNext]_panelVars => WaitInv'
    <2>1. [PanelsNext]_panelVars => [DeskNext]_deskVars
        BY DEF PanelsNext, DeskStep, ChatStep, PositionStep, RatingsStep, BellStep, AddressesStep,
               ProfileStep, LimitsStep, panelVars, talkVars
    <2> QED
        BY <2>1, WaitingKeeps
<1>3. WaitInv => WaitingIsListed
    BY DEF WaitInv
<1> QED
    BY <1>1, <1>2, <1>3, PTL DEF PanelsSpec

-------------------------------------------------------------------------------
(* The limits. *)

Requests ==
    [kind : Counted, phase : {"idle", "asked", "counted", "refused"}, seen : Nat, late : BOOLEAN]

LimitTypes ==
    /\ counter \in [Counted -> Nat] /\ passed \in [Counted -> Nat] /\ uncounted \in [Counted -> Nat]
    /\ crossed \in [Counted -> BOOLEAN]
    /\ asking \in [Askers -> Requests]
    /\ blacklist \in {"no", "yes", "unfair"}

\* Unless it is late, a request that has read its counter knows what it is, and a request goes on only
\* below the limit.
Knows(r, counts) ==
    /\ r.phase = "counted" => r.seen < Limit(r.kind)
    /\ r.phase = "counted" /\ ~r.late => r.seen = counts[r.kind]
    /\ r.phase = "refused" /\ ~r.late => counts[r.kind] >= Limit(r.kind)

\* A counter that nothing crossed says what has passed, but for what nothing counts.
CountsWhatPassed ==
    \A kind \in Counted :
        ~crossed[kind] => passed[kind] = counter[kind] + uncounted[kind] /\ counter[kind] <= Limit(kind)

\* Every message is counted.
MessagesAreCounted == uncounted["message"] = 0

LimitsInv ==
    LimitTypes /\ CountsWhatPassed /\ MessagesAreCounted /\ blacklist # "unfair" /\ \A a \in Askers : Knows(asking[a], counter)

LEMMA LimitIsPositive == \A kind \in Counted : Limit(kind) \in Nat \ {0}
BY LimitsAssumption DEF Limit, Counted, Codes

\* A request that changes while the counters stay.
LEMMA AskingChanges ==
    ASSUME LimitsInv, NEW a \in Askers, NEW r \in Requests, Knows(r, counter),
           asking' = [asking EXCEPT ![a] = r], UNCHANGED <<counter, passed, uncounted, crossed>>,
           blacklist' \in {"no", "yes"}
    PROVE  LimitsInv'
<1>1. LimitTypes' /\ CountsWhatPassed' /\ MessagesAreCounted'
    BY DEF LimitsInv, LimitTypes, CountsWhatPassed, MessagesAreCounted
<1>2. \A b \in Askers : Knows(asking[b], counter)'
    BY DEF LimitsInv, LimitTypes, Knows
<1> QED
    BY <1>1, <1>2 DEF LimitsInv

LEMMA NotAskingKnows == NotAsking \in Requests /\ Knows(NotAsking, counter)
BY DEF NotAsking, Requests, Counted, Codes, Knows

\* When a counter is written, whoever has read it is late and the others' counters stay.
LEMMA OutdatedKnow ==
    ASSUME LimitsInv, NEW kind \in Counted, NEW count \in Nat, counter' = [counter EXCEPT ![kind] = count],
           NEW b \in Askers
    PROVE  Outdated(kind)[b] \in Requests /\ Knows(Outdated(kind)[b], counter')
<1>1. asking[b] \in Requests /\ Knows(asking[b], counter)
    BY DEF LimitsInv, LimitTypes
<1> DEFINE r == [asking[b] EXCEPT !.late = @ \/ (asking[b].kind = kind /\ asking[b].phase # "idle")]
<1>2. Outdated(kind)[b] = r
    BY DEF Outdated
<1>3. r \in Requests /\ r.kind = asking[b].kind /\ r.phase = asking[b].phase /\ r.seen = asking[b].seen
    BY <1>1 DEF Requests
<1>4. ~r.late /\ r.phase # "idle" => ~asking[b].late /\ r.kind # kind
    BY <1>1 DEF Requests
<1>5. asking[b].kind # kind => counter'[asking[b].kind] = counter[asking[b].kind]
    BY <1>1 DEF Requests, LimitsInv, LimitTypes
<1> QED
    BY <1>1, <1>2, <1>3, <1>4, <1>5 DEF Knows

\* A counter is written by a request that leaves, or by nobody.
LEMMA CounterChanges ==
    ASSUME LimitsInv, NEW kind \in Counted, NEW count \in Nat, NEW now \in Nat, NEW more \in Nat, NEW cross \in BOOLEAN,
           counter' = [counter EXCEPT ![kind] = count],
           passed' = [passed EXCEPT ![kind] = now],
           uncounted' = [uncounted EXCEPT ![kind] = more],
           kind = "message" => more = 0,
           crossed' = [crossed EXCEPT ![kind] = cross],
           ~cross => now = count + more /\ count <= Limit(kind),
           asking' = Outdated(kind) \/ \E a \in Askers : LeavesWriting(a, kind),
           UNCHANGED blacklist
    PROVE  LimitsInv'
<1>1. \A b \in Askers : Outdated(kind)[b] \in Requests /\ Knows(Outdated(kind)[b], counter')
    BY OutdatedKnow
<1>2. NotAsking \in Requests /\ Knows(NotAsking, counter')
    BY NotAskingKnows DEF NotAsking, Knows
<1>3. asking' \in [Askers -> Requests] /\ \A b \in Askers : Knows(asking[b], counter)'
    <2>1. CASE asking' = Outdated(kind)
        BY <1>1, <2>1 DEF Outdated, Knows
    <2>2. CASE \E a \in Askers : LeavesWriting(a, kind)
        <3>1. PICK a \in Askers : asking' = [Outdated(kind) EXCEPT ![a] = NotAsking]
            BY <2>2 DEF LeavesWriting
        <3>2. \A b \in Askers : asking'[b] = IF b = a THEN NotAsking ELSE Outdated(kind)[b]
            BY <3>1 DEF Outdated
        <3>3. asking' = [b \in Askers |-> IF b = a THEN NotAsking ELSE Outdated(kind)[b]]
            BY <3>1 DEF Outdated
        <3> QED
            BY <1>1, <1>2, <3>2, <3>3 DEF Knows
    <2> QED
        BY <2>1, <2>2
<1>4. LimitTypes' /\ blacklist' # "unfair"
    BY <1>3 DEF LimitsInv, LimitTypes
<1>5. CountsWhatPassed' /\ MessagesAreCounted'
    BY DEF LimitsInv, LimitTypes, CountsWhatPassed, MessagesAreCounted, Counted
<1> QED
    BY <1>3, <1>4, <1>5 DEF LimitsInv

\* A counter that starts again from nothing.
LEMMA StartsAgainKeeps ==
    ASSUME LimitsInv, NEW kind \in Counted, StartsAgain(kind),
           asking' = Outdated(kind) \/ \E a \in Askers : LeavesWriting(a, kind),
           UNCHANGED blacklist
    PROVE  LimitsInv'
<1> DEFINE none == 0
<1>1. /\ none \in Nat /\ FALSE \in BOOLEAN /\ none = none + none /\ none <= Limit(kind)
    BY LimitIsPositive
<1>2. /\ counter' = [counter EXCEPT ![kind] = none] /\ passed' = [passed EXCEPT ![kind] = none]
      /\ uncounted' = [uncounted EXCEPT ![kind] = none] /\ crossed' = [crossed EXCEPT ![kind] = FALSE]
      /\ kind = "message" => none = 0
    BY DEF StartsAgain
<1> HIDE DEF none
<1> QED
    BY <1>1, <1>2, CounterChanges

LEMMA AskKeeps ==
    ASSUME LimitsInv, NEW a \in Askers, AskMessage(a) \/ TypeCode(a) \/ ReadCounter(a) \/ NoCode(a)
    PROVE  LimitsInv'
<1>1. asking[a] \in Requests /\ Knows(asking[a], counter) /\ blacklist \in {"no", "yes"}
    BY DEF LimitsInv, LimitTypes
<1>2. CASE AskMessage(a)
    <2> DEFINE r == [NotAsking EXCEPT !.phase = "asked"]
    <2>1. r \in Requests /\ Knows(r, counter)
        BY DEF NotAsking, Requests, Counted, Codes, Knows
    <2> QED
        BY <1>1, <1>2, <2>1, AskingChanges DEF AskMessage
<1>3. CASE TypeCode(a)
    <2>1. PICK kind \in Codes :
              asking' = [asking EXCEPT ![a] = [NotAsking EXCEPT !.kind = kind, !.phase = "asked"]]
        BY <1>3 DEF TypeCode
    <2> DEFINE r == [NotAsking EXCEPT !.kind = kind, !.phase = "asked"]
    <2>2. r \in Requests /\ Knows(r, counter)
        BY DEF NotAsking, Requests, Counted, Codes, Knows
    <2> QED
        BY <1>1, <1>3, <2>1, <2>2, AskingChanges DEF TypeCode
<1>4. CASE ReadCounter(a)
    <2> DEFINE kind == asking[a].kind
               r == [asking[a] EXCEPT !.seen = counter[kind], !.late = FALSE,
                         !.phase = IF ~Exceeded(kind, counter[kind]) THEN "counted" ELSE "refused"]
    <2>1. kind \in Counted /\ counter[kind] \in Nat /\ Limit(kind) \in Nat
        BY <1>1, LimitIsPositive DEF Requests, LimitsInv, LimitTypes
    <2>2. r \in Requests
        BY <1>1, <2>1 DEF Requests
    <2>3. r.kind = kind /\ r.seen = counter[kind]
          /\ r.phase = IF counter[kind] < Limit(kind) THEN "counted" ELSE "refused"
        BY <1>1, <2>1 DEF Requests, Exceeded
    <2>4. Knows(r, counter)
        BY <2>1, <2>3 DEF Knows
    <2>5. asking' = [asking EXCEPT ![a] = r]
        BY <1>4 DEF ReadCounter, LimitsInv, LimitTypes, Requests
    <2> QED
        BY <1>1, <1>4, <2>2, <2>4, <2>5, AskingChanges DEF ReadCounter
<1>5. CASE NoCode(a)
    BY <1>1, <1>5, NotAskingKnows, AskingChanges DEF NoCode, Leaves
<1> QED
    BY <1>2, <1>3, <1>4, <1>5

LEMMA RefuseKeeps ==
    ASSUME LimitsInv, NEW a \in Askers, Refuse(a)
    PROVE  LimitsInv'
<1>1. asking[a] \in Requests /\ Knows(asking[a], counter) /\ blacklist \in {"no", "yes"} /\ "message" \in Counted
    BY DEF LimitsInv, LimitTypes, Counted
<1>2. blacklist' \in {"no", "yes"}
    <2>1. CASE asking[a].kind \in Codes \/ asking[a].late \/ crossed["message"]
        BY <1>1, <2>1 DEF Refuse
    <2>2. CASE asking[a].kind \notin Codes /\ ~asking[a].late /\ ~crossed["message"]
        <3>1. asking[a].kind = "message"
            BY <1>1, <2>2 DEF Requests, Counted
        <3>2. counter["message"] >= SmsCounterLimit
            BY <1>1, <2>2, <3>1 DEF Refuse, Knows, Limit
        <3>3. passed["message"] = counter["message"]
            BY <1>1, <2>2 DEF LimitsInv, LimitTypes, CountsWhatPassed, MessagesAreCounted
        <3>4. passed["message"] >= SmsCounterLimit
            BY <3>2, <3>3
        <3> QED
            BY <2>2, <3>4, Zenon DEF Refuse
    <2> QED
        BY <2>1, <2>2
<1> QED
    BY <1>2, NotAskingKnows, AskingChanges DEF Refuse, Leaves

LEMMA PassKeeps ==
    ASSUME LimitsInv, NEW a \in Askers, Pass(a) \/ RightCode(a)
    PROVE  LimitsInv'
<1>1. asking[a] \in Requests /\ Knows(asking[a], counter)
    BY DEF LimitsInv, LimitTypes
<1>2. CASE Pass(a)
    <2> DEFINE kind == asking[a].kind
               now == IF passed[kind] > Limit(kind) + uncounted[kind] THEN passed[kind] ELSE passed[kind] + 1
               cross == crossed[kind] \/ asking[a].late
    <2>1. kind \in Counted /\ asking[a].seen \in Nat /\ asking[a].late \in BOOLEAN
        BY <1>1 DEF Requests
    <2>2. counter[kind] \in Nat /\ passed[kind] \in Nat /\ crossed[kind] \in BOOLEAN /\ Limit(kind) \in Nat
          /\ uncounted[kind] \in Nat /\ (kind = "message" => uncounted[kind] = 0)
        BY <2>1, LimitIsPositive DEF LimitsInv, LimitTypes, MessagesAreCounted
    <2>3. now \in Nat /\ cross \in BOOLEAN /\ asking[a].seen + 1 \in Nat
        BY <2>1, <2>2
    <2>4. asking[a].seen < Limit(kind)
        BY <1>1, <1>2 DEF Pass, Knows
    <2>5. ~cross => passed[kind] = counter[kind] + uncounted[kind] /\ asking[a].seen = counter[kind]
        BY <1>1, <1>2, <2>1 DEF Pass, Knows, LimitsInv, CountsWhatPassed
    <2>6. ~cross => now = (asking[a].seen + 1) + uncounted[kind] /\ asking[a].seen + 1 <= Limit(kind)
        BY <2>1, <2>2, <2>4, <2>5
    <2>7. /\ counter' = [counter EXCEPT ![kind] = asking[a].seen + 1]
          /\ passed' = [passed EXCEPT ![kind] = now]
          /\ crossed' = [crossed EXCEPT ![kind] = cross]
          /\ uncounted' = [uncounted EXCEPT ![kind] = uncounted[kind]]
          /\ LeavesWriting(a, kind) /\ UNCHANGED blacklist
        BY <1>2 DEF Pass, LimitsInv, LimitTypes
    <2> HIDE DEF kind, now, cross
    <2> QED
        BY <2>1, <2>2, <2>3, <2>6, <2>7, CounterChanges
<1>3. CASE RightCode(a)
    <2>1. asking[a].kind \in Counted
        BY <1>1 DEF Requests
    <2> QED
        BY <1>3, <2>1, StartsAgainKeeps DEF RightCode
<1> QED
    BY <1>2, <1>3

LEMMA SetPasswordKeeps ==
    ASSUME LimitsInv, SetPassword
    PROVE  LimitsInv'
<1>1. "password" \in Counted
    BY DEF Counted, Codes
<1>2. passed' \in [Counted -> Nat] /\ uncounted' \in [Counted -> Nat]
      /\ \A kind \in Counted : passed'[kind] - uncounted'[kind] = passed[kind] - uncounted[kind]
    BY <1>1 DEF SetPassword, LimitsInv, LimitTypes
<1>3. MessagesAreCounted'
    BY DEF SetPassword, LimitsInv, LimitTypes, MessagesAreCounted, Counted
<1>4. CountsWhatPassed'
    BY <1>2 DEF SetPassword, LimitsInv, LimitTypes, CountsWhatPassed, Limit
<1> QED
    BY <1>2, <1>3, <1>4 DEF SetPassword, LimitsInv, LimitTypes, Knows

LEMMA TimeKeeps ==
    ASSUME LimitsInv, Readmit \/ \E kind \in Counted : RunsOut(kind)
    PROVE  LimitsInv'
<1>1. CASE Readmit
    BY <1>1 DEF Readmit, LimitsInv, LimitTypes, CountsWhatPassed, MessagesAreCounted, Knows
<1>2. ASSUME NEW kind \in Counted, RunsOut(kind) PROVE LimitsInv'
    BY <1>2, StartsAgainKeeps DEF RunsOut
<1> QED
    BY <1>1, <1>2

\* The limits on messages and on wrong codes hold, whatever they are and however many requests
\* there are, until two of them cross, and the blacklist names nobody else; only the codes that come
\* with a new password have no limit.
THEOREM LimitsAreKept == PanelsSpec => []LimitsHold
<1>1. PanelsInit => LimitsInv
    <2> SUFFICES ASSUME PanelsInit PROVE LimitsInv
        OBVIOUS
    <2>1. LimitTypes /\ MessagesAreCounted /\ blacklist = "no" /\ \A a \in Askers : asking[a] = NotAsking
        BY NotAskingKnows DEF PanelsInit, LimitsInit, LimitTypes, MessagesAreCounted, Counted
    <2>2. CountsWhatPassed
        BY LimitIsPositive DEF PanelsInit, LimitsInit, CountsWhatPassed
    <2> QED
        BY <2>1, <2>2, NotAskingKnows DEF LimitsInv
<1>2. LimitsInv /\ [PanelsNext]_panelVars => LimitsInv'
    <2> SUFFICES ASSUME LimitsInv, [PanelsNext]_panelVars PROVE LimitsInv'
        OBVIOUS
    <2>1. LimitsNext \/ UNCHANGED limitVars
        BY DEF PanelsNext, DeskStep, ChatStep, PositionStep, RatingsStep, BellStep, AddressesStep,
               ProfileStep, LimitsStep, panelVars
    <2>2. CASE UNCHANGED limitVars
        BY <2>2 DEF limitVars, LimitsInv, LimitTypes, CountsWhatPassed, MessagesAreCounted, Knows
    <2>3. CASE LimitsNext
        BY <2>3, AskKeeps, RefuseKeeps, PassKeeps, SetPasswordKeeps, TimeKeeps DEF LimitsNext
    <2> QED
        BY <2>1, <2>2, <2>3
<1>3. LimitsInv => LimitsHold
    BY LimitIsPositive DEF LimitsInv, LimitTypes, CountsWhatPassed, LimitsHold
<1> QED
    BY <1>1, <1>2, <1>3, PTL DEF PanelsSpec

-------------------------------------------------------------------------------
(* The bell. *)

MarkRows == [what : Notes \cup {"all", "nothing"}, saved : BOOLEAN]
AskRows == [state : {"idle", "asked", "read"}, count : Nat, crossed : BOOLEAN]
BellTypes ==
    /\ note \in [Notes -> {"none", "unread", "read"}]
    /\ badge \in Nat /\ adrift \in BOOLEAN
    /\ due \subseteq Notes /\ wire \subseteq live \X Notes
    /\ ask \in [Asks -> AskRows]
    /\ mark \in [Marks -> MarkRows]
    /\ \A k \in Marks : mark[k].what = "nothing" => ~mark[k].saved

\* One line at a time receives, so a push is on its way once.
OneLine == \A l, m \in live : l = m
SavedMarks == {k \in Marks : mark[k].saved}
OnTheWay == {w[2] : w \in wire}

\* What is pushed or to be pushed is a notification there is, and one or the other.
PushesAreNotes ==
    /\ due \cap OnTheWay = {}
    /\ \A n \in due \cup OnTheWay : note[n] # "none"

AllFinite ==
    IsFiniteSet(Unread) /\ IsFiniteSet(due) /\ IsFiniteSet(OnTheWay) /\ IsFiniteSet(SavedMarks)

\* A count that nothing crossed since it was read is right as long as it is on its way.
CountsAreRight ==
    \A a \in Asks : ask[a].state = "read" /\ ~ask[a].crossed =>
        /\ ask[a].count = Cardinality(Unread)
        /\ wire = {} /\ due = {} /\ SavedMarks = {}

\* The sum that is kept: what the badge shows and is to be added makes up what is unread and is
\* to be taken off.  Between marking all and the phone's zero there is nothing to sum up.
SumKept ==
    ~adrift =>
        /\ \A n \in due \cup OnTheWay : note[n] = "unread"
        /\ ~AllMarked => badge + Cardinality(due) + Cardinality(OnTheWay)
                            = Cardinality(Unread) + Cardinality(SavedMarks)
        /\ AllMarked => /\ Unread = {} /\ due = {} /\ wire = {}
                        /\ \A j, k \in SavedMarks : j = k

BellInv ==
    BellTypes /\ OneLine /\ PushesAreNotes /\ AllFinite /\ CountsAreRight /\ SumKept

LEMMA AllMarkedIs ==
    ASSUME NEW mk \in [Marks -> MarkRows]
    PROVE  [what |-> "all", saved |-> TRUE] \in {mk[k] : k \in Marks}
               <=> \E k \in Marks : mk[k].what = "all" /\ mk[k].saved
<1>1. ASSUME NEW k \in Marks, mk[k].what = "all", mk[k].saved
      PROVE  mk[k] = [what |-> "all", saved |-> TRUE]
    <2>1. mk[k].saved = TRUE
        BY <1>1, Zenon DEF MarkRows
    <2>2. mk[k] = [what |-> mk[k].what, saved |-> mk[k].saved]
        BY DEF MarkRows
    <2> QED
        BY <1>1, <2>1, <2>2
<1>2. ASSUME NEW k \in Marks, mk[k] = [what |-> "all", saved |-> TRUE]
      PROVE  mk[k].what = "all" /\ mk[k].saved
    BY <1>2
<1> QED
    BY <1>1, <1>2

\* One more, one less.
LEMMA Counting ==
    ASSUME NEW S, IsFiniteSet(S), NEW x
    PROVE  /\ Cardinality(S) \in Nat
           /\ IsFiniteSet(S \cup {x}) /\ IsFiniteSet(S \ {x})
           /\ x \notin S => Cardinality(S \cup {x}) = Cardinality(S) + 1
           /\ x \in S => Cardinality(S \ {x}) = Cardinality(S) - 1
BY FS_CardinalityType, FS_AddElement, FS_RemoveElement

LEMMA BellStarts == ASSUME BellInit PROVE BellInv
<1> USE DEF BellInit
<1>1. Unread = {} /\ OnTheWay = {} /\ SavedMarks = {}
    BY DEF Unread, OnTheWay, SavedMarks, NoMark
<1>2. BellTypes /\ OneLine /\ PushesAreNotes
    BY DEF BellTypes, OneLine, PushesAreNotes, OnTheWay, NoAsk, NoMark, AskRows, MarkRows
<1>3. AllFinite
    BY <1>1, FS_EmptySet DEF AllFinite
<1>4. CountsAreRight
    BY DEF CountsAreRight, NoAsk
<1>5. SumKept
    <2>1. ~AllMarked
        BY DEF AllMarked, NoMark
    <2> QED
        BY <1>1, <2>1, FS_EmptySet DEF SumKept
<1> QED
    BY <1>2, <1>3, <1>4, <1>5 DEF BellInv

\* A count is asked for.
LEMMA AskIs ==
    ASSUME BellTypes, AskCount
    PROVE  /\ ask' \in [Asks -> AskRows]
           /\ \A a \in Asks : ask'[a].state = "read" => ask'[a] = ask[a]
BY DEF AskCount, BellTypes, AskRows, NoAsk

LEMMA CrossedIs ==
    ASSUME BellTypes, ask' = Crossed
    PROVE  /\ ask' \in [Asks -> AskRows]
           /\ \A a \in Asks : ask'[a].state = "read" => ask'[a].crossed
BY DEF Crossed, BellTypes, AskRows

LEMMA SaveNoteKeeps ==
    ASSUME BellInv, NEW n \in Notes, SaveNote(n)
    PROVE  BellInv'
<1> USE DEF BellInv, SaveNote
<1>1. /\ Unread' = Unread \cup {n} /\ n \notin Unread
      /\ n \notin due /\ n \notin OnTheWay
      /\ OnTheWay' = OnTheWay /\ SavedMarks' = SavedMarks /\ AllMarked' = AllMarked
    BY DEF Unread, OnTheWay, SavedMarks, AllMarked, PushesAreNotes, BellTypes
<1>2. BellTypes'
    BY CrossedIs DEF BellTypes
<1>3. OneLine' /\ PushesAreNotes'
    BY <1>1 DEF OneLine, PushesAreNotes, BellTypes
<1>4. AllFinite'
    BY <1>1, Counting DEF AllFinite
<1>5. CountsAreRight'
    BY CrossedIs DEF CountsAreRight
<1>6. SumKept'
    <2>1. SUFFICES ASSUME ~adrift, ~AllMarked PROVE SumKept'
        BY DEF SumKept
    <2>2. \A m \in due' \cup OnTheWay' : note'[m] = "unread"
        BY <1>1, <2>1 DEF SumKept, BellTypes
    <2>3. Cardinality(Unread') = Cardinality(Unread) + 1 /\ Cardinality(due') = Cardinality(due) + 1
        BY <1>1, Counting DEF AllFinite
    <2>4. Cardinality(OnTheWay) \in Nat /\ Cardinality(due) \in Nat /\ Cardinality(Unread) \in Nat
          /\ Cardinality(SavedMarks) \in Nat /\ badge \in Nat
        BY FS_CardinalityType DEF AllFinite, BellTypes
    <2>5. badge + Cardinality(due) + Cardinality(OnTheWay) = Cardinality(Unread) + Cardinality(SavedMarks)
        BY <2>1 DEF SumKept
    <2>6. badge' + Cardinality(due') + Cardinality(OnTheWay') = Cardinality(Unread') + Cardinality(SavedMarks')
        BY <1>1, <2>3, <2>4, <2>5
    <2> QED
        BY <1>1, <2>1, <2>2, <2>6 DEF SumKept
<1> QED
    BY <1>2, <1>3, <1>4, <1>5, <1>6

LEMMA PushNoteKeeps ==
    ASSUME BellInv, NEW n \in Notes, PushNote(n)
    PROVE  BellInv'
<1> USE DEF BellInv, PushNote
<1>1. /\ Unread' = Unread /\ SavedMarks' = SavedMarks /\ AllMarked' = AllMarked
      /\ n \in due /\ n \notin OnTheWay /\ note[n] # "none"
    BY DEF Unread, OnTheWay, SavedMarks, AllMarked, PushesAreNotes
<1>2. OnTheWay' = IF live = {} THEN OnTheWay ELSE OnTheWay \cup {n}
    <2>1. CASE live = {}
        BY <2>1 DEF OnTheWay
    <2>2. CASE live # {}
        <3>1. PICK l : live = {l}
            BY <2>2 DEF OneLine
        <3>2. wire' = wire \cup {<<l, n>>}
            BY <3>1
        <3>3. <<l, n>>[2] = n
            OBVIOUS
        <3>4. \A x : x \in OnTheWay' <=> x \in OnTheWay \/ x = n
            BY <3>2, <3>3, Zenon DEF OnTheWay
        <3> QED
            BY <2>2, <3>4
    <2> QED
        BY <2>1, <2>2
<1>3. BellTypes' /\ OneLine'
    BY DEF BellTypes, OneLine
<1>4. PushesAreNotes'
    BY <1>1, <1>2 DEF PushesAreNotes
<1>5. AllFinite'
    BY <1>1, <1>2, Counting DEF AllFinite
<1>6. CountsAreRight'
    BY <1>1 DEF CountsAreRight
<1>7. SumKept'
    <2>1. SUFFICES ASSUME ~adrift, live # {} PROVE SumKept'
        BY DEF SumKept
    <2>2. \A m \in due' \cup OnTheWay' : note'[m] = "unread"
        BY <1>1, <1>2, <2>1 DEF SumKept
    <2>3. ~AllMarked
        BY <1>1, <2>1 DEF SumKept
    <2>4. Cardinality(OnTheWay') = Cardinality(OnTheWay) + 1 /\ Cardinality(due') = Cardinality(due) - 1
        BY <1>1, <1>2, <2>1, Counting DEF AllFinite
    <2>5. Cardinality(OnTheWay) \in Nat /\ Cardinality(due) \in Nat /\ badge \in Nat
        BY FS_CardinalityType DEF AllFinite, BellTypes
    <2>6. badge' + Cardinality(due') + Cardinality(OnTheWay') = Cardinality(Unread') + Cardinality(SavedMarks')
        BY <1>1, <2>1, <2>3, <2>4, <2>5 DEF SumKept
    <2> QED
        BY <1>1, <2>1, <2>2, <2>3, <2>6 DEF SumKept
<1> QED
    BY <1>3, <1>4, <1>5, <1>6, <1>7

LEMMA ReadElsewhereKeeps ==
    ASSUME BellInv, NEW n \in Notes, ReadElsewhere(n)
    PROVE  BellInv'
<1> USE DEF BellInv, ReadElsewhere
<1>1. Unread' = Unread \ {n} /\ OnTheWay' = OnTheWay /\ SavedMarks' = SavedMarks
    BY DEF Unread, OnTheWay, SavedMarks, BellTypes
<1>2. BellTypes'
    BY CrossedIs DEF BellTypes
<1>3. OneLine' /\ PushesAreNotes'
    BY <1>1 DEF OneLine, PushesAreNotes, BellTypes
<1>4. AllFinite'
    BY <1>1, Counting DEF AllFinite
<1>5. CountsAreRight'
    BY CrossedIs DEF CountsAreRight
<1>6. SumKept'
    BY DEF SumKept
<1> QED
    BY <1>2, <1>3, <1>4, <1>5, <1>6

LEMMA LineKeeps ==
    ASSUME BellInv, (\E l \in Lines : Connect(l) \/ ComeBack(l)) \/ Disconnect
    PROVE  BellInv'
<1> USE DEF BellInv
<1>1. UNCHANGED <<note, due, badge, mark>> /\ (adrift' = adrift \/ adrift' = TRUE) /\ (adrift => adrift')
    BY DEF Connect, ComeBack, Disconnect, BellTypes
<1>2. Unread' = Unread /\ SavedMarks' = SavedMarks /\ AllMarked' = AllMarked
    BY <1>1 DEF Unread, SavedMarks, AllMarked
<1>3. wire' = {} /\ (~adrift' => wire = {})
    BY DEF Connect, ComeBack, Disconnect, OnlyLine, BellTypes
<1>4. OnTheWay' = {} /\ (~adrift' => OnTheWay = {})
    BY <1>3 DEF OnTheWay
<1>5. /\ ask' \in [Asks -> AskRows]
      /\ \A a \in Asks : ask'[a].state = "read" => ask'[a] = ask[a]
    BY AskIs DEF Connect, ComeBack, Disconnect, BellTypes
<1>6. BellTypes'
    BY <1>1, <1>3, <1>5 DEF BellTypes
<1>7. OneLine'
    BY DEF OneLine, Connect, ComeBack, Disconnect, OnlyLine
<1>8. PushesAreNotes'
    BY <1>1, <1>4 DEF PushesAreNotes
<1>9. AllFinite'
    BY <1>1, <1>2, <1>4, FS_EmptySet DEF AllFinite
<1>10. CountsAreRight'
    BY <1>1, <1>2, <1>3, <1>5 DEF CountsAreRight
<1>11. SumKept'
    BY <1>1, <1>2, <1>3, <1>4 DEF SumKept
<1> QED
    BY <1>6, <1>7, <1>8, <1>9, <1>10, <1>11

LEMMA ReceiveNoteKeeps ==
    ASSUME BellInv, NEW l, NEW n \in Notes, ReceiveNote(l, n)
    PROVE  BellInv'
<1> USE DEF BellInv, ReceiveNote
<1>1. /\ Unread' = Unread /\ SavedMarks' = SavedMarks /\ AllMarked' = AllMarked
      /\ n \in OnTheWay
    BY DEF Unread, OnTheWay, SavedMarks, AllMarked
<1>2. OnTheWay' = OnTheWay \ {n}
    <2>1. \A w \in wire : w = <<w[1], w[2]>> /\ w[1] = l
        BY DEF OneLine, BellTypes
    <2> QED
        BY <2>1 DEF OnTheWay
<1>3. BellTypes' /\ OneLine'
    BY DEF BellTypes, OneLine
<1>4. PushesAreNotes'
    BY <1>2 DEF PushesAreNotes
<1>5. AllFinite'
    BY <1>1, <1>2, Counting DEF AllFinite
<1>6. CountsAreRight'
    BY DEF CountsAreRight
<1>7. SumKept'
    <2>1. SUFFICES ASSUME ~adrift, ~AllMarked PROVE SumKept'
        BY DEF SumKept
    <2>2. \A m \in due' \cup OnTheWay' : note'[m] = "unread"
        BY <1>2, <2>1 DEF SumKept
    <2>3. Cardinality(OnTheWay') = Cardinality(OnTheWay) - 1
        BY <1>1, <1>2, Counting DEF AllFinite
    <2>4. Cardinality(OnTheWay) \in Nat /\ Cardinality(due) \in Nat /\ badge \in Nat
        BY FS_CardinalityType DEF AllFinite, BellTypes
    <2>5. badge' + Cardinality(due') + Cardinality(OnTheWay') = Cardinality(Unread') + Cardinality(SavedMarks')
        BY <1>1, <2>1, <2>3, <2>4 DEF SumKept
    <2> QED
        BY <1>1, <2>1, <2>2, <2>5 DEF SumKept
<1> QED
    BY <1>3, <1>4, <1>5, <1>6, <1>7

\* Steps that count nothing: the list is read, a count is read, a mark is pressed.
LEMMA NothingCounted ==
    ASSUME BellInv, UNCHANGED <<note, due, live, wire, badge, adrift>>,
           mark' \in [Marks -> MarkRows], \A k \in Marks : mark'[k].saved <=> mark[k].saved,
           \A k \in Marks : mark[k].saved => mark'[k] = mark[k],
           ask' \in [Asks -> AskRows], CountsAreRight'
    PROVE  BellInv'
<1> USE DEF BellInv
<1>1. Unread' = Unread /\ OnTheWay' = OnTheWay
    BY DEF Unread, OnTheWay
<1>2. SavedMarks' = SavedMarks
    BY DEF SavedMarks
<1>3. AllMarked' <=> AllMarked
    <2>1. AllMarked <=> \E k \in Marks : mark[k].what = "all" /\ mark[k].saved
        BY AllMarkedIs DEF AllMarked, BellTypes
    <2>2. AllMarked' <=> \E k \in Marks : mark'[k].what = "all" /\ mark'[k].saved
        BY AllMarkedIs DEF AllMarked
    <2> QED
        BY <2>1, <2>2
<1>4. BellTypes'
    BY DEF BellTypes
<1>5. OneLine' /\ PushesAreNotes' /\ AllFinite'
    BY <1>1, <1>2 DEF OneLine, PushesAreNotes, AllFinite
<1>6. SumKept'
    BY <1>1, <1>2, <1>3 DEF SumKept
<1> QED
    BY <1>4, <1>5, <1>6

LEMMA ListKeepsBell == ASSUME BellInv, FetchList PROVE BellInv'
<1>1. /\ ask' \in [Asks -> AskRows]
      /\ \A a \in Asks : ask'[a].state = "read" => ask'[a] = ask[a]
    BY AskIs DEF FetchList, BellInv, BellTypes
<1>2. CountsAreRight'
    BY <1>1 DEF CountsAreRight, BellInv, FetchList, Unread, SavedMarks
<1> QED
    BY <1>1, <1>2, NothingCounted DEF FetchList, BellInv, BellTypes

LEMMA ReadCountKeeps ==
    ASSUME BellInv, NEW a \in Asks, ReadCount(a)
    PROVE  BellInv'
<1> USE DEF ReadCount
<1> DEFINE passedBy == wire # {} \/ due # {} \/ \E k \in Marks : mark[k].saved
<1>1. Cardinality(Unread) \in Nat
    BY FS_CardinalityType DEF BellInv, AllFinite
<1>2. /\ ask' = [ask EXCEPT ![a] = [state |-> "read", count |-> Cardinality(Unread), crossed |-> passedBy]]
      /\ passedBy \in BOOLEAN
    OBVIOUS
<1>3. ~passedBy => wire = {} /\ due = {} /\ SavedMarks = {}
    BY DEF SavedMarks
<1>4. Unread' = Unread /\ SavedMarks' = SavedMarks
    BY DEF Unread, SavedMarks
<1> HIDE DEF passedBy
<1>5. ask' \in [Asks -> AskRows]
    BY <1>1, <1>2 DEF BellInv, BellTypes, AskRows
<1>6. ask'[a].count = Cardinality(Unread) /\ ask'[a].crossed = passedBy
      /\ \A b \in Asks \ {a} : ask'[b] = ask[b]
    BY <1>2 DEF BellInv, BellTypes
<1>7. CountsAreRight'
    BY <1>3, <1>4, <1>6 DEF CountsAreRight, BellInv
<1> QED
    BY <1>5, <1>7, NothingCounted DEF BellInv, BellTypes

LEMMA ShowCountKeeps ==
    ASSUME BellInv, NEW a \in Asks, ShowCount(a)
    PROVE  BellInv'
<1> USE DEF BellInv
<1>1. /\ ask[a].state = "read" /\ ask' = [ask EXCEPT ![a] = NoAsk]
      /\ UNCHANGED <<note, due, live, wire, list, mark>>
    BY DEF ShowCount
<1>2. /\ ask' \in [Asks -> AskRows]
      /\ \A b \in Asks : ask'[b].state = "read" => ask'[b] = ask[b]
    BY <1>1 DEF BellTypes, AskRows, NoAsk
<1>3. Unread' = Unread /\ SavedMarks' = SavedMarks /\ OnTheWay' = OnTheWay /\ AllMarked' = AllMarked
    BY <1>1 DEF Unread, SavedMarks, OnTheWay, AllMarked
<1>4. CountsAreRight'
    BY <1>1, <1>2, <1>3 DEF CountsAreRight
<1>5. CASE UNCHANGED <<badge, adrift>>
    BY <1>1, <1>2, <1>4, <1>5, NothingCounted DEF BellTypes
<1>6. CASE badge' = ask[a].count /\ adrift' = ask[a].crossed
    <2>1. BellTypes' /\ OneLine' /\ PushesAreNotes' /\ AllFinite'
        BY <1>1, <1>2, <1>3, <1>6 DEF BellTypes, OneLine, PushesAreNotes, AllFinite, AskRows
    <2>2. SumKept'
        <3>1. SUFFICES ASSUME ~ask[a].crossed PROVE SumKept'
            BY <1>6 DEF SumKept
        <3>2. /\ ask[a].count = Cardinality(Unread) /\ wire = {} /\ due = {} /\ SavedMarks = {}
            BY <1>1, <3>1 DEF CountsAreRight
        <3>3. OnTheWay = {} /\ ~AllMarked
            BY <3>2, AllMarkedIs DEF OnTheWay, AllMarked, SavedMarks, BellTypes
        <3>4. Cardinality({}) = 0 /\ Cardinality(Unread) \in Nat
            BY FS_EmptySet, FS_CardinalityType DEF AllFinite
        <3> QED
            BY <1>1, <1>3, <1>6, <3>2, <3>3, <3>4 DEF SumKept
    <2> QED
        BY <1>4, <2>1, <2>2
<1> QED
    BY <1>5, <1>6 DEF ShowCount

LEMMA PressMarkKeeps ==
    ASSUME BellInv, NEW k \in Marks, PressAll(k) \/ \E n \in Notes : PressNote(k, n)
    PROVE  BellInv'
<1>1. /\ mark[k] = NoMark /\ UNCHANGED <<note, due, live, wire, badge, list, ask, adrift>>
      /\ \E w \in Notes \cup {"all"} : mark' = [mark EXCEPT ![k].what = w]
    BY DEF PressAll, PressNote
<1>2. /\ mark' \in [Marks -> MarkRows] /\ ~mark[k].saved /\ ~mark'[k].saved
      /\ \A j \in Marks \ {k} : mark'[j] = mark[j]
    <2>1. PICK w \in Notes \cup {"all"} : mark' = [mark EXCEPT ![k].what = w]
        BY <1>1
    <2>2. mark \in [Marks -> MarkRows] /\ ~mark[k].saved
        BY <1>1 DEF NoMark, BellInv, BellTypes
    <2>3. [mark[k] EXCEPT !.what = w] \in MarkRows /\ ~[mark[k] EXCEPT !.what = w].saved
        BY <2>2 DEF MarkRows
    <2> DEFINE row == [mark[k] EXCEPT !.what = w]
    <2>4. mark' = [mark EXCEPT ![k] = row]
        BY <2>1
    <2>5. row \in MarkRows /\ ~row.saved
        BY <2>3
    <2> HIDE DEF row
    <2> QED
        BY <2>2, <2>4, <2>5
<1>3. SavedMarks' = SavedMarks /\ Unread' = Unread
    BY <1>1, <1>2 DEF SavedMarks, Unread
<1>4. CountsAreRight'
    BY <1>1, <1>3 DEF CountsAreRight, BellInv
<1> QED
    BY <1>1, <1>2, <1>4, NothingCounted DEF BellInv, BellTypes

\* What a mark's answer or loss leaves: the mark is free again.
LEMMA FreedMark ==
    ASSUME BellTypes, NEW k \in Marks, mark' = [mark EXCEPT ![k] = NoMark]
    PROVE  /\ mark' \in [Marks -> MarkRows]
           /\ \A j \in Marks : mark'[j].what = "nothing" => ~mark'[j].saved
           /\ SavedMarks' = SavedMarks \ {k}
           /\ AllMarked' <=> \E j \in Marks \ {k} : mark[j].what = "all" /\ mark[j].saved
<1>1. mark'[k] = NoMark /\ \A j \in Marks \ {k} : mark'[j] = mark[j]
    BY DEF BellTypes
<1>2. NoMark \in MarkRows /\ ~NoMark.saved /\ NoMark.what # "all"
    BY DEF NoMark, MarkRows
<1>3. mark' \in [Marks -> MarkRows]
    BY <1>2 DEF BellTypes
<1>4. SavedMarks' = SavedMarks \ {k}
    BY <1>1, <1>2 DEF SavedMarks
<1>5. AllMarked' <=> \E j \in Marks : mark'[j].what = "all" /\ mark'[j].saved
    BY <1>3, AllMarkedIs DEF AllMarked
<1> QED
    BY <1>1, <1>2, <1>3, <1>4, <1>5 DEF BellTypes

LEMMA MarkLostKeeps ==
    ASSUME BellInv, NEW k \in Marks, MarkLost(k)
    PROVE  BellInv'
<1>1. /\ mark' = [mark EXCEPT ![k] = NoMark] /\ adrift' = (adrift \/ mark[k].saved)
      /\ UNCHANGED <<note, due, live, wire, badge, list, ask>>
    BY DEF MarkLost
<1>2. /\ mark' \in [Marks -> MarkRows]
      /\ \A j \in Marks : mark'[j].what = "nothing" => ~mark'[j].saved
      /\ SavedMarks' = SavedMarks \ {k}
      /\ AllMarked' <=> \E j \in Marks \ {k} : mark[j].what = "all" /\ mark[j].saved
    BY <1>1, FreedMark DEF BellInv
<1>3. Unread' = Unread /\ OnTheWay' = OnTheWay
    BY <1>1 DEF Unread, OnTheWay
<1>4. mark[k].saved \in BOOLEAN /\ adrift \in BOOLEAN
    BY DEF BellInv, BellTypes, MarkRows
<1>5. BellTypes'
    BY <1>1, <1>2, <1>4 DEF BellTypes, BellInv
<1>6. OneLine' /\ PushesAreNotes'
    BY <1>1, <1>3 DEF OneLine, PushesAreNotes, BellInv
<1>7. AllFinite'
    BY <1>1, <1>2, <1>3, FS_RemoveElement DEF AllFinite, BellInv
<1>8. CountsAreRight'
    BY <1>1, <1>2, <1>3 DEF CountsAreRight, BellInv
<1>9. SumKept'
    <2>1. SUFFICES ASSUME ~adrift, ~mark[k].saved PROVE SumKept'
        BY <1>1 DEF SumKept
    <2>2. SavedMarks' = SavedMarks
        BY <1>2, <2>1 DEF SavedMarks
    <2>3. AllMarked' <=> AllMarked
        <3>1. AllMarked <=> \E j \in Marks : mark[j].what = "all" /\ mark[j].saved
            BY AllMarkedIs DEF AllMarked, BellInv, BellTypes
        <3> QED
            BY <1>2, <2>1, <3>1
    <2> QED
        BY <1>1, <1>3, <2>2, <2>3 DEF SumKept, BellInv
<1> QED
    BY <1>5, <1>6, <1>7, <1>8, <1>9 DEF BellInv

LEMMA MarkAnsweredKeeps ==
    ASSUME BellInv, NEW k \in Marks, MarkAnswered(k)
    PROVE  BellInv'
<1>1. /\ mark' = [mark EXCEPT ![k] = NoMark] /\ mark[k].saved
      /\ UNCHANGED <<note, due, live, wire, adrift>>
    BY DEF MarkAnswered
<1>2. /\ mark' \in [Marks -> MarkRows]
      /\ \A j \in Marks : mark'[j].what = "nothing" => ~mark'[j].saved
      /\ SavedMarks' = SavedMarks \ {k}
      /\ AllMarked' <=> \E j \in Marks \ {k} : mark[j].what = "all" /\ mark[j].saved
    BY <1>1, FreedMark DEF BellInv
<1>3. Unread' = Unread /\ OnTheWay' = OnTheWay /\ k \in SavedMarks
    BY <1>1 DEF Unread, OnTheWay, SavedMarks
<1>4. /\ ask' \in [Asks -> AskRows]
      /\ \A a \in Asks : ask'[a].state = "read" => ask'[a] = ask[a]
    BY AskIs DEF MarkAnswered, BellInv, BellTypes
<1>5. badge' \in Nat
    BY DEF MarkAnswered, BellInv, BellTypes
<1>6. BellTypes'
    BY <1>1, <1>2, <1>4, <1>5 DEF BellTypes, BellInv
<1>7. OneLine' /\ PushesAreNotes'
    BY <1>1, <1>3 DEF OneLine, PushesAreNotes, BellInv
<1>8. AllFinite'
    BY <1>1, <1>2, <1>3, FS_RemoveElement DEF AllFinite, BellInv
<1>9. CountsAreRight'
    BY <1>3, <1>4 DEF CountsAreRight, BellInv
<1>10. SumKept'
    <2> SUFFICES ASSUME ~adrift PROVE SumKept'
        BY <1>1 DEF SumKept
    <2>1. AllMarked <=> \E j \in Marks : mark[j].what = "all" /\ mark[j].saved
        BY AllMarkedIs DEF AllMarked, BellInv, BellTypes
    <2>2. AllMarked => SavedMarks = {k} /\ mark[k].what = "all"
        <3>1. ASSUME AllMarked, NEW j \in Marks, mark[j].what = "all" /\ mark[j].saved
              PROVE  SavedMarks = {k} /\ j = k
            BY <1>3, <3>1 DEF SumKept, BellInv, SavedMarks
        <3> QED
            BY <2>1, <3>1
    <2>3. ~AllMarked'
        BY <1>2, <2>1, <2>2 DEF SavedMarks
    <2>4. \A m \in due' \cup OnTheWay' : note'[m] = "unread"
        BY <1>1, <1>3 DEF SumKept, BellInv
    <2>5. CASE mark[k].what = "all"
        <3>1. AllMarked /\ badge' = 0
            BY <1>1, <2>1, <2>5 DEF MarkAnswered
        <3>2. Unread = {} /\ due = {} /\ wire = {} /\ SavedMarks' = {}
            BY <1>2, <2>2, <3>1 DEF SumKept, BellInv
        <3>3. OnTheWay = {}
            BY <3>2 DEF OnTheWay
        <3>4. badge' + Cardinality(due') + Cardinality(OnTheWay') = Cardinality(Unread') + Cardinality(SavedMarks')
            BY <1>1, <1>3, <3>1, <3>2, <3>3, FS_EmptySet
        <3> QED
            BY <2>3, <2>4, <3>4 DEF SumKept
    <2>6. CASE mark[k].what # "all"
        <3>1. ~AllMarked /\ badge' = IF badge > 0 THEN badge - 1 ELSE 0
            BY <2>2, <2>6 DEF MarkAnswered
        <3>2. badge + Cardinality(due) + Cardinality(OnTheWay) = Cardinality(Unread) + Cardinality(SavedMarks)
            BY <3>1 DEF SumKept, BellInv
        <3>3. Cardinality(SavedMarks') = Cardinality(SavedMarks) - 1
            BY <1>2, <1>3, Counting DEF AllFinite, BellInv
        <3>4. /\ badge \in Nat /\ Cardinality(due) \in Nat /\ Cardinality(OnTheWay) \in Nat
              /\ Cardinality(Unread) \in Nat /\ Cardinality(SavedMarks) \in Nat
              /\ Cardinality(SavedMarks') \in Nat
            BY <1>8, FS_CardinalityType DEF AllFinite, BellInv, BellTypes
        \* The badge has one to take off: what is to be added is among the unread.
        <3>5. Cardinality(due) + Cardinality(OnTheWay) <= Cardinality(Unread)
            <4>1. IsFiniteSet(due) /\ IsFiniteSet(OnTheWay) /\ IsFiniteSet(Unread) /\ due \cap OnTheWay = {}
                BY DEF BellInv, AllFinite, PushesAreNotes
            <4>2. due \cup OnTheWay \subseteq Unread
                <5>1. OnTheWay \subseteq Notes /\ due \subseteq Notes
                    BY DEF BellInv, BellTypes, OnTheWay
                <5> QED
                    BY <5>1 DEF SumKept, BellInv, Unread
            <4>3. Cardinality(due \cup OnTheWay) = Cardinality(due) + Cardinality(OnTheWay)
                <5>1. Cardinality(due \cup OnTheWay)
                          = Cardinality(due) + Cardinality(OnTheWay) - Cardinality(due \cap OnTheWay)
                    BY <4>1, FS_Union
                <5>2. Cardinality(due \cap OnTheWay) = 0
                    BY <4>1, FS_EmptySet
                <5> QED
                    BY <3>4, <5>1, <5>2
            <4> QED
                BY <4>1, <4>2, <4>3, FS_Subset
        <3>6. badge' + Cardinality(due) + Cardinality(OnTheWay) = Cardinality(Unread) + Cardinality(SavedMarks')
            BY <3>1, <3>2, <3>3, <3>4, <3>5
        <3> QED
            BY <1>1, <1>3, <2>3, <2>4, <3>6 DEF SumKept
    <2> QED
        BY <2>5, <2>6
<1> QED
    BY <1>6, <1>7, <1>8, <1>9, <1>10 DEF BellInv

LEMMA MarkSavedKeeps ==
    ASSUME BellInv, NEW k \in Marks, MarkSaved(k)
    PROVE  BellInv'
<1>1. /\ mark[k].what # "nothing" /\ ~mark[k].saved
      /\ note' = [n \in Notes |-> IF n \in Marked(k) \cap Unread THEN "read" ELSE note[n]]
      /\ mark' = [mark EXCEPT ![k].saved = TRUE]
      /\ ask' = Crossed
      /\ UNCHANGED <<due, live, wire, badge, list>>
    BY DEF MarkSaved
<1>2. /\ mark \in [Marks -> MarkRows] /\ mark[k].what \in Notes \cup {"all"}
      /\ \A j \in Marks : mark[j].saved \in BOOLEAN
    BY <1>1 DEF BellInv, BellTypes, MarkRows
<1>3. /\ mark' \in [Marks -> MarkRows]
      /\ mark'[k].what = mark[k].what /\ mark'[k].saved
      /\ \A j \in Marks \ {k} : mark'[j] = mark[j]
    BY <1>1, <1>2 DEF MarkRows
<1>4. /\ SavedMarks' = SavedMarks \cup {k} /\ k \notin SavedMarks
    BY <1>1, <1>3 DEF SavedMarks
<1>5. Unread' = Unread \ Marked(k) /\ Marked(k) \subseteq Notes
    BY <1>1, <1>2 DEF Unread, Marked
<1>6. OnTheWay' = OnTheWay
    BY <1>1 DEF OnTheWay
<1>7. BellTypes'
    <2>1. note' \in [Notes -> {"none", "unread", "read"}]
        BY <1>1 DEF BellInv, BellTypes
    <2>2. adrift' \in BOOLEAN
        BY DEF MarkSaved, BellInv, BellTypes
    <2>3. ask' \in [Asks -> AskRows]
        BY <1>1, CrossedIs DEF BellInv
    <2>4. \A j \in Marks : mark'[j].what = "nothing" => ~mark'[j].saved
        BY <1>1, <1>3 DEF BellInv, BellTypes
    <2> QED
        BY <1>1, <1>3, <2>1, <2>2, <2>3, <2>4 DEF BellInv, BellTypes
<1>8. OneLine' /\ PushesAreNotes'
    <2>1. \A n \in Notes : note[n] # "none" => note'[n] # "none"
        BY <1>1
    <2>2. due \subseteq Notes /\ OnTheWay \subseteq Notes
        BY DEF BellInv, BellTypes, OnTheWay
    <2> QED
        BY <1>1, <1>6, <2>1, <2>2 DEF BellInv, OneLine, PushesAreNotes
<1>9. AllFinite'
    BY <1>1, <1>4, <1>5, <1>6, FS_Subset, FS_AddElement DEF BellInv, AllFinite
<1>10. CountsAreRight'
    BY <1>1, CrossedIs DEF CountsAreRight, BellInv
<1>11. SumKept'
    <2> SUFFICES ASSUME ~adrift' PROVE SumKept'
        BY DEF SumKept
    <2>1. /\ ~adrift /\ ~AllMarked
          /\ Marked(k) \cap (due \cup OnTheWay) = {}
          /\ mark[k].what \notin Notes \ Unread
          /\ mark[k].what = "all" => \A j \in Marks \ {k} : ~mark[j].saved
        BY Zenon DEF MarkSaved, OnTheWay
    <2>2. due \subseteq Notes /\ OnTheWay \subseteq Notes
        BY DEF BellInv, BellTypes, OnTheWay
    <2>3. \A m \in due' \cup OnTheWay' : note'[m] = "unread"
        <3>1. \A m \in due \cup OnTheWay : m \in Notes /\ m \notin Marked(k) /\ note[m] = "unread"
            BY <2>1, <2>2 DEF SumKept, BellInv
        <3> QED
            BY <1>1, <1>6, <3>1
    <2>4. AllMarked' <=> \E j \in Marks : mark'[j].what = "all" /\ mark'[j].saved
        BY <1>3, AllMarkedIs DEF AllMarked
    <2>5. \A j \in Marks : ~(mark[j].what = "all" /\ mark[j].saved)
        BY <1>2, <2>1, AllMarkedIs DEF AllMarked
    <2>6. CASE mark[k].what = "all"
        <3>1. AllMarked'
            BY <1>3, <2>4, <2>6
        <3>2. Marked(k) = Notes
            BY <2>6 DEF Marked
        <3>3. Unread' = {} /\ due' = {} /\ OnTheWay = {}
            BY <1>1, <1>5, <2>1, <2>2, <3>2 DEF Unread
        <3>4. wire' = {}
            BY <1>1, <3>3 DEF OnTheWay
        <3>5. \A i, j \in SavedMarks' : i = j
            BY <1>4, <2>1, <2>6 DEF SavedMarks
        <3> QED
            BY <2>3, <3>1, <3>3, <3>4, <3>5 DEF SumKept
    <2>7. CASE mark[k].what # "all"
        <3>1. Marked(k) = {mark[k].what} /\ mark[k].what \in Unread
            BY <1>2, <2>1, <2>7 DEF Marked
        <3>2. ~AllMarked'
            BY <1>3, <2>4, <2>5, <2>7
        <3>3. Cardinality(Unread') = Cardinality(Unread) - 1
            BY <1>5, <3>1, Counting DEF BellInv, AllFinite
        <3>4. Cardinality(SavedMarks') = Cardinality(SavedMarks) + 1
            BY <1>4, Counting DEF BellInv, AllFinite
        <3>5. badge + Cardinality(due) + Cardinality(OnTheWay) = Cardinality(Unread) + Cardinality(SavedMarks)
            BY <2>1 DEF BellInv, SumKept
        <3>6. Cardinality(Unread) \in Nat /\ Cardinality(SavedMarks) \in Nat
            BY FS_CardinalityType DEF BellInv, AllFinite
        <3>7. badge' + Cardinality(due') + Cardinality(OnTheWay') = Cardinality(Unread') + Cardinality(SavedMarks')
            BY <1>1, <1>6, <3>3, <3>4, <3>5, <3>6
        <3> QED
            BY <2>3, <3>2, <3>7 DEF SumKept
    <2> QED
        BY <2>6, <2>7
<1> QED
    BY <1>7, <1>8, <1>9, <1>10, <1>11 DEF BellInv

LEMMA BellMoves == ASSUME BellInv, BellNext PROVE BellInv'
<1>1. ASSUME NEW n \in Notes, SaveNote(n) \/ PushNote(n) \/ ReadElsewhere(n) PROVE BellInv'
    BY <1>1, SaveNoteKeeps, PushNoteKeeps, ReadElsewhereKeeps
<1>2. ASSUME NEW l \in Lines, Connect(l) \/ ComeBack(l) \/ \E n \in Notes : ReceiveNote(l, n)
      PROVE  BellInv'
    BY <1>2, LineKeeps, ReceiveNoteKeeps
<1>3. CASE Disconnect
    BY <1>3, LineKeeps
<1>4. CASE FetchList
    BY <1>4, ListKeepsBell
<1>5. ASSUME NEW a \in Asks, ReadCount(a) \/ ShowCount(a) PROVE BellInv'
    BY <1>5, ReadCountKeeps, ShowCountKeeps
<1>6. ASSUME NEW k \in Marks,
             \/ PressAll(k) \/ MarkSaved(k) \/ MarkAnswered(k) \/ MarkLost(k)
             \/ \E n \in Notes : PressNote(k, n)
      PROVE  BellInv'
    BY <1>6, PressMarkKeeps, MarkSavedKeeps, MarkAnsweredKeeps, MarkLostKeeps
<1> QED
    BY <1>1, <1>2, <1>3, <1>4, <1>5, <1>6 DEF BellNext

LEMMA BellIdles == ASSUME BellInv, UNCHANGED bellVars PROVE BellInv'
BY DEF bellVars, BellInv, BellTypes, OneLine, PushesAreNotes, AllFinite, CountsAreRight, SumKept,
       OnTheWay, SavedMarks, AllMarked, Unread

LEMMA BellShowsIt == ASSUME BellInv PROVE BadgeRight
<1>1. SUFFICES ASSUME wire = {}, due = {}, mark = [k \in Marks |-> NoMark], ~adrift
      PROVE  badge = Cardinality(Unread)
    BY DEF BadgeRight
<1>2. OnTheWay = {} /\ SavedMarks = {} /\ ~AllMarked
    BY <1>1 DEF OnTheWay, SavedMarks, AllMarked, NoMark
<1>3. badge \in Nat /\ Cardinality(Unread) \in Nat
    BY FS_CardinalityType DEF BellInv, BellTypes, AllFinite
<1> QED
    BY <1>1, <1>2, <1>3, FS_EmptySet DEF BellInv, SumKept

\* When nothing is on its way the bell shows how many notifications are unread, for any numbers of
\* notifications, connections, counts and marks: whatever pushes, marks and counts cross, the
\* phone's own sums are right until its history says that they may not be.
THEOREM BellShowsUnread == PanelsSpec => []BadgeRight
<1>1. PanelsInit => BellInv
    BY BellStarts DEF PanelsInit
<1>2. BellInv /\ [PanelsNext]_panelVars => BellInv'
    <2>1. [PanelsNext]_panelVars => BellNext \/ UNCHANGED bellVars
        BY DEF PanelsNext, DeskStep, ChatStep, PositionStep, RatingsStep, BellStep, AddressesStep,
               ProfileStep, LimitsStep, panelVars
    <2> QED
        BY <2>1, BellMoves, BellIdles
<1>3. BellInv => BadgeRight
    BY BellShowsIt
<1> QED
    BY <1>1, <1>2, <1>3, PTL DEF PanelsSpec

-------------------------------------------------------------------------------
(* The ratings. *)

Averages == [count : Nat, average : Int]
RatingRequests ==
    [kind : {"none", "submit", "delete"}, load : Rated \cup {NoLoad}, stars : Scores \cup {0},
     phase : {"free", "sent", "checked", "read", "removed", "recounted", "saved", "refused", "over"},
     seen : Averages, new : Averages, late : BOOLEAN]

\* Who is not late has seen the account as it is, and will write what the rows make of it.
ReadsTrue(r) ==
    r.late \/ /\ r.phase = "read" => r.seen = kept /\ r.new = Moved(kept, r.stars)
              /\ r.phase = "recounted" => r.seen = kept /\ r.new = OfRows

GoodRequest(r) ==
    /\ r \in RatingRequests
    /\ r.kind = "submit" => r.stars \in Scores
    /\ r.phase # "free" => r.load \in Rated
    /\ r.phase \in {"checked", "read"} => r.kind = "submit"

RatingInv ==
    /\ score \in [Rated -> Scores \cup {NoScore}]
    /\ kept \in Averages
    /\ request \in [Handlers -> RatingRequests]
    /\ AverageOfRows
    /\ \A h \in Handlers : GoodRequest(request[h]) /\ ReadsTrue(request[h])

\* Dividing a multiple.
LEMMA WholeParts ==
    ASSUME NEW n \in Nat \ {0}, NEW k \in Nat, k % n = 0, NEW x \in Int
    PROVE  (k * x) \div n \in Int /\ ((k * x) \div n) * n = k * x
<1>1. PICK q \in Nat : q = k \div n /\ k = n * q
    OBVIOUS
<1>2. PICK m \in Int : m = q * x
    OBVIOUS
<1>3. k * x = n * m
    BY <1>1, <1>2
<1>4. (n * m) \div n = m
    OBVIOUS
<1> QED
    BY <1>3, <1>4

\* What the rows come to is a count and an average, and the average is no rounded one.
LEMMA RowsType ==
    ASSUME score \in [Rated -> Scores \cup {NoScore}]
    PROVE  /\ IsFiniteSet(RatedNow) /\ Cardinality(RatedNow) \in Nat
           /\ Total \in Int /\ OfRows \in Averages
           /\ RatedNow = {} => Total = 0
           /\ OfRows.average * OfRows.count = StarParts * Total
<1>1. /\ IsFiniteSet(RatedNow) /\ Cardinality(RatedNow) \in Nat
      /\ Cardinality(RatedNow) =< Cardinality(Rated) /\ Cardinality(Rated) \in Nat
      /\ RatedNow # {} => Cardinality(RatedNow) # 0
    <2>1. RatedNow \subseteq Rated
        BY DEF RatedNow
    <2> QED
        BY <2>1, RatingsAssumption, FS_Subset, FS_CardinalityType, FS_EmptySet
<1>2. \A l \in RatedNow : score[l] \in Int
    BY RatingsAssumption DEF RatedNow
<1>3. Total \in Int /\ (RatedNow = {} => Total = 0)
    BY <1>1, <1>2, SumType, SumOfNothing DEF Total
<1>4. PICK n \in Nat, x \in Int, k \in Nat : n = Cardinality(RatedNow) /\ x = Total /\ k = StarParts
    BY <1>1, <1>3, RatingsAssumption
<1>5. OfRows = [count |-> n, average |-> IF RatedNow = {} THEN 0 ELSE (k * x) \div n]
    BY <1>4 DEF OfRows
<1>6. CASE RatedNow = {}
    BY <1>1, <1>3, <1>4, <1>5, <1>6, FS_EmptySet DEF Averages
<1>7. CASE RatedNow # {}
    <2>1. n \in Nat \ {0} /\ k % n = 0
        BY <1>1, <1>4, <1>7, RatingsAssumption
    <2>2. PICK y \in Int : y = (k * x) \div n /\ y * n = k * x
        BY <2>1, WholeParts
    <2>3. OfRows = [count |-> n, average |-> y]
        BY <1>5, <1>7, <2>2
    <2> QED
        BY <1>1, <1>3, <1>4, <1>7, <2>2, <2>3 DEF Averages
<1> QED
    BY <1>6, <1>7

\* A row more moves what the rows come to as SubmitRating moves the account.
LEMMA RowAdded ==
    ASSUME score \in [Rated -> Scores \cup {NoScore}], NEW l \in Rated, score[l] = NoScore,
           NEW stars \in Scores, score' = [score EXCEPT ![l] = stars]
    PROVE  OfRows' = Moved(OfRows, stars)
<1>1. stars # NoScore /\ stars \in Int
    BY RatingsAssumption
<1>2. RatedNow' = RatedNow \cup {l} /\ l \notin RatedNow
    BY <1>1 DEF RatedNow
<1>3. PICK before, after, rows : before = score /\ after = score' /\ rows = RatedNow
    OBVIOUS
<1>4. /\ IsFiniteSet(rows) /\ \A y \in rows : before[y] = after[y] /\ after[y] \in Int
      /\ after[l] = stars /\ l \notin rows
    BY <1>2, <1>3, RowsType, RatingsAssumption DEF RatedNow
<1>5. SumOver(after, rows \cup {l}) = SumOver(after, rows) + after[l]
    BY <1>1, <1>4, SumWith
<1>6. SumOver(before, rows) = SumOver(after, rows)
    BY <1>4, SumSame
<1>7. Total = SumOver(before, rows) /\ Total' = SumOver(after, rows \cup {l})
    BY <1>2, <1>3 DEF Total, SumOver, MapThenSumSet, MapThenFoldSet
<1>8. Total' = Total + stars
    BY <1>4, <1>5, <1>6, <1>7
<1>9. Cardinality(RatedNow)' = Cardinality(RatedNow) + 1
    BY <1>2, <1>3, <1>4, FS_AddElement
<1>10. PICK n \in Nat, x \in Int, k \in Nat, s \in Int :
          n = Cardinality(RatedNow) /\ x = Total /\ k = StarParts /\ s = stars
    BY <1>1, RowsType, RatingsAssumption
<1>11. OfRows' = [count |-> n + 1, average |-> (k * (x + s)) \div (n + 1)]
    BY <1>2, <1>8, <1>9, <1>10 DEF OfRows
<1>12. OfRows.count = n /\ OfRows.average * n = k * x
    BY <1>10, RowsType DEF OfRows
<1>13. Moved(OfRows, stars) = [count |-> n + 1, average |-> (k * x + k * s) \div (n + 1)]
    BY <1>10, <1>12 DEF Moved
<1>14. k * (x + s) = k * x + k * s
    OBVIOUS
<1> QED
    BY <1>11, <1>13, <1>14

\* A step that leaves the rows leaves what they come to.
LEMMA RowsStay ==
    ASSUME score' = score
    PROVE  RatedNow' = RatedNow /\ OfRows' = OfRows
BY DEF RatedNow, OfRows, Total, SumOver, MapThenSumSet, MapThenFoldSet

\* A request that moves on, while rows and account stay, keeps the invariant when it is in time.
LEMMA RequestMoves ==
    ASSUME RatingInv, UNCHANGED <<score, kept, astray>>, NEW h \in Handlers, NEW r,
           request' = [request EXCEPT ![h] = r], GoodRequest(r), ReadsTrue(r)
    PROVE  RatingInv'
<1>1. OfRows' = OfRows
    BY RowsStay
<1>2. AverageOfRows'
    BY <1>1 DEF RatingInv, AverageOfRows
<1>3. ASSUME NEW g \in Handlers PROVE (GoodRequest(request[g]) /\ ReadsTrue(request[g]))'
    <2>1. PICK q : q = request'[g]
        OBVIOUS
    <2>2. GoodRequest(q) /\ ReadsTrue(q)
        BY <2>1 DEF RatingInv
    <2> QED
        BY <1>1, <2>1, <2>2 DEF GoodRequest, ReadsTrue, Moved
<1>4. request' \in [Handlers -> RatingRequests]
    BY DEF RatingInv, GoodRequest
<1> QED
    BY <1>2, <1>3, <1>4 DEF RatingInv

\* A request that writes makes the others late.
LEMMA RequestWrites ==
    ASSUME RatingInv, NEW h \in Handlers, NEW phase \in {"saved", "removed"}, Writes(h, phase),
           request[h].load \in Rated
    PROVE  /\ request' \in [Handlers -> RatingRequests]
           /\ \A g \in Handlers : (GoodRequest(request[g]) /\ ReadsTrue(request[g]))'
<1>1. ASSUME NEW g \in Handlers
      PROVE  request'[g] \in RatingRequests /\ (GoodRequest(request[g]) /\ ReadsTrue(request[g]))'
    <2>1. PICK q : q = request[g]
        OBVIOUS
    <2>2. GoodRequest(q)
        BY <2>1 DEF RatingInv
    <2>3. CASE g = h
        <3>1. PICK r : r = [q EXCEPT !.phase = phase]
            OBVIOUS
        <3>2. request'[g] = r
            BY <2>1, <2>3, <3>1 DEF Writes
        <3>3. GoodRequest(r) /\ r.phase = phase
            BY <2>1, <2>2, <2>3, <3>1 DEF GoodRequest, RatingRequests
        <3> QED
            BY <3>2, <3>3 DEF GoodRequest, ReadsTrue
    <2>4. CASE g # h /\ g \in AtWork
        <3>1. PICK r : r = [q EXCEPT !.late = TRUE]
            OBVIOUS
        <3>2. request'[g] = r
            BY <2>1, <2>4, <3>1 DEF Writes
        <3>3. GoodRequest(r) /\ r.late
            BY <2>2, <3>1 DEF GoodRequest, RatingRequests
        <3> QED
            BY <3>2, <3>3 DEF GoodRequest, ReadsTrue
    <2>5. CASE g # h /\ g \notin AtWork
        <3>1. request'[g] = q
            BY <2>1, <2>5 DEF Writes
        <3>2. q.phase \notin {"read", "recounted"}
            BY <2>1, <2>5 DEF AtWork
        <3> QED
            BY <2>2, <3>1, <3>2 DEF GoodRequest, ReadsTrue
    <2> QED
        BY <2>3, <2>4, <2>5
<1>2. request' = [g \in Handlers |-> request'[g]]
    BY DEF Writes
<1> QED
    BY <1>1, <1>2

\* SubmitRating moves an account to an account.
LEMMA MovedType ==
    ASSUME NEW seen \in Averages, NEW stars \in Scores
    PROVE  Moved(seen, stars) \in Averages
<1>1. PICK n \in Nat, a \in Int : seen = [count |-> n, average |-> a]
    BY DEF Averages
<1>2. PICK x \in Int : x = a * n + StarParts * stars
    BY RatingsAssumption
<1>3. Moved(seen, stars) = [count |-> n + 1, average |-> x \div (n + 1)]
    BY <1>1, <1>2 DEF Moved
<1>4. PICK m \in Nat \ {0} : m = n + 1
    OBVIOUS
<1>5. x \div m \in Int
    OBVIOUS
<1> QED
    BY <1>3, <1>4, <1>5 DEF Averages

\* What is written is an account, and whoever has seen it as it is writes what he meant to.
LEMMA WrittenType ==
    ASSUME NEW seen \in Averages, NEW new \in Averages, kept \in Averages, Written(new, seen)
    PROVE  kept' \in Averages /\ (seen = kept => kept' = new)
BY DEF Written, Averages

LEMMA SendRatingKeeps ==
    ASSUME RatingInv, NEW l \in Rated, NEW kind \in {"submit", "delete"}, NEW stars \in Scores \cup {0},
           kind = "submit" => stars \in Scores, SendRating(l, kind, stars)
    PROVE  RatingInv'
<1>1. PICK h \in Handlers :
          /\ request[h] = Free
          /\ request' = [request EXCEPT ![h] =
                 [Free EXCEPT !.kind = kind, !.load = l, !.stars = stars, !.phase = "sent"]]
          /\ UNCHANGED <<score, kept, form, astray>>
    BY DEF SendRating
<1>2. PICK r : r = [Free EXCEPT !.kind = kind, !.load = l, !.stars = stars, !.phase = "sent"]
    OBVIOUS
<1>3. r = [kind |-> kind, load |-> l, stars |-> stars, phase |-> "sent",
           seen |-> Unrated, new |-> Unrated, late |-> FALSE]
    BY <1>2 DEF Free
<1>4. Unrated \in Averages
    BY DEF Unrated, Averages
<1>5. GoodRequest(r)
    BY <1>3, <1>4 DEF GoodRequest, RatingRequests
<1>6. ReadsTrue(r)
    BY <1>3 DEF ReadsTrue
<1> QED
    BY <1>1, <1>2, <1>5, <1>6, RequestMoves

\* A request's phase alone moves on, to none in which it holds something it has read.
LEMMA PhaseMoves ==
    ASSUME RatingInv, UNCHANGED <<score, kept, astray>>, NEW h \in Handlers, request[h].load \in Rated,
           NEW phase \in {"checked", "refused", "over"}, phase = "checked" => request[h].kind = "submit",
           request' = [request EXCEPT ![h].phase = phase]
    PROVE  RatingInv'
<1>1. PICK q : q = request[h] /\ GoodRequest(q) /\ q.load \in Rated
    BY DEF RatingInv
<1>2. PICK r : r = [q EXCEPT !.phase = phase]
    OBVIOUS
<1>3. GoodRequest(r) /\ ReadsTrue(r)
    BY <1>1, <1>2 DEF GoodRequest, ReadsTrue, RatingRequests
<1>4. request' = [request EXCEPT ![h] = r]
    BY <1>1, <1>2
<1> QED
    BY <1>3, <1>4, RequestMoves

\* A request under way is about a load.
LEMMA AboutALoad ==
    ASSUME RatingInv, NEW h \in Handlers, request[h].phase # "free"
    PROVE  request[h].load \in Rated
BY DEF RatingInv, GoodRequest

LEMMA ReadRatedKeeps ==
    ASSUME RatingInv, NEW h \in Handlers, ReadRated(h)
    PROVE  RatingInv'
<1>1. PICK q : /\ q = request[h] /\ GoodRequest(q)
               /\ q.load \in Rated /\ q.stars \in Scores /\ q.kind = "submit"
    BY AboutALoad DEF RatingInv, GoodRequest, ReadRated
<1>2. kept \in Averages /\ Moved(kept, q.stars) \in Averages
    BY <1>1, MovedType DEF RatingInv
<1>3. PICK r : r = [q EXCEPT !.phase = "read", !.seen = kept, !.new = Moved(kept, q.stars)]
    OBVIOUS
<1>4. request' = [request EXCEPT ![h] = r] /\ UNCHANGED <<score, kept, astray>>
    BY <1>1, <1>3 DEF ReadRated
<1>5. GoodRequest(r)
    BY <1>1, <1>2, <1>3 DEF GoodRequest, RatingRequests
<1>6. r.stars = q.stars /\ r.phase = "read" /\ r.seen = kept /\ r.new = Moved(kept, q.stars)
    BY <1>1, <1>3 DEF GoodRequest, RatingRequests
<1> QED
    BY <1>4, <1>5, <1>6, RequestMoves DEF ReadsTrue

LEMMA ReadRowsKeeps ==
    ASSUME RatingInv, NEW h \in Handlers, ReadRows(h)
    PROVE  RatingInv'
<1>1. PICK q : q = request[h] /\ GoodRequest(q) /\ q.load \in Rated
    BY AboutALoad DEF RatingInv, ReadRows
<1>2. kept \in Averages /\ OfRows \in Averages
    BY RowsType DEF RatingInv
<1>3. PICK r : r = [q EXCEPT !.phase = "recounted", !.seen = kept, !.new = OfRows]
    OBVIOUS
<1>4. request' = [request EXCEPT ![h] = r] /\ UNCHANGED <<score, kept, astray>>
    BY <1>1, <1>3 DEF ReadRows
<1>5. GoodRequest(r)
    BY <1>1, <1>2, <1>3 DEF GoodRequest, RatingRequests
<1>6. r.phase = "recounted" /\ r.seen = kept /\ r.new = OfRows
    BY <1>1, <1>3 DEF GoodRequest, RatingRequests
<1> QED
    BY <1>4, <1>5, <1>6, RequestMoves DEF ReadsTrue

\* The save of a rating: the row and the account in one.
LEMMA SaveRatingKeeps ==
    ASSUME RatingInv, NEW h \in Handlers, SaveRating(h)
    PROVE  RatingInv'
<1>1. PICK r : r = request[h] /\ GoodRequest(r) /\ ReadsTrue(r) /\ r.load \in Rated /\ r.phase = "read"
               /\ r.kind = "submit" /\ r.stars \in Scores
    BY AboutALoad DEF RatingInv, GoodRequest, SaveRating
<1>2. CASE score[r.load] # NoScore
    BY <1>1, <1>2, PhaseMoves DEF SaveRating, Steps
<1>3. CASE score[r.load] = NoScore
    <2>1. /\ score' = [score EXCEPT ![r.load] = r.stars]
          /\ Written(r.new, r.seen)
          /\ Writes(h, "saved")
          /\ astray' = (astray \/ r.late)
        BY <1>1, <1>3 DEF SaveRating
    <2>2. score' \in [Rated -> Scores \cup {NoScore}]
        BY <1>1, <2>1 DEF RatingInv
    <2>3. kept' \in Averages /\ (r.seen = kept => kept' = r.new)
        BY <1>1, <2>1, WrittenType DEF RatingInv, GoodRequest, RatingRequests
    <2>4. OfRows' = Moved(OfRows, r.stars)
        BY <1>1, <1>3, <2>1, RowAdded DEF RatingInv
    <2>5. AverageOfRows'
        <3>1. SUFFICES ASSUME ~astray, ~r.late PROVE kept' = OfRows'
            BY <2>1 DEF AverageOfRows
        <3>2. kept = OfRows /\ r.seen = kept /\ r.new = Moved(kept, r.stars)
            BY <1>1, <3>1 DEF RatingInv, AverageOfRows, ReadsTrue
        <3> QED
            BY <2>3, <2>4, <3>2
    <2>6. /\ request' \in [Handlers -> RatingRequests]
          /\ \A g \in Handlers : (GoodRequest(request[g]) /\ ReadsTrue(request[g]))'
        BY <1>1, <2>1, RequestWrites
    <2> QED
        BY <2>2, <2>3, <2>5, <2>6 DEF RatingInv
<1> QED
    BY <1>2, <1>3

LEMMA DeleteRowKeeps ==
    ASSUME RatingInv, NEW h \in Handlers, DeleteRow(h)
    PROVE  RatingInv'
<1>1. PICK r : r = request[h] /\ r.load \in Rated
    BY AboutALoad DEF DeleteRow
<1>2. CASE score[r.load] = NoScore
    BY <1>1, <1>2, PhaseMoves DEF DeleteRow, Steps
<1>3. CASE score[r.load] # NoScore
    <2>1. /\ score' = [score EXCEPT ![r.load] = NoScore]
          /\ Writes(h, "removed")
          /\ astray' = TRUE
          /\ kept' = kept
        BY <1>1, <1>3 DEF DeleteRow
    <2>2. score' \in [Rated -> Scores \cup {NoScore}] /\ kept' \in Averages
        BY <1>1, <2>1 DEF RatingInv
    <2>3. AverageOfRows'
        BY <2>1 DEF AverageOfRows
    <2>4. /\ request' \in [Handlers -> RatingRequests]
          /\ \A g \in Handlers : (GoodRequest(request[g]) /\ ReadsTrue(request[g]))'
        BY <1>1, <2>1, RequestWrites
    <2> QED
        BY <2>2, <2>3, <2>4 DEF RatingInv
<1> QED
    BY <1>2, <1>3

\* A deletion that nobody met mends the account, whatever it was.
LEMMA SaveCountKeeps ==
    ASSUME RatingInv, NEW h \in Handlers, SaveCount(h)
    PROVE  RatingInv'
<1>1. PICK r : r = request[h] /\ GoodRequest(r) /\ ReadsTrue(r) /\ r.load \in Rated /\ r.phase = "recounted"
    BY AboutALoad DEF RatingInv, SaveCount
<1>2. Written(r.new, r.seen) /\ Writes(h, "saved") /\ astray' = r.late /\ score' = score
    BY <1>1 DEF SaveCount
<1>3. kept' \in Averages /\ (r.seen = kept => kept' = r.new)
    BY <1>1, <1>2, WrittenType DEF RatingInv, GoodRequest, RatingRequests
<1>4. AverageOfRows'
    <2>1. SUFFICES ASSUME ~r.late PROVE kept' = OfRows'
        BY <1>2 DEF AverageOfRows
    <2>2. r.seen = kept /\ r.new = OfRows
        BY <1>1, <2>1 DEF ReadsTrue
    <2> QED
        BY <1>2, <1>3, <2>2, RowsStay
<1>5. /\ request' \in [Handlers -> RatingRequests]
      /\ \A g \in Handlers : (GoodRequest(request[g]) /\ ReadsTrue(request[g]))'
    BY <1>1, <1>2, RequestWrites
<1> QED
    BY <1>2, <1>3, <1>4, <1>5 DEF RatingInv

\* The kept average and count are those of the rows (AverageOfRows, RatingsController's Submit and
\* the administrator's DeleteRating), however the requests about one user interleave, as long as
\* none wrote between another's reading and writing and no deletion stopped halfway; for any set
\* of loads and scores.
THEOREM AverageIsOfRows == PanelsSpec => []AverageOfRows
<1>1. ASSUME RatingsInit PROVE RatingInv
    <2>1. RatedNow = {} /\ score \in [Rated -> Scores \cup {NoScore}]
        BY <1>1 DEF RatedNow, RatingsInit
    <2>2. OfRows = Unrated
        BY <2>1, FS_EmptySet DEF OfRows, Unrated
    <2>3. Unrated \in Averages
        BY DEF Unrated, Averages
    <2>4. \A h \in Handlers : request[h] = Free /\ request \in [Handlers -> {Free}]
        BY <1>1 DEF RatingsInit
    <2>5. Free \in RatingRequests /\ GoodRequest(Free) /\ ReadsTrue(Free)
        BY <2>3 DEF Free, RatingRequests, GoodRequest, ReadsTrue
    <2>6. request \in [Handlers -> RatingRequests]
        BY <1>1, <2>5 DEF RatingsInit
    <2> QED
        BY <1>1, <2>1, <2>2, <2>3, <2>4, <2>5, <2>6 DEF RatingInv, AverageOfRows, RatingsInit
<1>2. ASSUME RatingInv, RatingsNext PROVE RatingInv'
    <2>1. ASSUME NEW l \in Rated, NEW stars \in Scores, RateOnWeb(l, stars) \/ RateOnPhone(l, stars)
          PROVE  RatingInv'
        BY <1>2, <2>1, SendRatingKeeps DEF RateOnWeb, RateOnPhone
    <2>2. ASSUME NEW l \in Rated, Remove(l) PROVE RatingInv'
        BY <1>2, <2>2, SendRatingKeeps DEF Remove
    <2>3. ASSUME NEW h \in Handlers, AnswerForm(h) PROVE RatingInv'
        BY <1>2, <2>3, AboutALoad, PhaseMoves DEF AnswerForm
    <2>4. ASSUME NEW h \in Handlers, CheckRated(h) PROVE RatingInv'
        <3>1. PICK phase \in {"checked", "refused"} : Steps(h, phase)
            BY <2>4 DEF CheckRated
        <3> QED
            BY <1>2, <2>4, <3>1, AboutALoad, PhaseMoves DEF CheckRated, Steps
    <2>5. ASSUME NEW h \in Handlers, FailHalfway(h) PROVE RatingInv'
        BY <1>2, <2>5, AboutALoad, PhaseMoves DEF FailHalfway, Steps
    <2>6. ASSUME NEW h \in Handlers, ReadRated(h) PROVE RatingInv'
        BY <1>2, <2>6, ReadRatedKeeps
    <2>7. ASSUME NEW h \in Handlers, SaveRating(h) PROVE RatingInv'
        BY <1>2, <2>7, SaveRatingKeeps
    <2>8. ASSUME NEW h \in Handlers, DeleteRow(h) PROVE RatingInv'
        BY <1>2, <2>8, DeleteRowKeeps
    <2>9. ASSUME NEW h \in Handlers, ReadRows(h) PROVE RatingInv'
        BY <1>2, <2>9, ReadRowsKeeps
    <2>10. ASSUME NEW h \in Handlers, SaveCount(h) PROVE RatingInv'
        BY <1>2, <2>10, SaveCountKeeps
    <2> QED
        BY <1>2, <2>1, <2>2, <2>3, <2>4, <2>5, <2>6, <2>7, <2>8, <2>9, <2>10 DEF RatingsNext
<1>3. ASSUME RatingInv, UNCHANGED ratingVars PROVE RatingInv'
    <2>1. OfRows' = OfRows
        BY <1>3, RowsStay DEF ratingVars
    <2> QED
        BY <1>3, <2>1 DEF RatingInv, AverageOfRows, GoodRequest, ReadsTrue, Moved, ratingVars
<1>4. PanelsInit => RatingsInit
    BY DEF PanelsInit
<1>5. [PanelsNext]_panelVars => RatingsNext \/ UNCHANGED ratingVars
    BY DEF PanelsNext, DeskStep, ChatStep, PositionStep, RatingsStep, BellStep, AddressesStep,
           ProfileStep, LimitsStep, panelVars
<1>6. RatingInv => AverageOfRows
    BY DEF RatingInv
<1> QED
    BY <1>1, <1>2, <1>3, <1>4, <1>5, <1>6, PTL DEF PanelsSpec
=============================================================================
