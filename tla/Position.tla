------------------------------- MODULE Position -------------------------------
(***************************************************************************)
(* The driver's position while a load is carried.  The driver's page posts *)
(* it every ten seconds, from a timer that an effect sets up for the trip  *)
(* on the page and tears down when the trip changes; on the phone setting  *)
(* it up waits for the permission and for a first fix.  The server keeps   *)
(* one position per driver, which customers and administrators poll.       *)
(***************************************************************************)
EXTENDS Naturals, FiniteSets

CONSTANTS Trips,      \* loads of one driver
          Runs,       \* bound on how often the effect is set up
          NoTrip

ASSUME RunsAssumption == Runs \subseteq Nat \ {0}

VARIABLES
    road,      \* the load's status on the server, "none" before it is the driver's
    last,      \* the trip the driver's last known position was posted for
    page,      \* the driver's page: [kind, trip, looks, sharing]
    run,       \* set-ups of the effect: [trip, phase], phase starting, done or refused
    current,   \* the set-up in force, 0 when there is nothing to share
    timers,    \* the timers that run, each named by its set-up
    ref,       \* intervalRef: the timer that will be cleared, 0 for none
    watch,     \* a page that follows a trip: [kind, trip, looks, answer, sees]
    hurried    \* history: set-ups torn down before they were done, and those whose timer
               \* such a one displaced from the ref

positionVars == <<road, last, page, run, current, timers, ref, watch, hurried>>

Underway == {"Assigned", "OnWay", "Arrived"}
DriverKinds == {"phone", "web"}
\* On the web the customer follows as the administrator does: one kind for both.
WatchKinds == {"customerPhone", "others"}

PositionInit ==
    /\ road = [t \in Trips |-> "none"]
    /\ last = NoTrip
    /\ page = [kind |-> "closed", trip |-> NoTrip, looks |-> "none", sharing |-> FALSE]
    /\ run = [r \in Runs |-> [trip |-> NoTrip, phase |-> "unused"]]
    /\ current = 0 /\ timers = {} /\ ref = 0
    /\ watch = [kind |-> "closed", trip |-> NoTrip, looks |-> "none", answer |-> "no", sees |-> NoTrip]
    /\ hurried = {}

-----------------------------------------------------------------------------
(* The load, as the rest of the program moves it *)

Advance(t) ==
    /\ \E next \in {"Assigned", "OnWay", "Arrived", "Delivered", "Cancelled"} :
           /\ <<road[t], next>> \in {<<"none", "Assigned">>, <<"Assigned", "OnWay">>,
                  <<"Assigned", "Cancelled">>, <<"OnWay", "Delivered">>,
                  <<"OnWay", "Cancelled">>, <<"Arrived", "Delivered">>}
           /\ road' = [road EXCEPT ![t] = next]
    /\ UNCHANGED <<last, page, run, current, timers, ref, watch, hurried>>

-----------------------------------------------------------------------------
(* The driver's page *)

\* What is shared: on the phone until the load has arrived, on the web while the switch is on.
Shares(p) ==
    /\ p.trip # NoTrip
    /\ p.sharing
    /\ p.kind = "phone" => p.looks \in {"Assigned", "OnWay"}

\* The phone's effect depends on the trip and on whether it shares, the web's on the answer.
SetsUpAgain(p) ==
    \/ p.kind = "web"
    \/ <<p.trip, Shares(p)>> # <<page.trip, Shares(page)>>

\* The slip of a clean-up that forgets the timer.
LeftRunning == timers
\* The clean-up clears the timer it knows of.
Cleared == timers \ {ref}

\* The page is p now: the effect is torn down and set up as React does it.
Becomes(p) ==
    /\ page' = p
    /\ IF ~SetsUpAgain(p)
       THEN UNCHANGED <<run, current, timers, ref, hurried>>
       ELSE /\ hurried' = hurried \cup {r \in Runs : r = current /\ run[r].phase = "starting"}
            /\ IF Shares(p)
               THEN \E r \in Runs :
                   /\ run[r].phase = "unused"
                   /\ \A q \in Runs : q < r => run[q].phase # "unused"
                   /\ run' = [run EXCEPT ![r] = [trip |-> p.trip,
                          phase |-> IF p.kind = "phone" THEN "starting" ELSE "done"]]
                   /\ current' = r
                   /\ timers' = IF p.kind = "web" THEN Cleared \cup {r} ELSE Cleared
                   /\ ref' = IF p.kind = "web" THEN r ELSE 0
               ELSE /\ current' = 0
                    /\ timers' = Cleared
                    /\ ref' = 0
                    /\ UNCHANGED run

\* The web's switch is off at first.
OpenTrip ==
    /\ page.kind = "closed"
    /\ \E kind \in DriverKinds : page' = [page EXCEPT !.kind = kind, !.sharing = kind = "phone"]
    /\ UNCHANGED <<road, last, run, current, timers, ref, watch, hurried>>

\* fetchTrip: the first load under way in the list.
FetchTrip ==
    /\ page.kind # "closed"
    /\ \/ \E t \in Trips :
              road[t] \in Underway /\ Becomes([page EXCEPT !.trip = t, !.looks = road[t]])
       \/ /\ \A t \in Trips : road[t] \notin Underway
          /\ Becomes([page EXCEPT !.trip = NoTrip, !.looks = "none"])
    /\ UNCHANGED <<road, last, watch>>

\* refreshTrip, after picking up or delivering: the web drops a trip that is over.
RefreshTrip ==
    /\ page.trip # NoTrip
    /\ LET looks == road[page.trip]
       IN  Becomes(IF page.kind = "phone" \/ looks \in Underway \cup {"Delivered"}
                   THEN [page EXCEPT !.looks = looks,
                             !.sharing = @ /\ (page.kind = "web" => looks # "Delivered")]
                   ELSE [page EXCEPT !.trip = NoTrip, !.looks = "none"])
    /\ UNCHANGED <<road, last, watch>>

\* The web's switch.
Switch ==
    /\ page.kind = "web"
    /\ page.trip # NoTrip
    /\ Becomes([page EXCEPT !.sharing = ~page.sharing])
    /\ UNCHANGED <<road, last, watch>>

\* The phone has its permission and its first fix: the timer starts, whatever happened meanwhile.
Begin(r) ==
    /\ run[r].phase = "starting"
    /\ \/ /\ run' = [run EXCEPT ![r].phase = "done"]
          /\ timers' = timers \cup {r}
          /\ ref' = r
          /\ hurried' = IF r \in hurried THEN hurried \cup ({ref} \ {0}) ELSE hurried
       \/ /\ run' = [run EXCEPT ![r].phase = "refused"]
          /\ UNCHANGED <<timers, ref, hurried>>
    /\ UNCHANGED <<road, last, page, current, watch>>

\* The app leaves the foreground: the known timer stops, and stays so.
Background ==
    /\ page.kind = "phone"
    /\ ref # 0
    /\ timers' = Cleared
    /\ ref' = 0
    /\ UNCHANGED <<road, last, page, run, current, watch, hurried>>

\* LocationController.Update: the driver's position, and the arrival when it is near.  A tick that
\* waits for a fix, or for its request, posts also when its timer was cleared meanwhile; nothing
\* bounds how long it waits or how many of them do.
Post(r) ==
    /\ run[r].phase \in {"starting", "done"}
    /\ last' = run[r].trip
    /\ road' \in {road, IF road[run[r].trip] = "OnWay"
                        THEN [road EXCEPT ![run[r].trip] = "Arrived"] ELSE road}
    /\ UNCHANGED <<page, run, current, timers, ref, watch, hurried>>

-----------------------------------------------------------------------------
(* Those who follow *)

OpenWatch ==
    /\ watch.kind = "closed"
    /\ \E kind \in WatchKinds, t \in Trips : watch' = [watch EXCEPT !.kind = kind, !.trip = t]
    /\ UNCHANGED <<road, last, page, run, current, timers, ref, hurried>>

\* The customer's pages follow by the status they show, the administrator's shows the rows of
\* all loads under way.
WebFollows == {"Assigned", "OnWay", "Arrived"}
PhoneFollows == {"Assigned", "OnWay"}
AdminFollows == Underway
Follows(w) ==
    w.looks \in IF w.kind = "customerPhone" THEN PhoneFollows ELSE WebFollows \cup AdminFollows

\* The page learns the status; a trip no longer followed drops the position and the answer.
LookAgain ==
    LET w == [watch EXCEPT !.looks = road[watch.trip]]
    IN  /\ watch.kind # "closed"
        /\ watch' = IF Follows(w) THEN w ELSE [w EXCEPT !.answer = "no", !.sees = NoTrip]
        /\ UNCHANGED <<road, last, page, run, current, timers, ref, hurried>>

AskPosition ==
    /\ Follows(watch)
    /\ watch.answer = "no"
    /\ watch' = [watch EXCEPT !.answer = last]
    /\ UNCHANGED <<road, last, page, run, current, timers, ref, hurried>>

\* The position, or nothing when the question failed.
SeePosition ==
    /\ watch.answer # "no"
    /\ \E seen \in {watch.answer, NoTrip} :
           watch' = [watch EXCEPT !.answer = "no", !.sees = seen]
    /\ UNCHANGED <<road, last, page, run, current, timers, ref, hurried>>

PositionNext ==
    \/ \E t \in Trips : Advance(t)
    \/ OpenTrip \/ FetchTrip \/ RefreshTrip \/ Switch \/ Background
    \/ \E r \in Runs : Begin(r) \/ Post(r)
    \/ OpenWatch \/ LookAgain \/ AskPosition \/ SeePosition

-----------------------------------------------------------------------------
\* A timer posts positions only for the trip the page shows as shared.  Excepted is one whose
\* set-up was torn down while it still waited for the permission or the first fix: it starts all
\* the same and posts on, after the delivery too; where both start, the page loses one of the two.
\* A tick that is under way when its timer is cleared is not a timer any more, see Post.
TimersOfTheTrip ==
    \A r \in timers \ hurried : r = current /\ Shares(page) /\ run[r].trip = page.trip

\* A follower sees a position only while it takes the load to be under way.
SeenUnderway == watch.sees # NoTrip => Follows(watch)

\* Timers post and followers are shown positions of a trip that is under way on the page, however the answers,
\* the timers and the effect's set-ups cross (useDriverLocationTracking, useCustomerDriverLocation).
SharesOnlyTheTrip == TimersOfTheTrip /\ SeenUnderway
=============================================================================
