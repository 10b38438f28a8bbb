-------------------------------- MODULE Panels --------------------------------
(***************************************************************************)
(* The parts of the program that share no state with one another nor with  *)
(* anything else: the support desk, the chat of a load, the driver's       *)
(* position, the ratings, the bell, a customer's addresses, a driver's     *)
(* profile and the counters of one phone number.  One of them is in use,   *)
(* so their states add up instead of multiplying.                          *)
(***************************************************************************)
EXTENDS SupportDesk, LoadChat, Position, Ratings, Bell, AddressBook, DriverProfile, Limits

VARIABLE inUse

talkVars == <<deskVars, chatVars>>
ownVars == <<bookVars, profileVars>>
panelVars == <<inUse, talkVars, positionVars, ratingVars, bellVars, ownVars, limitVars>>

PanelsInit ==
    /\ inUse \in {"desk", "chat", "position", "ratings", "bell", "addresses", "profile", "limits"}
    /\ DeskInit /\ ChatInit /\ PositionInit /\ RatingsInit /\ BellInit
    /\ BookInit /\ ProfileInit /\ LimitsInit

DeskStep ==
    /\ inUse = "desk"
    /\ DeskNext
    /\ UNCHANGED <<inUse, chatVars, positionVars, ratingVars, bellVars, ownVars, limitVars>>

ChatStep ==
    /\ inUse = "chat"
    /\ ChatNext
    /\ UNCHANGED <<inUse, deskVars, positionVars, ratingVars, bellVars, ownVars, limitVars>>

PositionStep ==
    /\ inUse = "position"
    /\ PositionNext
    /\ UNCHANGED <<inUse, talkVars, ratingVars, bellVars, ownVars, limitVars>>

RatingsStep ==
    /\ inUse = "ratings"
    /\ RatingsNext
    /\ UNCHANGED <<inUse, talkVars, positionVars, bellVars, ownVars, limitVars>>

BellStep ==
    /\ inUse = "bell"
    /\ BellNext
    /\ UNCHANGED <<inUse, talkVars, positionVars, ratingVars, ownVars, limitVars>>

AddressesStep ==
    /\ inUse = "addresses"
    /\ BookNext
    /\ UNCHANGED <<inUse, talkVars, positionVars, ratingVars, bellVars, profileVars, limitVars>>

ProfileStep ==
    /\ inUse = "profile"
    /\ ProfileNext
    /\ UNCHANGED <<inUse, talkVars, positionVars, ratingVars, bellVars, bookVars, limitVars>>

LimitsStep ==
    /\ inUse = "limits"
    /\ LimitsNext
    /\ UNCHANGED <<inUse, talkVars, positionVars, ratingVars, bellVars, ownVars>>

PanelsNext ==
    \/ DeskStep \/ ChatStep \/ PositionStep \/ RatingsStep \/ BellStep
    \/ AddressesStep \/ ProfileStep \/ LimitsStep

PanelsSpec == PanelsInit /\ [][PanelsNext]_panelVars
=============================================================================
