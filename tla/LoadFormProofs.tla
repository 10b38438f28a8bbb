---------------------------- MODULE LoadFormProofs ----------------------------
(***************************************************************************)
(* Theorems about LoadForm, for any towns, districts, saved addresses,      *)
(* weights, volumes, texts and prices, any length of the clock and any      *)
(* number of changes and saves.                                             *)
(***************************************************************************)
EXTENDS LoadForm, WellFoundedInduction, TLAPS

-------------------------------------------------------------------------------
(* The inductive invariant. *)

Cities == Known \cup Unlisted \cup {None}
Marks == Districts \cup {None}
Points == [town : Cities, marked : Marks]
DetailTypes == [weight : Nat, volume : Nat, text : Nat]
Dates == Nat \cup {None}

Forms == [city : Cities, district : Marks, line : BOOLEAN, point : Points \cup {None},
          pickup : Dates, delivery : Dates, vehicle : {0, 1}, details : DetailTypes, price : Nat]
ReqStates == {"unsent", "address", "sent", "stored", "refused"}
Requests == [state : ReqStates, load : Forms \cup {None}, heard : BOOLEAN]

FormTypes ==
    /\ client \in {"web", "phone", "edit"} /\ step \in 1..3
    /\ now \in Nat /\ seen \in Nat /\ seen <= now
    /\ form \in Forms
    /\ client = "edit" => opened \in OldLoads

\* The web's form opens with dates, and its text field is limited.
WebFields ==
    client = "web" => form.pickup \in Nat /\ form.delivery \in Nat /\ form.details.text <= 500

ReqTypes ==
    /\ req \in [Saves -> Requests]
    /\ \A n \in Saves : req[n].state = "unsent" => ~req[n].heard
    /\ published \in Nat /\ told \in Nat

\* Where the pin is while the form is filled in.  The phone forgets it with every choice; on the
\* web it is in the town that was resolved last, or was marked for a town of no list.
PinFits(f) ==
    /\ client # "web" =>
          /\ f.city \in Known \cup {None}
          /\ f.point \in {None, Centre(f.city), Marked(f.city, f.district)}
    /\ client = "web" /\ f.city # None /\ f.district # None =>
          \/ f.point.town = Town(f.city)
          \/ f.point.town \in Unlisted /\ Town(f.city) = Capital
    \* what is not marked is the centre of the town
    /\ client = "web" /\ f.city # None /\ f.district # None =>
          f.point \in {None, Centre(f.city)} \/ f.point.marked # None
PinOfPlace == PinFits(form)

\* A suggestion is asked for and shown on the last step only, for the load as it is there.
SuggestionOfForm ==
    \/ preview = NoPreview
    \/ step = 3 /\ preview.asked \subseteq {Inputs(form)} /\ preview.shown \in {None, Inputs(form)}

\* Past the first step the place is filled in.
PlaceIsFilled == step # 1 => form.city # None /\ form.district # None

\* A field of an old load that was not touched is the old one: in the form, in a request that is
\* on its way, and in the server's row.
UntouchedEverywhere ==
    client = "edit" => \A g \in Fields \ (touched \cup {"vehicle", "point"}) :
        /\ form[g] = opened[g] /\ stored[g] = opened[g]
        /\ \A n \in Saves : req[n].state \in {"address", "sent"} => req[n].load[g] = opened[g]

\* As long as every save was waited for, there is one at a time: it is heard of, it carries what
\* the form shows, and once it is stored the page has one load less to tell of than there is.
Answered(n) == req[n].heard /\ req[n].state = "stored"
OneAtATime ==
    ~silent =>
        /\ \A n \in Saves : req[n].heard => showing = "busy" /\ \A m \in Saves : req[m].heard => m = n
        /\ \A n \in Saves : req[n].state \in {"address", "sent"} =>
               req[n].heard /\ req[n].load = Payload(form)
        /\ \A n \in Saves : Answered(n) => stored = Payload(form)
        /\ showing = "success" => stored = Payload(form)
        /\ client = "edit" => published = 0
        /\ client # "edit" /\ (\E n \in Saves : Answered(n)) => published = told + 1
        /\ client # "edit" /\ ~(\E n \in Saves : Answered(n)) => published = told

LoadFormInv ==
    /\ FormTypes /\ WebFields /\ ReqTypes
    /\ PinOfPlace /\ PlaceIsFilled /\ PointOfPlace /\ SuggestionOfForm
    /\ UntouchedEverywhere /\ OneAtATime

-------------------------------------------------------------------------------
(* Filling in. *)

USE LoadFormAssumption DEF LoadFormAssumption

\* What the proofs need to know of a field being filled in.
Filled ==
    /\ showing = "form"
    /\ form' \in Forms /\ PinOfPlace' /\ WebFields'
    /\ step = 3 => Inputs(form)' = Inputs(form)
    /\ step # 1 => form'.city = form.city /\ form'.district = form.district
    /\ seen' \in {seen, now}
    /\ client = "edit" => touched' = touched \cup {g \in Fields : form'[g] # form[g]}
    /\ UNCHANGED <<client, step, now, preview, req, showing, server, told, silent, opened>>

LEMMA TownIs ==
    ASSUME NEW city \in Cities
    PROVE  /\ Town(city) \in Known /\ Town(city) \in Cities
           /\ city \in Known => Town(city) = city
           /\ Centre(city) \in Points /\ Centre(city).town = Town(city)
BY DEF Town, Cities, Unlisted, Centre, Points, Marks

LEMMA FillIs ==
    ASSUME NEW field, NEW f \in Forms, NEW at, Fill(field, f, at), PinFits(f),
           client = "web" => f.pickup \in Nat /\ f.delivery \in Nat /\ f.details.text <= 500,
           at = 3 => Inputs(f) = Inputs(form),
           at # 1 => f.city = form.city /\ f.district = form.district
    PROVE  Filled
<1>1. form' = f /\ UNCHANGED client
    BY DEF Fill, Types
<1>2. PinOfPlace' /\ WebFields'
    BY <1>1 DEF PinOfPlace, PinFits, WebFields
<1>3. at = 3 => Inputs(form)' = Inputs(form)
    BY <1>1 DEF Inputs, PointOf, Centre, Town
<1> QED
    BY <1>1, <1>2, <1>3 DEF Filled, Fill, Types, Looks, server

LEMMA MovedIs ==
    ASSUME FormTypes, PinOfPlace, NEW city \in Known \cup Unlisted \cup {form.city}, NEW district \in Marks,
           client # "web" => city \notin Unlisted
    PROVE  Moved(city, district) \in Forms /\ PinFits(Moved(city, district))
<1>1. city \in Cities
    BY DEF FormTypes, Forms, Cities
<1>2. CASE client # "web"
    <2>1. Moved(city, district) = [form EXCEPT !.city = city, !.district = district, !.point = None]
        BY <1>2 DEF Moved, PhoneMoved
    <2> QED
        BY <1>1, <1>2, <2>1 DEF FormTypes, Forms, PinFits, PinOfPlace, Cities
<1>3. CASE client = "web"
    <2> DEFINE before == IF form.city # None /\ form.district # None THEN Town(form.city) ELSE None
    <2> DEFINE after == IF city # None /\ district # None THEN Town(city) ELSE None
    <2> DEFINE point == IF after # None /\ after # before THEN Centre(city) ELSE form.point
    <2>1. Moved(city, district) = [form EXCEPT !.city = city, !.district = district, !.point = point]
        BY <1>3 DEF Moved, WebMoved
    <2>2. point \in Points \cup {None}
        BY <1>1, TownIs DEF FormTypes, Forms
    <2>3. city # None /\ district # None =>
             /\ point.town = Town(city) \/ (point.town \in Unlisted /\ Town(city) = Capital)
             /\ point \in {None, Centre(city)} \/ point.marked # None
        <3> HIDE DEF point
        <3>1. SUFFICES ASSUME city # None, district # None
                       PROVE  /\ \/ point.town = Town(city)
                                 \/ point.town \in Unlisted /\ Town(city) = Capital
                              /\ point \in {None, Centre(city)} \/ point.marked # None
            OBVIOUS
        <3> USE DEF point
        <3>2. after = Town(city) /\ after # None
            BY <1>1, <3>1, TownIs
        <3>3. CASE after # before
            BY <1>1, <3>2, <3>3, TownIs
        <3>4. CASE after = before
            <4>1. point = form.point
                BY <3>4
            <4>2. form.city # None /\ form.district # None /\ Town(form.city) = Town(city)
                BY <3>2, <3>4
            <4>3. Centre(form.city) = Centre(city)
                BY <4>2 DEF Centre
            <4> HIDE DEF point
            <4> QED
                BY <1>3, <4>1, <4>2, <4>3 DEF PinOfPlace, PinFits
        <3> QED
            BY <3>3, <3>4
    <2> HIDE DEF point
    <2> QED
        BY <1>1, <1>3, <2>1, <2>2, <2>3 DEF FormTypes, Forms, PinFits
<1> QED
    BY <1>2, <1>3

Fills ==
    \/ \E city \in Known \cup Unlisted : ChooseCity(city)
    \/ \E district \in Districts : ChooseDistrict(district)
    \/ \E place \in Places : UseSaved(place)
    \/ MarkPoint \/ TypeLine
    \/ \E t \in Times : SetPickup(t) \/ SetDelivery(t)
    \/ \E v \in {0, 1} : ChooseVehicle(v)
    \/ \E d \in Details : Describe(d)
    \/ \E p \in Prices : TypePrice(p)

LEMMA FillsFill ==
    ASSUME FormTypes, WebFields, PinOfPlace, Fills
    PROVE  Filled
<1> USE DEF WebFields, FormTypes
<1>1. ASSUME NEW city \in Known \cup Unlisted, ChooseCity(city) PROVE Filled
    <2> DEFINE f == Moved(city, None)
    <2>1. f \in Forms /\ PinFits(f)
        BY <1>1, MovedIs DEF ChooseCity, Marks, Unlisted
    <2>2. f.pickup = form.pickup /\ f.delivery = form.delivery /\ f.details = form.details
        BY DEF Moved, WebMoved, PhoneMoved, Forms
    <2> HIDE DEF f
    <2>3. Fill("city", f, 1)
        BY <1>1 DEF ChooseCity, f
    <2> QED
        BY <2>1, <2>2, <2>3, FillIs
<1>2. ASSUME NEW district \in Districts, ChooseDistrict(district) PROVE Filled
    <2> DEFINE f == Moved(form.city, district)
    <2>0. form.city \in Known \cup Unlisted \cup {form.city} /\ (client # "web" => form.city \notin Unlisted)
        BY <1>2 DEF PinOfPlace, PinFits, ChooseDistrict, Unlisted
    <2>1. f \in Forms /\ PinFits(f)
        BY <2>0, MovedIs DEF Marks
    <2>2. f.pickup = form.pickup /\ f.delivery = form.delivery /\ f.details = form.details
        BY DEF Moved, WebMoved, PhoneMoved, Forms
    <2> HIDE DEF f
    <2>3. Fill("district", f, 1)
        BY <1>2 DEF ChooseDistrict, f
    <2> QED
        BY <2>1, <2>2, <2>3, FillIs
<1>3. ASSUME NEW place \in Places, UseSaved(place) PROVE Filled
    <2>0. place.city \in Known /\ place.district \in Districts
        OBVIOUS
    <2> DEFINE phone == [form EXCEPT !.city = place.city, !.district = place.district,
                                     !.point = Marked(place.city, place.district)]
    <2> DEFINE f == IF client = "web" THEN Moved(place.city, place.district) ELSE phone
    <2>1. CASE client = "web"
        <3>1. f \in Forms /\ PinFits(f)
            BY <2>0, <2>1, MovedIs DEF Marks
        <3>2. f.pickup = form.pickup /\ f.delivery = form.delivery /\ f.details = form.details
            BY <2>1 DEF Moved, WebMoved, Forms
        <3> HIDE DEF f
        <3>3. Fill("city", f, 1)
            BY <1>3 DEF UseSaved, f
        <3> QED
            BY <3>1, <3>2, <3>3, FillIs
    <2>2. CASE client # "web"
        <3>1. f \in Forms /\ PinFits(f)
            BY <2>0, <2>2 DEF Forms, PinFits, Marked, Points, Cities, Marks
        <3> HIDE DEF f
        <3>2. Fill("city", f, 1)
            BY <1>3 DEF UseSaved, f
        <3> QED
            BY <2>2, <3>1, <3>2, FillIs
    <2> QED
        BY <2>1, <2>2
<1>4. CASE MarkPoint
    <2>1. Pinned(form) \in Forms /\ PinFits(Pinned(form))
        BY TownIs DEF Pinned, Forms, PinFits, PinOfPlace, Marked, Points, Cities, Town
    <2>2. LET f == Pinned(form)
          IN  f.pickup = form.pickup /\ f.delivery = form.delivery /\ f.details = form.details
        BY DEF Pinned, Forms
    <2> QED
        BY <1>4, <2>1, <2>2, FillIs DEF MarkPoint
<1>5. CASE TypeLine
    <2> DEFINE f == [form EXCEPT !.line = TRUE]
    <2>1. f \in Forms /\ PinFits(f)
        <3>1. f \in Forms
            BY DEF Forms
        <3>2. f.city = form.city /\ f.district = form.district /\ f.point = form.point
            BY DEF Forms
        <3> HIDE DEF f
        <3> QED
            BY <3>1, <3>2 DEF PinFits, PinOfPlace
    <2>2. f.pickup = form.pickup /\ f.delivery = form.delivery /\ f.details = form.details
        BY DEF Forms
    <2>4. Fill("line", f, 1)
        BY <1>5 DEF TypeLine
    <2> HIDE DEF f
    <2> QED
        BY <2>1, <2>2, <2>4, FillIs
<1>6. ASSUME NEW t \in Times, SetPickup(t) PROVE Filled
    <2> DEFINE f == [form EXCEPT !.pickup = t]
    <2>1. f \in Forms /\ PinFits(f)
        BY DEF Forms, PinFits, PinOfPlace, Times, Dates
    <2>2. f.pickup \in Nat /\ f.delivery = form.delivery /\ f.details = form.details
        BY DEF Forms, Times
    <2>4. Fill("pickup", f, 1)
        BY <1>6 DEF SetPickup
    <2> HIDE DEF f
    <2> QED
        BY <2>1, <2>2, <2>4, FillIs
<1>7. ASSUME NEW t \in Times, SetDelivery(t) PROVE Filled
    <2> DEFINE f == [form EXCEPT !.delivery = t]
    <2>1. f \in Forms /\ PinFits(f)
        BY DEF Forms, PinFits, PinOfPlace, Times, Dates
    <2>2. f.pickup = form.pickup /\ f.delivery \in Nat /\ f.details = form.details
        BY DEF Forms, Times
    <2>4. Fill("delivery", f, 1)
        BY <1>7 DEF SetDelivery
    <2> HIDE DEF f
    <2> QED
        BY <2>1, <2>2, <2>4, FillIs
<1>8. ASSUME NEW v \in {0, 1}, ChooseVehicle(v) PROVE Filled
    <2> DEFINE f == [form EXCEPT !.vehicle = v]
    <2>1. f \in Forms /\ PinFits(f)
        BY DEF Forms, PinFits, PinOfPlace
    <2>2. f.pickup = form.pickup /\ f.delivery = form.delivery /\ f.details = form.details
        BY DEF Forms
    <2>3. f.city = form.city /\ f.district = form.district
        BY DEF Forms
    <2>4. Fill("vehicle", f, 2)
        BY <1>8 DEF ChooseVehicle
    <2> HIDE DEF f
    <2> QED
        BY <2>1, <2>2, <2>3, <2>4, FillIs
<1>9. ASSUME NEW d \in Details, Describe(d) PROVE Filled
    <2> DEFINE f == [form EXCEPT !.details = d]
    <2>1. f \in Forms /\ PinFits(f)
        BY DEF Forms, PinFits, PinOfPlace, DetailTypes
    <2>2. f.pickup = form.pickup /\ f.delivery = form.delivery /\ f.details = d
        BY DEF Forms
    <2>3. f.city = form.city /\ f.district = form.district
        BY DEF Forms
    <2>4. Fill("details", f, 2)
        BY <1>9 DEF Describe
    <2> HIDE DEF f
    <2> QED
        BY <2>1, <2>2, <2>3, <2>4, FillIs, <1>9 DEF Describe
<1>10. ASSUME NEW p \in Prices, TypePrice(p) PROVE Filled
    <2> DEFINE f == [form EXCEPT !.price = p]
    <2>1. f \in Forms /\ PinFits(f)
        BY DEF Forms, PinFits, PinOfPlace
    <2>2. f.pickup = form.pickup /\ f.delivery = form.delivery /\ f.details = form.details
        BY DEF Forms
    <2>3. Inputs(f) = Inputs(form) /\ f.city = form.city /\ f.district = form.district
        BY DEF Inputs, PointOf, Centre, Town, Forms
    <2>4. Fill("price", f, 3)
        BY <1>10 DEF TypePrice
    <2> HIDE DEF f
    <2> QED
        BY <2>1, <2>2, <2>3, <2>4, FillIs
<1> QED
    BY <1>1, <1>2, <1>3, <1>4, <1>5, <1>6, <1>7, <1>8, <1>9, <1>10 DEF Fills

LEMMA FilledKeeps ==
    ASSUME LoadFormInv, Filled
    PROVE  LoadFormInv'
<1> USE DEF LoadFormInv, Filled, server
<1>1. FormTypes' /\ WebFields' /\ ReqTypes' /\ PinOfPlace'
    BY DEF FormTypes, ReqTypes
<1>2. PointOfPlace'
    BY DEF PointOfPlace
<1>3. SuggestionOfForm' /\ PlaceIsFilled'
    BY DEF SuggestionOfForm, NoPreview, PlaceIsFilled
<1>4. UntouchedEverywhere'
    BY DEF UntouchedEverywhere
<1>5. OneAtATime'
    BY DEF OneAtATime, Answered
<1> QED
    BY <1>1, <1>2, <1>3, <1>4, <1>5

-------------------------------------------------------------------------------
(* Steps, and the suggested price. *)

LEMMA AskedIs ==
    ASSUME NEW to
    PROVE  \/ Asked(form, to) = NoPreview
           \/ to = 3 /\ Asked(form, to) = [asked |-> {Inputs(form)}, shown |-> None]
BY DEF Asked

\* Steps that turn the pages, or hear of a suggestion.
LEMMA TurnKeeps ==
    ASSUME LoadFormInv, step' \in 1..3, SuggestionOfForm', PlaceIsFilled',
           UNCHANGED <<client, form, now, seen, req, showing, server, told, silent, touched, opened>>
    PROVE  LoadFormInv'
<1> USE DEF LoadFormInv, server
<1>1. FormTypes' /\ WebFields' /\ ReqTypes' /\ PinOfPlace'
    BY DEF FormTypes, WebFields, ReqTypes, PinOfPlace, PinFits
<1>2. PointOfPlace' /\ UntouchedEverywhere'
    BY DEF PointOfPlace, UntouchedEverywhere
<1>3. OneAtATime'
    BY DEF OneAtATime, Answered
<1> QED
    BY <1>1, <1>2, <1>3

LEMMA GotoIs ==
    ASSUME NEW to \in 1..3, Goto(to), UNCHANGED <<client, form>>
    PROVE  step' \in 1..3 /\ SuggestionOfForm'
<1>1. \/ preview' = NoPreview
      \/ step' = 3 /\ preview' = [asked |-> {Inputs(form)}, shown |-> None]
    BY AskedIs DEF Goto
<1>2. Inputs(form)' = Inputs(form)
    BY DEF Inputs, PointOf, Centre, Town
<1> QED
    BY <1>1, <1>2 DEF SuggestionOfForm, Goto, NoPreview

LEMMA ForwardBackKeeps ==
    ASSUME LoadFormInv, Forward \/ Back \/ WebSendBack
    PROVE  LoadFormInv'
<1>1. step \in 1..3
    BY DEF LoadFormInv, FormTypes
<1>2. \/ \E to \in 1..3 : Goto(to)
      \/ UNCHANGED <<step, preview>>
    BY <1>1 DEF Forward, Back, WebSendBack
<1>3. UNCHANGED <<client, form, now, seen, req, showing, server, told, silent, touched, opened>>
    BY DEF Forward, Back, WebSendBack
<1>4. step' \in 1..3 /\ SuggestionOfForm'
    <2>1. CASE \E to \in 1..3 : Goto(to)
        BY <1>3, <2>1, GotoIs
    <2>2. CASE UNCHANGED <<step, preview>>
        BY <1>1, <1>3, <2>2 DEF LoadFormInv, SuggestionOfForm, NoPreview, Inputs, PointOf, Centre, Town
    <2> QED
        BY <1>2, <2>1, <2>2
<1>5. PlaceIsFilled'
    <2>1. step = 1 /\ step' # 1 => Located(form)
        BY DEF Forward, Back, WebSendBack, Step1, WebStep1, PhoneStep1
    <2>2. UNCHANGED form
        BY <1>3
    <2> QED
        BY <2>1, <2>2 DEF LoadFormInv, PlaceIsFilled, Located
<1> QED
    BY <1>3, <1>4, <1>5, TurnKeeps

LEMMA SuggestKeeps ==
    ASSUME LoadFormInv, Suggest
    PROVE  LoadFormInv'
<1>1. step' \in 1..3
    BY DEF LoadFormInv, FormTypes, Suggest
<1>2. Inputs(form)' = Inputs(form)
    BY DEF Suggest, Inputs, PointOf, Centre, Town
<1>3. step = 3 /\ preview.asked = {Inputs(form)}
    BY DEF LoadFormInv, Suggest, SuggestionOfForm, NoPreview
<1>4. SuggestionOfForm' /\ PlaceIsFilled'
    <2>1. PICK question \in preview.asked, answer \in {TRUE, FALSE} :
              preview' = [asked |-> preview.asked \ {question},
                          shown |-> IF answer THEN question ELSE None]
        BY DEF Suggest
    <2> QED
        BY <1>2, <1>3, <2>1 DEF Suggest, SuggestionOfForm, LoadFormInv, PlaceIsFilled
<1> QED
    BY <1>1, <1>4, TurnKeeps DEF Suggest

LEMMA TickKeeps ==
    ASSUME LoadFormInv, Tick
    PROVE  LoadFormInv'
<1> USE DEF LoadFormInv, Tick, server
<1>1. FormTypes'
    BY DEF FormTypes
<1>2. WebFields' /\ ReqTypes' /\ PinOfPlace' /\ PointOfPlace' /\ UntouchedEverywhere'
    BY DEF WebFields, ReqTypes, PinOfPlace, PinFits, PointOfPlace, UntouchedEverywhere
<1>3. SuggestionOfForm' /\ PlaceIsFilled'
    BY DEF SuggestionOfForm, NoPreview, PlaceIsFilled, Inputs, PointOf, Centre, Town
<1>4. OneAtATime'
    BY DEF OneAtATime, Answered
<1> QED
    BY <1>1, <1>2, <1>3, <1>4

LEMMA GoToLoadsKeeps ==
    ASSUME LoadFormInv, GoToLoads
    PROVE  LoadFormInv'
<1> USE DEF LoadFormInv, GoToLoads, server
<1>1. FormTypes' /\ WebFields' /\ ReqTypes' /\ PinOfPlace' /\ PointOfPlace' /\ UntouchedEverywhere'
    BY DEF FormTypes, WebFields, ReqTypes, PinOfPlace, PinFits, PointOfPlace, UntouchedEverywhere
<1>2. SuggestionOfForm' /\ PlaceIsFilled'
    BY DEF SuggestionOfForm, NoPreview, PlaceIsFilled, Inputs, PointOf, Centre, Town
<1>3. OneAtATime'
    BY DEF OneAtATime, Answered
<1> QED
    BY <1>1, <1>2, <1>3

-------------------------------------------------------------------------------
(* Saving. *)

\* When a save can be sent, Next1 is one that was not.
LEMMA Next1Is ==
    ASSUME CanSend
    PROVE  Next1 \in Saves /\ req[Next1].state = "unsent"
<1> DEFINE Unsents == {n \in Saves : req[n].state = "unsent"}
<1>1. Unsents \subseteq Nat /\ Unsents # {}
    BY DEF CanSend, Saves
<1>2. IsWellFoundedOn(OpToRel(<, Nat), Nat)
    BY NatLessThanWellFounded
<1>3. PICK n \in Unsents : \A m \in Unsents : <<m, n>> \notin OpToRel(<, Nat)
    <2> HIDE DEF Unsents
    <2> QED
        BY <1>1, <1>2, WFMin
<1>4. \A m \in Saves : m < n => req[m].state # "unsent"
    BY <1>1, <1>3 DEF OpToRel
<1> QED
    BY <1>3, <1>4 DEF Next1

LEMMA PayloadIs ==
    ASSUME FormTypes
    PROVE  /\ Payload(form) \in Forms
           /\ Payload(form).point = PointOf(form)
           /\ \A g \in Fields \ {"point"} : Payload(form)[g] = form[g]
<1>1. PointOf(form) \in Points \cup {None}
    BY TownIs DEF PointOf, FormTypes, Forms
<1> HIDE DEF PointOf
<1> QED
    BY <1>1 DEF Payload, FormTypes, Forms, Fields

\* What may be saved has an address, and lies there.
LEMMA PayloadOfPlace ==
    ASSUME FormTypes, PinOfPlace, MaySave
    PROVE  LET p == Payload(form)
           IN  \/ p.city \in Known /\ p.point \in {Centre(p.city), Marked(p.city, p.district)}
               \/ client = "web" /\ p.city \in Unlisted
               \/ client = "web" /\ p.point.town = p.city
               \/ client = "web" /\ p.city = Capital /\ p.point.town \in Unlisted
<1>1. form.city # None /\ form.district # None
    BY DEF MaySave, WebMaySave, PhoneMaySave, WebStep1, PhoneStep1, Located
<1>2. LET p == Payload(form)
      IN  p.city = form.city /\ p.district = form.district /\ p.point = PointOf(form)
    BY PayloadIs DEF Fields
<1>3. form.city \in Cities
    BY DEF FormTypes, Forms
<1>4. CASE client # "web"
    BY <1>1, <1>2, <1>4 DEF PinOfPlace, PinFits, PointOf
<1>5. CASE client = "web"
    <2>1. form.city \in Unlisted \/ form.city \in Known
        BY <1>1, <1>3 DEF Cities
    <2>2. CASE form.city \in Known
        <3>1. Town(form.city) = form.city
            BY <1>3, <2>2, TownIs
        <3>2. CASE form.point = None
            BY <1>2, <2>2, <3>2 DEF PointOf
        <3>3. CASE form.point # None
            BY <1>1, <1>2, <1>5, <3>1, <3>3 DEF PinOfPlace, PinFits, PointOf
        <3> QED
            BY <3>2, <3>3
    <2> QED
        BY <1>2, <1>5, <2>1, <2>2
<1> QED
    BY <1>4, <1>5

LEMMA SaveKeeps ==
    ASSUME LoadFormInv, Save
    PROVE  LoadFormInv'
<1> USE DEF LoadFormInv, server
<1>0. /\ UNCHANGED <<client, form, step, now, seen, preview, server, told, silent, touched, opened, changes>>
      /\ showing = "form" /\ showing' = "busy" /\ CanSend /\ MaySave
    BY DEF Save
<1>1. Next1 \in Saves /\ req[Next1].state = "unsent"
    BY <1>0, Next1Is
<1>2. PICK first \in {"sent", "address"} :
         req' = [req EXCEPT ![Next1] = [state |-> first, load |-> Payload(form), heard |-> TRUE]]
    BY DEF Save, Send
<1> DEFINE k == Next1
<1>3. k \in Saves /\ req[k].state = "unsent"
    BY <1>1
<1>4. req' = [req EXCEPT ![k] = [state |-> first, load |-> Payload(form), heard |-> TRUE]]
    BY <1>2
<1> HIDE DEF k
<1>5. /\ req'[k].state = first /\ req'[k].load = Payload(form) /\ req'[k].heard
      /\ \A n \in Saves : n # k => req'[n] = req[n]
      /\ req' \in [Saves -> Requests]
    BY <1>3, <1>4, PayloadIs DEF ReqTypes, Requests, ReqStates
<1> USE <1>0, <1>3, <1>5
<1>6. FormTypes' /\ WebFields' /\ PinOfPlace'
    BY DEF FormTypes, WebFields, PinOfPlace, PinFits
<1>7. ReqTypes'
    BY DEF ReqTypes
<1>8. PointOfPlace'
    <2>1. \A n \in Saves \ {k} : req'[n] = req[n]
        OBVIOUS
    <2> QED
        BY <2>1, PayloadOfPlace DEF PointOfPlace
<1>9. SuggestionOfForm' /\ PlaceIsFilled'
    BY DEF SuggestionOfForm, NoPreview, PlaceIsFilled, Inputs, PointOf, Centre, Town
<1>10. UntouchedEverywhere'
    BY PayloadIs DEF UntouchedEverywhere
<1>11. OneAtATime'
    <2>1. Payload(form)' = Payload(form)
        BY DEF Payload, PointOf, Centre, Town
    <2>2. \A n \in Saves : ~silent => ~req[n].heard
        BY DEF OneAtATime
    <2>3. \A n \in Saves : ~silent => ~Answered(n)
        BY <2>2 DEF Answered
    <2>4. \A n \in Saves : ~silent => ~Answered(n)'
        BY <2>2 DEF Answered
    <2> QED
        BY <2>1, <2>2, <2>3, <2>4 DEF OneAtATime
<1> QED
    BY <1>6, <1>7, <1>8, <1>9, <1>10, <1>11

-------------------------------------------------------------------------------
(* A save under way. *)

\* Steps that leave the form and the price alone.
LEMMA FormStays ==
    ASSUME LoadFormInv, UNCHANGED <<client, form, step, now, seen, preview, opened>>
    PROVE  /\ FormTypes' /\ WebFields' /\ PinOfPlace' /\ PlaceIsFilled' /\ SuggestionOfForm'
           /\ Payload(form)' = Payload(form)
<1> USE DEF LoadFormInv
<1>1. FormTypes' /\ WebFields' /\ PinOfPlace'
    BY DEF FormTypes, WebFields, PinOfPlace, PinFits
<1>2. SuggestionOfForm' /\ PlaceIsFilled'
    BY DEF SuggestionOfForm, NoPreview, PlaceIsFilled, Inputs, PointOf, Centre, Town
<1>3. Payload(form)' = Payload(form)
    BY DEF Payload, PointOf, Centre, Town
<1> QED
    BY <1>1, <1>2, <1>3

LEMMA KeepAddressKeeps ==
    ASSUME LoadFormInv, NEW n \in Saves, KeepAddress(n)
    PROVE  LoadFormInv'
<1> USE DEF LoadFormInv
<1>1. /\ UNCHANGED <<client, form, step, now, seen, preview, showing, stored, published, told, silent,
                     touched, opened>>
      /\ req[n].state = "address" /\ req[n].heard
    BY DEF KeepAddress
<1>2. /\ req'[n].state = "sent" /\ req'[n].load = req[n].load /\ req'[n].heard = req[n].heard
      /\ \A m \in Saves : m # n => req'[m] = req[m]
      /\ req' \in [Saves -> Requests]
    BY DEF KeepAddress, ReqTypes, Requests, ReqStates
<1>3. /\ FormTypes' /\ WebFields' /\ PinOfPlace' /\ PlaceIsFilled' /\ SuggestionOfForm'
      /\ Payload(form)' = Payload(form)
    BY <1>1, FormStays
<1>4. ReqTypes'
    BY <1>1, <1>2 DEF ReqTypes
<1>5. PointOfPlace'
    BY <1>1, <1>2 DEF PointOfPlace
<1>6. UntouchedEverywhere'
    BY <1>1, <1>2 DEF UntouchedEverywhere
<1>7. OneAtATime'
    <2>1. \A m \in Saves : Answered(m)' <=> Answered(m)
        BY <1>1, <1>2 DEF Answered
    <2>2. \A m \in Saves : req'[m].heard <=> req[m].heard
        BY <1>2
    <2>3. \A m \in Saves : req'[m].load = req[m].load
        BY <1>2
    <2>4. \A m \in Saves : req'[m].state \in {"address", "sent"} => req[m].state \in {"address", "sent"}
        BY <1>1, <1>2
    <2> QED
        BY <1>1, <1>3, <2>1, <2>2, <2>3, <2>4 DEF OneAtATime
<1> QED
    BY <1>3, <1>4, <1>5, <1>6, <1>7

LEMMA StoreKeeps ==
    ASSUME LoadFormInv, NEW n \in Saves, Store(n)
    PROVE  LoadFormInv'
<1> USE DEF LoadFormInv
<1>1. /\ UNCHANGED <<client, form, step, now, seen, preview, showing, told, silent, touched, opened>>
      /\ req[n].state = "sent" /\ stored' = req[n].load
      /\ published' = IF client = "edit" THEN published ELSE published + 1
    BY DEF Store
<1>2. /\ req'[n].state = "stored" /\ req'[n].load = None /\ req'[n].heard = req[n].heard
      /\ \A m \in Saves : m # n => req'[m] = req[m]
      /\ req' \in [Saves -> Requests]
    BY DEF Store, ReqTypes, Requests, ReqStates
<1>3. /\ FormTypes' /\ WebFields' /\ PinOfPlace' /\ PlaceIsFilled' /\ SuggestionOfForm'
      /\ Payload(form)' = Payload(form)
    BY <1>1, FormStays
<1>4. ReqTypes'
    BY <1>1, <1>2 DEF ReqTypes
<1>5. PointOfPlace'
    BY <1>1, <1>2 DEF PointOfPlace
<1>6. UntouchedEverywhere'
    BY <1>1, <1>2 DEF UntouchedEverywhere
<1>7. OneAtATime'
    <2>1. SUFFICES ASSUME ~silent PROVE OneAtATime'
        BY <1>1 DEF OneAtATime
    <2>2. /\ req[n].heard /\ req[n].load = Payload(form) /\ showing = "busy"
          /\ \A m \in Saves : req[m].heard => m = n
          /\ \A m \in Saves \ {n} : req[m].state \notin {"address", "sent"}
        BY <1>1, <2>1 DEF OneAtATime
    <2>3. \A m \in Saves : ~Answered(m)
        BY <1>1, <2>2 DEF Answered
    <2>4. \A m \in Saves : Answered(m)' <=> m = n
        BY <1>1, <1>2, <2>2 DEF Answered
    <2>5. client # "edit" => published = told
        BY <2>1, <2>3 DEF OneAtATime
    <2>6. client = "edit" => published' = 0
        BY <1>1, <2>1 DEF OneAtATime
    <2> QED
        BY <1>1, <1>2, <1>3, <2>1, <2>2, <2>4, <2>5, <2>6 DEF OneAtATime
<1> QED
    BY <1>3, <1>4, <1>5, <1>6, <1>7

LEMMA RefuseKeeps ==
    ASSUME LoadFormInv, NEW n \in Saves, Refuse(n)
    PROVE  LoadFormInv'
<1> USE DEF LoadFormInv, server
<1>1. /\ UNCHANGED <<client, form, step, now, seen, preview, showing, stored, published, told, silent,
                     touched, opened>>
      /\ req[n].state \in {"address", "sent"}
    BY DEF Refuse
<1>2. /\ req'[n].state = "refused" /\ req'[n].load = None /\ req'[n].heard = req[n].heard
      /\ \A m \in Saves : m # n => req'[m] = req[m]
      /\ req' \in [Saves -> Requests]
    BY DEF Refuse, ReqTypes, Requests, ReqStates
<1>3. /\ FormTypes' /\ WebFields' /\ PinOfPlace' /\ PlaceIsFilled' /\ SuggestionOfForm'
      /\ Payload(form)' = Payload(form)
    BY <1>1, FormStays
<1>4. ReqTypes'
    BY <1>1, <1>2 DEF ReqTypes
<1>5. PointOfPlace'
    BY <1>1, <1>2 DEF PointOfPlace
<1>6. UntouchedEverywhere'
    BY <1>1, <1>2 DEF UntouchedEverywhere
<1>7. OneAtATime'
    <2>1. \A m \in Saves : Answered(m)' <=> Answered(m)
        BY <1>1, <1>2 DEF Answered
    <2>2. \A m \in Saves : req'[m].heard <=> req[m].heard
        BY <1>2
    <2>3. \A m \in Saves : req'[m].state \in {"address", "sent"} => req'[m] = req[m]
        BY <1>2
    <2> QED
        BY <1>1, <1>3, <2>1, <2>2, <2>3 DEF OneAtATime
<1> QED
    BY <1>3, <1>4, <1>5, <1>6, <1>7

LEMMA HearKeeps ==
    ASSUME LoadFormInv, NEW n \in Saves, Hear(n)
    PROVE  LoadFormInv'
<1> USE DEF LoadFormInv, server
<1>1. /\ UNCHANGED <<client, form, step, now, seen, preview, stored, published, silent, touched, opened>>
      /\ req[n].state \in {"stored", "refused"} /\ req[n].heard
    BY DEF Hear
<1>2. /\ req'[n].state = req[n].state /\ req'[n].load = req[n].load /\ ~req'[n].heard
      /\ \A m \in Saves : m # n => req'[m] = req[m]
      /\ req' \in [Saves -> Requests]
    BY DEF Hear, ReqTypes, Requests, ReqStates
<1>3. /\ FormTypes' /\ WebFields' /\ PinOfPlace' /\ PlaceIsFilled' /\ SuggestionOfForm'
      /\ Payload(form)' = Payload(form)
    BY <1>1, FormStays
<1>4. ReqTypes'
    BY <1>1, <1>2 DEF ReqTypes, Hear
<1>5. PointOfPlace'
    BY <1>1, <1>2 DEF PointOfPlace
<1>6. UntouchedEverywhere'
    BY <1>1, <1>2 DEF UntouchedEverywhere
<1>7. OneAtATime'
    <2>1. SUFFICES ASSUME ~silent PROVE OneAtATime'
        BY <1>1 DEF OneAtATime
    <2>2. \A m \in Saves : req[m].heard => m = n
        BY <1>1, <2>1 DEF OneAtATime
    <2>3. \A m \in Saves : ~req'[m].heard /\ ~Answered(m)'
        BY <1>2, <2>2 DEF Answered
    <2>4. \A m \in Saves : req'[m].state \notin {"address", "sent"}
        BY <1>1, <1>2, <2>1, <2>2 DEF OneAtATime
    <2>5. client = "edit" => published' = 0
        BY <1>1, <2>1 DEF OneAtATime
    <2>6. CASE req[n].state = "stored"
        <3>1. stored' = Payload(form)' /\ (client # "edit" => published = told + 1)
            BY <1>1, <1>3, <2>1, <2>6 DEF OneAtATime, Answered
        <3>2. client # "edit" => published' = told'
            BY <1>1, <2>6, <3>1 DEF Hear
        <3> QED
            BY <1>1, <2>3, <2>4, <2>5, <3>1, <3>2 DEF OneAtATime
    <2>7. CASE req[n].state = "refused"
        <3>1. showing' = "form" /\ told' = told
            BY <2>7 DEF Hear
        <3>2. \A m \in Saves : ~Answered(m)
            BY <2>2, <2>7 DEF Answered
        <3>3. client # "edit" => published' = told'
            BY <1>1, <2>1, <3>1, <3>2 DEF OneAtATime
        <3> QED
            BY <1>1, <2>3, <2>4, <2>5, <3>1, <3>3 DEF OneAtATime
    <2> QED
        BY <1>1, <2>6, <2>7
<1> QED
    BY <1>3, <1>4, <1>5, <1>6, <1>7

\* No longer listened to: time-outs, lost answers and the phone's cancel button.
LEMMA SilentKeeps ==
    ASSUME LoadFormInv, (\E n \in Saves : GiveUp(n)) \/ CancelCreate
    PROVE  LoadFormInv'
<1> USE DEF LoadFormInv, server
<1>1. /\ UNCHANGED <<client, form, step, now, seen, preview, stored, published, told, touched, opened>>
      /\ silent' = TRUE
    BY DEF GiveUp, CancelCreate
<1>2. /\ req' \in [Saves -> Requests]
      /\ \A m \in Saves : req'[m].state = req[m].state /\ req'[m].load = req[m].load
      /\ \A m \in Saves : req'[m].heard => req[m].heard
    <2>1. ASSUME NEW n \in Saves, GiveUp(n) 
          PROVE  /\ req' \in [Saves -> Requests]
                 /\ \A m \in Saves : req'[m].state = req[m].state /\ req'[m].load = req[m].load
                 /\ \A m \in Saves : req'[m].heard => req[m].heard
        BY <2>1 DEF GiveUp, ReqTypes, Requests
    <2>2. CASE CancelCreate
        BY <2>2 DEF CancelCreate, ReqTypes, Requests
    <2> QED
        BY <2>1, <2>2
<1>3. FormTypes' /\ WebFields' /\ PinOfPlace' /\ PlaceIsFilled' /\ SuggestionOfForm'
    BY <1>1, FormStays
<1>4. ReqTypes'
    BY <1>1, <1>2 DEF ReqTypes
<1>5. PointOfPlace'
    BY <1>1, <1>2 DEF PointOfPlace
<1>6. UntouchedEverywhere'
    BY <1>1, <1>2 DEF UntouchedEverywhere
<1>7. OneAtATime'
    BY <1>1 DEF OneAtATime
<1> QED
    BY <1>3, <1>4, <1>5, <1>6, <1>7

-------------------------------------------------------------------------------
(* The theorems. *)

LEMMA LoadFormInit ==
    ASSUME Init
    PROVE  LoadFormInv
<1> USE DEF Init
<1>1. Blank \in DetailTypes /\ OldLoads \subseteq Forms
    <2>1. Blank \in DetailTypes
        BY DEF Blank, DetailTypes
    <2>2. (CHOOSE d \in Details : TRUE) \in DetailTypes
        BY DEF DetailTypes
    <2>3. (CHOOSE p \in Prices : TRUE) \in Nat
        OBVIOUS
    <2>4. Marked(Capital, None) \in Points
        BY DEF Marked, Points, Cities, Marks
    <2>5. ASSUME NEW load \in OldLoads PROVE load \in Forms
        <3> DEFINE details == CHOOSE d \in Details : TRUE
        <3> DEFINE price == CHOOSE p \in Prices : TRUE
        <3> DEFINE point == Marked(Capital, None)
        <3>1. load \in [city : Known, district : Districts, line : BOOLEAN, point : {point},
                        pickup : {1}, delivery : {3}, vehicle : {0}, details : {details}, price : {price}]
            BY DEF OldLoads
        <3>2. details \in DetailTypes /\ price \in Nat /\ point \in Points
            BY <2>2, <2>3, <2>4
        <3> HIDE DEF details, price, point
        <3>3. Known \subseteq Cities /\ Districts \subseteq Marks /\ {1, 3} \subseteq Dates
            BY DEF Cities, Marks, Dates
        <3> QED
            BY <3>1, <3>2, <3>3 DEF Forms
    <2> QED
        BY <2>1, <2>5
<1>2. ASSUME NEW load \in OldLoads
      PROVE  /\ Prefilled(load) \in Forms
             /\ Prefilled(load).city = load.city /\ Prefilled(load).point = Centre(load.city)
             /\ load.city \in Known
             /\ \A g \in Fields \ {"vehicle", "point"} : Prefilled(load)[g] = load[g]
    <2>1. load \in Forms /\ load.city \in Known
        BY <1>1 DEF OldLoads
    <2>2. Centre(load.city) \in Points
        BY <2>1, TownIs DEF Forms
    <2> HIDE DEF Centre
    <2> QED
        BY <2>1, <2>2 DEF Prefilled, Forms, Fields
<1>3. FormTypes /\ WebFields
    <2>1. WebBlank(now) \in Forms /\ PhoneBlank \in Forms
        BY <1>1 DEF WebBlank, PhoneBlank, Forms, Points, Cities, Marks, Nowhere, Dates
    <2>2. FormTypes
        BY <1>2, <2>1 DEF FormTypes
    <2>3. WebFields
        BY DEF WebFields, WebBlank, Blank
    <2> QED
        BY <2>2, <2>3
<1>4. ReqTypes
    BY DEF ReqTypes, Requests, ReqStates, Unsent
<1>5. PinOfPlace
    BY <1>2 DEF PinOfPlace, PinFits, WebBlank, PhoneBlank
<1>6. PointOfPlace
    BY DEF PointOfPlace, Unsent
<1>7. SuggestionOfForm /\ PlaceIsFilled
    BY DEF SuggestionOfForm, PlaceIsFilled
<1>8. UntouchedEverywhere
    BY <1>2 DEF UntouchedEverywhere, Unsent
<1>9. OneAtATime
    BY DEF OneAtATime, Unsent, Answered
<1> QED
    BY <1>3, <1>4, <1>5, <1>6, <1>7, <1>8, <1>9 DEF LoadFormInv

LEMMA LoadFormStep ==
    ASSUME LoadFormInv, [Next]_vars
    PROVE  LoadFormInv'
<1>1. CASE UNCHANGED vars
    <2>1. step' \in 1..3 /\ SuggestionOfForm' /\ PlaceIsFilled'
        BY <1>1, FormStays DEF LoadFormInv, FormTypes, vars
    <2> QED
        BY <1>1, <2>1, TurnKeeps DEF vars, server
<1>2. CASE Fills
    BY <1>2, FillsFill, FilledKeeps DEF LoadFormInv
<1>3. CASE \E n \in Saves : KeepAddress(n) \/ Store(n) \/ Refuse(n) \/ Hear(n) \/ GiveUp(n)
    BY <1>3, KeepAddressKeeps, StoreKeeps, RefuseKeeps, HearKeeps, SilentKeeps
<1>4. CASE Forward \/ Back \/ Suggest \/ Save \/ WebSendBack \/ CancelCreate \/ GoToLoads \/ Tick
    BY <1>4, ForwardBackKeeps, SuggestKeeps, SaveKeeps, SilentKeeps, GoToLoadsKeeps, TickKeeps
<1> QED
    BY <1>1, <1>2, <1>3, <1>4 DEF Next, Fills

\* The inductive invariant holds, whatever may be typed and however long the form is open.
THEOREM LoadFormHolds == Spec => []LoadFormInv
<1>1. Init => LoadFormInv
    BY LoadFormInit
<1>2. LoadFormInv /\ [Next]_vars => LoadFormInv'
    BY LoadFormStep
<1> QED
    BY <1>1, <1>2, PTL DEF Spec

\* A load lies where its address says, but for the marks that the web keeps.
THEOREM PointOfPlaceHolds == Spec => []PointOfPlace
<1>1. LoadFormInv => PointOfPlace
    BY DEF LoadFormInv
<1> QED
    BY <1>1, LoadFormHolds, PTL

\* The price that a page suggests is for the load that it would save; on the web, where a point
\* was marked, for that load at the centre of its town.
THEOREM SuggestionIsCurrentHolds == Spec => []SuggestionIsCurrent
<1>1. LoadFormInv => SuggestionIsCurrent
    <2>. SUFFICES ASSUME LoadFormInv, preview.shown # None PROVE SuggestionIsCurrent
        BY DEF SuggestionIsCurrent
    <2>. DEFINE load == Payload(form)
    <2>1. step = 3 /\ preview.shown = Inputs(form)
        BY DEF LoadFormInv, SuggestionOfForm, NoPreview
    <2>2. form \in Forms /\ form.city # None /\ form.district # None
        BY <2>1 DEF LoadFormInv, FormTypes, PlaceIsFilled
    <2>3. /\ load.city = form.city /\ load.vehicle = form.vehicle /\ load.details = form.details
          /\ load.point = PointOf(form)
        BY <2>2 DEF Payload, Forms
    <2>. HIDE DEF load
    <2>4. CASE client # "web"
        BY <2>1, <2>3, <2>4 DEF SuggestionIsCurrent, Inputs, load
    <2>5. CASE client = "web"
        <3>1. load.point = Centre(form.city) \/ load.point.marked # None
            BY <2>2, <2>3, <2>5 DEF LoadFormInv, PinOfPlace, PinFits, PointOf
        <3> QED
            BY <2>1, <2>3, <2>5, <3>1 DEF SuggestionIsCurrent, Inputs, load
    <2> QED
        BY <2>4, <2>5
<1> QED
    BY <1>1, LoadFormHolds, PTL

\* An edit changes what its user changed, and the two fields the form does not read.
THEOREM UntouchedKeptHolds == Spec => []UntouchedKept
<1>1. LoadFormInv => UntouchedKept
    BY DEF LoadFormInv, UntouchedEverywhere, UntouchedKept
<1> QED
    BY <1>1, LoadFormHolds, PTL

\* "Saved" means stored as shown, and once, as long as every save was waited for.
THEOREM SavedOnceHolds == Spec => []SavedOnce
<1>1. LoadFormInv => SavedOnce
    <2>1. SUFFICES ASSUME LoadFormInv, ~silent
                   PROVE  /\ published <= told + 1
                          /\ showing = "success" =>
                                stored = Payload(form) /\ (client # "edit" => published = told)
        BY DEF SavedOnce
    <2>2. published \in Nat /\ told \in Nat
        BY <2>1 DEF LoadFormInv, ReqTypes
    <2>3. showing = "success" => \A n \in Saves : ~Answered(n)
        BY <2>1 DEF LoadFormInv, OneAtATime, Answered
    <2>4. published <= told + 1
        BY <2>1, <2>2 DEF LoadFormInv, OneAtATime
    <2> QED
        BY <2>1, <2>3, <2>4 DEF LoadFormInv, OneAtATime
<1> QED
    BY <1>1, LoadFormHolds, PTL

\* A pick-up that is not on a day before this one by the form's calendar, nor in the small hours
\* of this one, is not on a day before by the server's.
LEMMA DaysAgree ==
    ASSUME NEW t \in Nat, NEW u \in Nat, LocalDay(t) >= LocalDay(u),
           ~(LocalDay(t) = LocalDay(u) /\ t % 2 = 0)
    PROVE  UtcDay(t) >= UtcDay(u)
BY DEF LocalDay, UtcDay

LEMMA UtcDayMonotone ==
    ASSUME NEW t \in Nat, NEW u \in Nat, t >= u
    PROVE  UtcDay(t) >= UtcDay(u)
BY DEF UtcDay

LEMMA LocalDayMonotone ==
    ASSUME NEW t \in Nat, NEW u \in Nat, t >= u
    PROVE  LocalDay(t) \in Nat /\ LocalDay(u) \in Nat /\ LocalDay(t) >= LocalDay(u)
BY DEF LocalDay

LEMMA WithoutGaps ==
    ASSUME NEW f, Gaps(f) = {}
    PROVE  /\ ~(LocalDay(f.pickup) = LocalDay(now) /\ f.pickup % 2 = 0)
           /\ ~Between(1, f.details.volume, 9)
           /\ client # "web" => ~(f.details.text > 500)
           /\ client = "web" => f.city # Overlong
           /\ client # "web" => ~(LocalDay(seen) < LocalDay(now))
<1> DEFINE Names == {"a date of the small hours", "a drop of volume", "a long text",
                     "a long name", "an old look at the clock"}
<1>1. \A g \in Names : g \notin Gaps(f)
    OBVIOUS
<1>2. "a date of the small hours" \in Names /\ "a drop of volume" \in Names
      /\ "a long text" \in Names /\ "a long name" \in Names /\ "an old look at the clock" \in Names
    OBVIOUS
<1>3. ~(LocalDay(f.pickup) = LocalDay(now) /\ f.pickup % 2 = 0)
    BY <1>1, <1>2 DEF Gaps
<1>4. ~Between(1, f.details.volume, 9)
    BY <1>1, <1>2 DEF Gaps
<1>5. client # "web" => ~(f.details.text > 500)
    BY <1>1, <1>2 DEF Gaps
<1>6. client = "web" => f.city # Overlong
    BY <1>1, <1>2 DEF Gaps
<1>7. client # "web" => ~(LocalDay(seen) < LocalDay(now))
    BY <1>1, <1>2 DEF Gaps
<1> QED
    BY <1>3, <1>4, <1>5, <1>6, <1>7

\* What a form lets its user send, the server takes, but for the five gaps.
THEOREM ServerAgreesHolds == Spec => []ServerAgrees
<1>1. LoadFormInv => ServerAgrees
    <2>1. SUFFICES ASSUME LoadFormInv, MaySave, Gaps(form) = {}
                   PROVE  ServerTakes(Payload(form))
        BY DEF ServerAgrees
    <2> DEFINE p == Payload(form)
    <2>2. p.pickup = form.pickup /\ p.delivery = form.delivery /\ p.details = form.details /\ p.price = form.price
        BY <2>1, PayloadIs DEF LoadFormInv, Fields
    <2> HIDE DEF p
    <2>3. FormTypes /\ WebFields
        BY <2>1 DEF LoadFormInv
    <2>4. form.details \in DetailTypes /\ form.pickup \in Dates /\ form.delivery \in Dates
        BY <2>3 DEF FormTypes, Forms
    <2>5. Step2(form.details) /\ PriceFits(form.price)
        BY <2>1 DEF MaySave, WebMaySave, PhoneMaySave, PhoneStep3
    <2>6. form.pickup \in Nat /\ form.delivery \in Nat
        BY <2>1, <2>3, <2>4 DEF MaySave, PhoneMaySave, PhoneStep1, WebFields, Dates
    <2>7. form.delivery >= form.pickup /\ LocalDay(form.pickup) >= LocalDay(now)
        <3>1. CASE client = "web"
            BY <2>1, <3>1 DEF MaySave, WebMaySave, WebDates
        <3>2. CASE client # "web"
            <4>1. form.delivery >= form.pickup /\ LocalDay(form.pickup) >= LocalDay(seen)
                BY <2>1, <3>2 DEF MaySave, PhoneMaySave, PhoneStep3, WebDates
            <4>2. LocalDay(seen) >= LocalDay(now)
                BY <2>1, <2>3, <3>2, WithoutGaps, LocalDayMonotone DEF FormTypes
            <4>3. LocalDay(seen) \in Nat /\ LocalDay(now) \in Nat /\ LocalDay(form.pickup) \in Nat
                BY <2>3, <2>6, LocalDayMonotone DEF FormTypes
            <4> QED
                BY <4>1, <4>2, <4>3
        <3> QED
            BY <3>1, <3>2
    <2>8. UtcDay(form.pickup) >= UtcDay(now) /\ UtcDay(form.delivery) >= UtcDay(form.pickup)
        BY <2>1, <2>3, <2>6, <2>7, WithoutGaps, DaysAgree, UtcDayMonotone DEF FormTypes
    <2>9. /\ Between(1, form.details.weight, 100000)
          /\ form.details.volume = 0 \/ Between(10, form.details.volume, 10000000)
          /\ form.details.text <= 500
          /\ Between(1, form.price, 10000000)
        <3>1. ~Between(1, form.details.volume, 9) /\ (client # "web" => ~(form.details.text > 500))
            BY <2>1, WithoutGaps
        <3>2. form.details \in DetailTypes /\ form.price \in Nat
            BY <2>3 DEF FormTypes, Forms
        <3>3. Between(1, form.details.weight, 100000)
            BY <2>5, <3>2 DEF Step2, Between, DetailTypes
        <3>4. form.details.volume = 0 \/ Between(10, form.details.volume, 10000000)
            BY <2>5, <3>1, <3>2 DEF Step2, Between, DetailTypes
        <3>5. form.details.text <= 500
            BY <2>3, <3>1, <3>2 DEF WebFields, DetailTypes
        <3>6. Between(1, form.price, 10000000)
            BY <2>5, <3>2 DEF PriceFits, Between
        <3> QED
            BY <3>3, <3>4, <3>5, <3>6
    <2>10. p.city # Overlong
        <3>1. p.city = form.city
            BY <2>1, PayloadIs DEF LoadFormInv, Fields, p
        <3>2. client # "web" => form.city \in Known
            BY <2>1 DEF LoadFormInv, PinOfPlace, PinFits, MaySave, PhoneMaySave, PhoneStep1, Located
        <3> QED
            BY <2>1, <3>1, <3>2, WithoutGaps
    <2>11. ServerTakes(p)
        <3>1. UtcDay(p.pickup) >= UtcDay(now) /\ UtcDay(p.delivery) >= UtcDay(p.pickup)
            BY <2>2, <2>8
        <3> QED
            BY <2>2, <2>9, <2>10, <3>1 DEF ServerTakes
    <2> QED
        BY <2>11 DEF p
<1> QED
    BY <1>1, LoadFormHolds, PTL
===============================================================================
