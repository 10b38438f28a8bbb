------------------------------- MODULE LoadForm -------------------------------
(***************************************************************************)
(* The three steps in which a customer writes a load: LoadCreate.tsx on    *)
(* the web, create-load.tsx on the phone, which also edits a load.  The     *)
(* form decides by its own rules what may be sent and where on the map it   *)
(* lies; the server decides again (CreateLoadDto) and stores it.  Time goes *)
(* on while the form is open, requests are given up and tried again.        *)
(* Both ends of a route are filled in alike: the destination stands for     *)
(* both, the vehicle type also for the load type.                           *)
(***************************************************************************)
EXTENDS Integers, FiniteSets

CONSTANTS Known, Capital,             \* the cities of the list, the capital
          Misspelt, Overlong,         \* any other text; one the server finds too long
          Districts, Places,          \* the districts, and the saved addresses: [city, district]
          Details, Prices,            \* what may be typed: weight, volume, text length; price
          None,
          MaxNow, MaxChanges, MaxSaves  \* bounds: the clock, changes of a filled field, saves

ASSUME LoadFormAssumption ==
    /\ Capital \in Known /\ Misspelt \notin Known /\ Overlong \notin Known /\ None \notin Known
    /\ Places \subseteq [city : Known, district : Districts]
    /\ Details \subseteq [weight : Nat, volume : Nat, text : Nat]
    /\ Prices \subseteq Nat \ {0}
    /\ Details # {} /\ Prices # {}
    /\ MaxNow \in Nat /\ MaxChanges \in Nat /\ MaxSaves \in Nat

VARIABLES
    client,    \* "web" and "phone" write a new load, "edit" is the phone with an old one
    form,      \* the fields: [city, district, line, point, pickup, delivery, vehicle, details, price],
               \* line: the open address is filled in
    step,      \* the step that is shown
    now,       \* the hour, see Times
    seen,      \* the hour at which the form last compared its dates with the clock
    preview,   \* the suggested price: [asked, shown], the questions whose answers are still
               \* listened to, and the one whose answer is on the page
    req,       \* the saves: [state, load, heard]
    showing,   \* "form", "busy" (nothing can be pressed), "success", "left"
    stored,    \* the server's row
    kept,      \* delivery addresses saved in the address book
    published, told,   \* loads created, and of how many the page said so
    silent,    \* history: a save was given up without an answer
    touched,   \* history: the fields the user changed in an old load
    opened,    \* history: the row an edit began with
    changes    \* bound: changes of fields that were filled in

vars == <<client, form, step, now, seen, preview, req, showing, stored, published, told,
          silent, kept, touched, opened, changes>>
server == <<stored, published, kept>>

\* Turkey is three hours ahead of UTC.  Each local day has two hours here: before
\* three in the morning, when UTC still has the day before, and after.
Times == 0..(MaxNow + 1)
LocalDay(t) == t \div 2
UtcDay(t) == (t + 1) \div 2

Unlisted == {Misspelt, Overlong}

\* A point of the map: the centre of a town, or one marked for a place.
Town(city) == IF city \in Known THEN city ELSE Capital
Centre(city) == [town |-> Town(city), marked |-> None]
Marked(city, district) == [town |-> city, marked |-> district]
Nowhere == [town |-> None, marked |-> None]

Blank == [weight |-> 0, volume |-> 0, text |-> 0]
Fields == {"city", "district", "line", "point", "pickup", "delivery", "vehicle", "details", "price"}

Saves == 1..MaxSaves
Unsent == [state |-> "unsent", load |-> None, heard |-> FALSE]
NoPreview == [asked |-> {}, shown |-> None]

-------------------------------------------------------------------------------
(* The forms as they open. *)

WebBlank(t) ==
    [city |-> None, district |-> None, line |-> FALSE, point |-> Nowhere,
     pickup |-> t, delivery |-> t + 2, vehicle |-> 0, details |-> Blank, price |-> 0]
PhoneBlank ==
    [city |-> None, district |-> None, line |-> FALSE, point |-> None,
     pickup |-> None, delivery |-> None, vehicle |-> 1, details |-> Blank, price |-> 0]

\* Mutant: the delivery date is read from the pick-up date.
PrefilledTwice(load) == [load EXCEPT !.point = Centre(load.city), !.vehicle = 1, !.delivery = load.pickup]

\* An old load: its point and its vehicle type are not read back.
Prefilled(load) == [load EXCEPT !.point = Centre(load.city), !.vehicle = 1]

\* Loads of before open addresses were asked for have none.
OldLoads ==
    [city : Known, district : Districts, line : BOOLEAN, point : {Marked(Capital, None)},
     pickup : {1}, delivery : {3}, vehicle : {0}, details : {CHOOSE d \in Details : TRUE},
     price : {CHOOSE p \in Prices : TRUE}]

Init ==
    /\ now = 1 /\ seen = now       \* by day: the night and the next day are ahead
    /\ \/ client = "web" /\ form = WebBlank(now) /\ opened = None
       \/ client = "phone" /\ form = PhoneBlank /\ opened = None
       \/ client = "edit" /\ opened \in OldLoads /\ form = Prefilled(opened)
    /\ stored = opened /\ kept = 0
    /\ step = 1
    /\ preview = NoPreview
    /\ req = [n \in Saves |-> Unsent]
    /\ showing = "form"
    /\ published = 0 /\ told = 0
    /\ silent = FALSE
    /\ touched = {}
    /\ changes = 0

-------------------------------------------------------------------------------
(* What the form lets pass. *)

PointOf(f) == IF f.point # None THEN f.point ELSE Centre(f.city)

WebDates(f, t) ==
    LocalDay(f.pickup) >= LocalDay(t) /\ f.delivery >= f.pickup
Located(f) == f.city # None /\ f.district # None /\ f.line
WebStep1(f, t) == Located(f) /\ WebDates(f, t)
PhoneStep1(f) == Located(f) /\ f.pickup # None /\ f.delivery # None

\* Weight in kilograms, volume in litres (0 when left empty), length of the text.
Between(low, n, high) == low <= n /\ n <= high

\* Mutant: no upper limit on the volume.
Step2Unlimited(d) == Between(1, d.weight, 40000) /\ d.text > 0
Step2(d) == Between(1, d.weight, 40000) /\ Between(0, d.volume, 10000000) /\ d.text > 0

PriceFits(p) == Between(100, p, 9999999)
PhoneStep3(f, t) == PriceFits(f.price) /\ WebDates(f, t)

Step1(f, t) == IF client = "web" THEN WebStep1(f, t) ELSE PhoneStep1(f)

\* The web sends after a last look at the clock; the phone by what it saw last.
WebMaySave == WebStep1(form, seen) /\ WebDates(form, now) /\ Step2(form.details) /\ PriceFits(form.price)
PhoneMaySave == PhoneStep1(form) /\ Step2(form.details) /\ PhoneStep3(form, seen)
MaySave == step = 3 /\ IF client = "web" THEN WebMaySave ELSE PhoneMaySave

Payload(f) == [f EXCEPT !.point = PointOf(f)]

\* CreateLoadDto.
ServerTakes(p) ==
    /\ p.city # Overlong
    /\ UtcDay(p.pickup) >= UtcDay(now)
    /\ UtcDay(p.delivery) >= UtcDay(p.pickup)
    /\ Between(1, p.details.weight, 100000)
    /\ p.details.volume = 0 \/ Between(10, p.details.volume, 10000000)
    /\ p.details.text <= 500
    /\ Between(1, p.price, 10000000)

-------------------------------------------------------------------------------
(* Filling in. *)

Empty(field) ==
    IF field = "point" THEN form.point \in {None, Nowhere} \/ form.point.marked = None
    ELSE field # "vehicle" /\ form[field] = PhoneBlank[field]

\* A field that was empty is filled in, or one of MaxChanges changes is spent.
Types(field, f, at) ==
    /\ showing = "form" /\ step = at
    /\ f # form
    /\ form' = f
    /\ changes' = IF Empty(field) THEN changes ELSE changes + 1
    /\ changes' <= MaxChanges
    /\ touched' = IF client = "edit" THEN touched \cup {g \in Fields : f[g] # form[g]} ELSE touched
    /\ UNCHANGED <<client, step, now, req, showing, server, told, silent, opened>>

\* The web compares with the clock when a field of its form object changes (the
\* numbers are not in it), the phone when a date or the price does.
Looks(field, f) ==
    seen' = IF \/ client = "web" /\ field \notin {"details", "price"}
               \/ client = "web" /\ f.details.text # form.details.text
               \/ client # "web" /\ field \in {"pickup", "delivery", "price"}
            THEN now ELSE seen

Fill(field, f, at) == Types(field, f, at) /\ Looks(field, f) /\ UNCHANGED preview

\* The web moves the pin when the town it has resolved changes; the phone forgets
\* a marked point with every choice.
WebMoved(f, city, district) ==
    LET before == IF f.city # None /\ f.district # None THEN Town(f.city) ELSE None
        after == IF city # None /\ district # None THEN Town(city) ELSE None
    IN  [f EXCEPT !.city = city, !.district = district,
                  !.point = IF after # None /\ after # before THEN Centre(city) ELSE @]
\* Mutant: a marked point outlives the choice of another place.
PhoneKept(f, city, district) == [f EXCEPT !.city = city, !.district = district]

PhoneMoved(f, city, district) == [f EXCEPT !.city = city, !.district = district, !.point = None]
Moved(city, district) ==
    IF client = "web" THEN WebMoved(form, city, district) ELSE PhoneMoved(form, city, district)

ChooseCity(city) ==
    /\ city \in Known \/ client = "web"
    /\ Fill("city", Moved(city, None), 1)
ChooseDistrict(district) ==
    /\ form.city # None
    /\ Fill("district", Moved(form.city, district), 1)

\* A saved address: the web takes its place, the phone its point as well.
UseSaved(place) ==
    LET phone == [form EXCEPT !.city = place.city, !.district = place.district,
                              !.point = Marked(place.city, place.district)]
    IN  Fill("city", IF client = "web" THEN Moved(place.city, place.district) ELSE phone, 1)

\* A click on the map or a drag of its pin.
Pinned(f) == [f EXCEPT !.point = Marked(f.city, f.district)]
MarkPoint == Fill("point", Pinned(form), 1)
TypeLine == Fill("line", [form EXCEPT !.line = TRUE], 1)
SetPickup(t) == Fill("pickup", [form EXCEPT !.pickup = t], 1)
\* The phone's picker does not offer a delivery before the pick-up.
SetDelivery(t) ==
    /\ (client # "web" /\ form.pickup # None) => t >= form.pickup
    /\ Fill("delivery", [form EXCEPT !.delivery = t], 1)
ChooseVehicle(v) == Fill("vehicle", [form EXCEPT !.vehicle = v], 2)
\* Only the web's text field is limited to what the server takes.
Describe(d) ==
    /\ d.text <= 500 \/ client # "web"
    /\ Fill("details", [form EXCEPT !.details = d], 2)
TypePrice(p) == Fill("price", [form EXCEPT !.price = p], 3)

-------------------------------------------------------------------------------
(* Steps and the suggested price. *)

\* What a suggestion is asked for: all but the price, the dates and the text.  The web asks
\* with the centre of the town, wherever the pin is.
Inputs(f) ==
    [point |-> IF client = "web" THEN Centre(f.city) ELSE PointOf(f), city |-> f.city,
     vehicle |-> f.vehicle, weight |-> f.details.weight, volume |-> f.details.volume]

Asked(f, to) ==
    IF to = 3 /\ client # "edit" THEN [asked |-> {Inputs(f)}, shown |-> None] ELSE NoPreview

\* Mutant: a question of before is not given up.
GotoListening(to) ==
    step' = to /\ preview' = [Asked(form, to) EXCEPT !.asked = @ \cup preview.asked]

\* Whoever turns the page gives up what was asked (the AbortController of the effect).
Goto(to) == step' = to /\ preview' = Asked(form, to)

Forward ==
    /\ showing = "form" /\ step < 3
    /\ IF step = 1 THEN Step1(form, seen) ELSE Step2(form.details)
    /\ Goto(step + 1)
    /\ UNCHANGED <<client, form, now, seen, req, showing, server, told, silent, touched, opened, changes>>

Back ==
    /\ showing = "form" /\ step > 1
    /\ Goto(step - 1)
    /\ UNCHANGED <<client, form, now, seen, req, showing, server, told, silent, touched, opened, changes>>

\* The answer to a question that is still listened to, or none.
Suggest ==
    /\ \E question \in preview.asked, answer \in {TRUE, FALSE} :
          preview' = [asked |-> preview.asked \ {question},
                      shown |-> IF answer THEN question ELSE None]
    /\ UNCHANGED <<client, form, step, now, seen, req, showing, server, told, silent, touched,
                   opened, changes>>

-------------------------------------------------------------------------------
(* Saving. *)

Next1 == CHOOSE n \in Saves : req[n].state = "unsent" /\ \A m \in Saves : m < n => req[m].state # "unsent"
CanSend == \E n \in Saves : req[n].state = "unsent"
\* On the web a ticked box has the delivery address saved before the load.
Send ==
    \E first \in {"sent"} \cup (IF client = "web" THEN {"address"} ELSE {}) :
        req' = [req EXCEPT ![Next1] = [state |-> first, load |-> Payload(form), heard |-> TRUE]]

\* Mutant: the button can be pressed while a save is under way.
SaveWhileBusy ==
    /\ showing \in {"form", "busy"} /\ CanSend
    /\ MaySave
    /\ Send
    /\ showing' = "busy"
    /\ UNCHANGED <<client, form, step, now, seen, preview, server, told, silent, touched, opened,
                   changes>>

Save ==
    /\ showing = "form" /\ CanSend
    /\ MaySave
    /\ Send
    /\ showing' = "busy"
    /\ UNCHANGED <<client, form, step, now, seen, preview, server, told, silent, touched, opened,
                   changes>>

\* The web's button can always be pressed: what is missing sends the user back.
WebSendBack ==
    /\ client = "web" /\ showing = "form" /\ step = 3
    /\ ~WebMaySave
    /\ IF ~WebStep1(form, seen) THEN Goto(1)
       ELSE IF ~Step2(form.details) THEN Goto(2)
       ELSE IF ~PriceFits(form.price) THEN UNCHANGED <<step, preview>>
       ELSE Goto(1)
    /\ UNCHANGED <<client, form, now, seen, req, showing, server, told, silent, touched, opened, changes>>

KeepAddress(n) ==
    /\ req[n].state = "address" /\ req[n].heard
    /\ kept' = kept + 1
    /\ req' = [req EXCEPT ![n].state = "sent"]
    /\ UNCHANGED <<client, form, step, now, seen, preview, showing, stored, published, told, silent,
                   touched, opened, changes>>

\* CreateLoadAsync, and UpdateCoreAsync with ApplyFields.
Store(n) ==
    /\ req[n].state = "sent" /\ ServerTakes(req[n].load)
    /\ stored' = req[n].load
    /\ published' = IF client = "edit" THEN published ELSE published + 1
    /\ req' = [req EXCEPT ![n].state = "stored", ![n].load = None]
    /\ UNCHANGED <<client, form, step, now, seen, preview, showing, kept, told, silent, touched,
                   opened, changes>>

\* Refused, by these rules or by others: the account, an accepted bid.
Refuse(n) ==
    /\ req[n].state \in {"address", "sent"}
    /\ req' = [req EXCEPT ![n].state = "refused", ![n].load = None]
    /\ UNCHANGED <<client, form, step, now, seen, preview, showing, server, told, silent, touched,
                   opened, changes>>

Hear(n) ==
    /\ req[n].state \in {"stored", "refused"} /\ req[n].heard
    /\ req' = [req EXCEPT ![n].heard = FALSE]
    /\ IF req[n].state = "stored"
       THEN showing' = "success" /\ told' = told + 1
       ELSE showing' = "form" /\ told' = told
    /\ UNCHANGED <<client, form, step, now, seen, preview, server, silent, touched, opened, changes>>

\* A time-out, or a lost answer.
GiveUp(n) ==
    /\ req[n].heard
    /\ req' = [req EXCEPT ![n].heard = FALSE]
    /\ showing' = "form"
    /\ silent' = TRUE
    /\ UNCHANGED <<client, form, step, now, seen, preview, server, told, touched, opened, changes>>

\* The phone's button on a save under way.  An edit goes on and is still listened to.
CancelCreate ==
    /\ client # "web" /\ showing = "busy"
    /\ req' = [n \in Saves |-> IF client = "edit" THEN req[n] ELSE [req[n] EXCEPT !.heard = FALSE]]
    /\ showing' = "form"
    /\ silent' = TRUE
    /\ UNCHANGED <<client, form, step, now, seen, preview, server, told, touched, opened, changes>>

\* The web goes on to the new load, an edit back to the old one.  The phone's form
\* is a tab that keeps what was typed.
GoToLoads ==
    /\ showing = "success"
    /\ showing' = IF client = "phone" THEN "form" ELSE "left"
    /\ UNCHANGED <<client, form, step, now, seen, preview, req, server, told, silent, touched,
                   opened, changes>>

Tick ==
    /\ now < MaxNow
    /\ now' = now + 1
    /\ UNCHANGED <<client, form, step, seen, preview, req, showing, server, told, silent, touched,
                   opened, changes>>

-------------------------------------------------------------------------------
Next ==
    \/ \E city \in Known \cup Unlisted : ChooseCity(city)
    \/ \E district \in Districts : ChooseDistrict(district)
    \/ \E place \in Places : UseSaved(place)
    \/ MarkPoint \/ TypeLine
    \/ \E t \in Times : SetPickup(t) \/ SetDelivery(t)
    \/ \E v \in {0, 1} : ChooseVehicle(v)
    \/ \E d \in Details : Describe(d)
    \/ \E p \in Prices : TypePrice(p)
    \/ Forward \/ Back \/ Suggest
    \/ Save \/ WebSendBack \/ CancelCreate \/ GoToLoads \/ Tick
    \/ \E n \in Saves : KeepAddress(n) \/ Store(n) \/ Refuse(n) \/ Hear(n) \/ GiveUp(n)

Spec == Init /\ [][Next]_vars

-------------------------------------------------------------------------------
\* Where a form's rules and the server's differ.
Gaps(f) ==
    {g \in {"a date of the small hours", "a drop of volume", "a long text", "a long name",
            "an old look at the clock"} :
        \/ g = "a date of the small hours" /\ LocalDay(f.pickup) = LocalDay(now) /\ f.pickup % 2 = 0
        \/ g = "a drop of volume" /\ Between(1, f.details.volume, 9)
        \/ g = "a long text" /\ client # "web" /\ f.details.text > 500
        \/ g = "a long name" /\ client = "web" /\ f.city = Overlong
        \/ g = "an old look at the clock" /\ client # "web" /\ LocalDay(seen) < LocalDay(now)}

\* What a form lets its user send, the server takes, but for five known gaps: a
\* pick-up before three in the morning is yesterday's in UTC; both forms take
\* volumes below ten litres; the phone's text and the web's name of a city are not
\* limited; and the phone, left open over midnight, does not look at the clock again.
ServerAgrees == MaySave /\ showing = "form" => ServerTakes(Payload(form)) \/ Gaps(form) # {}

\* A load lies where its address says: at the centre of its town or at a point
\* marked for its very district.  On the web a mark is kept as long as the centre
\* of the town is the same: when only the district changes, and, a town that is on
\* no list being the capital, when such a town gives way to a saved address there.
PointOfPlace ==
    \A n \in Saves : req[n].load # None =>
        LET p == req[n].load
        IN  \/ p.city \in Known /\ p.point \in {Centre(p.city), Marked(p.city, p.district)}
            \/ client = "web" /\ p.city \in Unlisted
            \/ client = "web" /\ p.point.town = p.city
            \/ client = "web" /\ p.city = Capital /\ p.point.town \in Unlisted

\* The price a page suggests is for the load it would save, whatever was asked before and
\* however late the answers come.  On the web a point marked on the map is the exception: the
\* load is saved there, and the price is for the centre of the town.
SuggestionIsCurrent ==
    preview.shown # None =>
        LET load == Payload(form)
            for == preview.shown
        IN  /\ step = 3
            /\ for.city = load.city /\ for.vehicle = load.vehicle
            /\ for.weight = load.details.weight /\ for.volume = load.details.volume
            /\ \/ for.point = load.point
               \/ client = "web" /\ load.point.marked # None /\ for.point = Centre(load.city)

\* An edit changes what the user changed.  The vehicle type and the marked point
\* are the exceptions: the form does not read them.
UntouchedKept ==
    client = "edit" => \A g \in Fields \ (touched \cup {"vehicle", "point"}) : stored[g] = opened[g]

\* "Saved" means that what the form shows is what the server has, and that it was
\* published once, as long as no save was given up or cancelled before it was
\* answered; after that a load may be there twice, or an edit be overtaken by an
\* older one.
SavedOnce ==
    ~silent => /\ published <= told + 1
               /\ showing = "success" => stored = Payload(form) /\ (client # "edit" => published = told)
===============================================================================
