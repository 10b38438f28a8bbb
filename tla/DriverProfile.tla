---------------------------- MODULE DriverProfile ----------------------------
(***************************************************************************)
(* The profile of one driver, edited on the web and on the phone.  A page  *)
(* is filled once, from the server, which hides the IBAN but for its last  *)
(* four characters, and sends all of its fields, changed or not.           *)
(***************************************************************************)
EXTENDS FiniteSets

CONSTANTS Values,   \* what is typed into a field
          Empty     \* an empty field or column

VARIABLES
    column,   \* by field: what the server keeps
    sheet,    \* by page: [open, shows, typed, stale]
    wish,     \* history: by field, what was typed and reported as saved last
    reverted  \* history: fields that an older page wrote back

profileVars == <<column, sheet, wish, reverted>>

Fields == {"home", "iban"}
Sheets == {"web", "phone"}
Unopened == [open |-> FALSE, shows |-> [f \in Fields |-> Empty], typed |-> {}, stale |-> FALSE]

ProfileInit ==
    /\ column = [f \in Fields |-> Empty]
    /\ sheet = [p \in Sheets |-> Unopened]
    /\ wish = [f \in Fields |-> Empty]
    /\ reverted = {}

\* The web writes TR before the hidden number and takes its stars away; neither is an IBAN.
Masked == [column EXCEPT !["iban"] = IF @ = Empty THEN Empty ELSE "masked"]

OpenSheet(p) ==
    /\ sheet' = [sheet EXCEPT ![p] = [Unopened EXCEPT !.open = TRUE, !.shows = Masked]]
    /\ UNCHANGED <<column, wish, reverted>>

Type(p, f, v) ==
    /\ sheet[p].open
    /\ sheet' = [sheet EXCEPT ![p].shows[f] = v, ![p].typed = @ \cup {f}]
    /\ UNCHANGED <<column, wish, reverted>>

\* The slip of a server that trusts the page, and the phone's does not look.
TakesAll(p) == p = "web" => sheet[p].shows["iban"] # "masked"
\* The web's page checks the number, for the phone's the server does: the whole sheet is refused.
Takes(p) == sheet[p].shows["iban"] # "masked"

\* An empty field is not sent, and the column stays.
Sent(p) == {f \in Fields : sheet[p].shows[f] # Empty}

Save(p) ==
    LET new == sheet[p].shows
    IN  /\ sheet[p].open /\ Takes(p)
        /\ column' = [f \in Fields |-> IF f \in Sent(p) THEN new[f] ELSE column[f]]
        /\ wish' = [f \in Fields |-> IF f \in Sent(p) \cap sheet[p].typed THEN new[f] ELSE wish[f]]
        /\ reverted' = (reverted \cup (IF sheet[p].stale THEN Sent(p) \ sheet[p].typed ELSE {}))
                       \ (Sent(p) \cap sheet[p].typed)
        /\ sheet' = [q \in Sheets |-> IF q = p THEN [sheet[q] EXCEPT !.typed = {}, !.stale = FALSE]
                                     ELSE [sheet[q] EXCEPT !.stale = TRUE]]

ProfileNext ==
    \/ \E p \in Sheets : OpenSheet(p) \/ Save(p)
    \/ \E p \in Sheets, f \in Fields, v \in Values \cup {Empty} : Type(p, f, v)

-----------------------------------------------------------------------------

\* What a driver typed and was told is saved stays until he types something else into that field:
\* emptying it keeps it, the hidden number never takes the place of his IBAN, and only a page filled
\* before the other one saved puts back what it shows (UsersController 113-125).
TypedStays == \A f \in Fields : f \in reverted \/ column[f] = wish[f]
=============================================================================
