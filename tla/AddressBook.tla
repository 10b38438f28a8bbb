----------------------------- MODULE AddressBook -----------------------------
(***************************************************************************)
(* The delivery addresses of one customer, which he keeps on the web's and *)
(* the phone's page of addresses, and his profile page.  The account has    *)
(* no columns for the company: the profile shows and writes the company's  *)
(* name and address in the first address, the default one, or any when     *)
(* none is.  A page shows the rows as it last read them.                   *)
(***************************************************************************)
EXTENDS Naturals, FiniteSets

CONSTANTS Addresses,  \* the rows, whose identifiers are never used again
          Nobody      \* stands for no row and no text

ASSUME AddressesAssumption == IsFiniteSet(Addresses)

VARIABLES
    book,       \* the rows: [state, text, default]; the text is named after the address it was typed for
    webList,    \* the addresses the web's page lists
    phoneList,  \* the rows as the phone's page lists them
    draft,      \* the row the phone's form edits: [id, text, default]
    profile,    \* the profile page: [open, text, firsts], the first addresses when it was opened
    excused,    \* history: addresses whose text the profile page may have changed
    overtaken   \* history: an edit begun before the default was moved was saved

bookVars == <<book, webList, phoneList, draft, profile, excused, overtaken>>

NoRow == [state |-> "unused", text |-> Nobody, default |-> FALSE]
NoDraft == [id |-> Nobody, text |-> Nobody, default |-> FALSE]

Present(rows) == {a \in Addresses : rows[a].state = "listed"}
Defaults == {a \in Present(book) : book[a].default}

BookInit ==
    /\ book = [a \in Addresses |-> NoRow]
    /\ webList = {} /\ phoneList = book
    /\ draft = NoDraft
    /\ profile = [open |-> FALSE, text |-> Nobody, firsts |-> {}]
    /\ excused = {} /\ overtaken = FALSE

-----------------------------------------------------------------------------
(* The pages of addresses *)

OnPage(page) == IF page = "web" THEN webList ELSE Present(phoneList)

\* A page reads the list again after each thing it did.
LoadList(page) ==
    IF page = "web" THEN webList' = Present(book') /\ UNCHANGED phoneList
                    ELSE phoneList' = book' /\ UNCHANGED webList

Reopen(page) ==
    /\ UNCHANGED book
    /\ LoadList(page)
    /\ draft' = IF page = "phone" THEN NoDraft ELSE draft
    /\ UNCHANGED <<profile, excused, overtaken>>

New(a, text, default) ==
    /\ book[a] = NoRow
    /\ book' = [book EXCEPT ![a] = [state |-> "listed", text |-> text, default |-> default]]

AddOnWeb(a) ==
    /\ New(a, a, FALSE)
    /\ LoadList("web")
    /\ UNCHANGED <<draft, profile, excused, overtaken>>

\* The phone's form adds when it edits nothing.
AddOnPhone(a) ==
    /\ draft = NoDraft
    /\ New(a, a, FALSE)
    /\ LoadList("phone")
    /\ UNCHANGED <<draft, profile, excused, overtaken>>

\* The web's load form saves the place it delivers to, too.
AddWithLoad(a) ==
    /\ New(a, a, FALSE)
    /\ UNCHANGED <<webList, phoneList, draft, profile, excused, overtaken>>

\* The server removes the row; the phone's form lets go of it.
Delete(page, a) ==
    /\ a \in OnPage(page) \cap Present(book)
    /\ book' = [book EXCEPT ![a] = [NoRow EXCEPT !.state = "deleted"]]
    /\ LoadList(page)
    /\ draft' = IF page = "phone" /\ draft.id = a THEN NoDraft ELSE draft
    /\ UNCHANGED <<profile, excused, overtaken>>

\* The slip of marking the new one only.
OneMore(a) == [b \in Addresses |-> [book[b] EXCEPT !.default = @ \/ (b = a /\ book[b].state = "listed")]]
\* SetDefault asks not whether the row is still there: then none is marked.
Only(a) == [b \in Addresses |-> [book[b] EXCEPT !.default = (b = a /\ book[b].state = "listed")]]

\* The phone has the button where the list shows another default.
MakeDefault(page, a) ==
    /\ a \in OnPage(page)
    /\ page = "phone" => ~phoneList[a].default
    /\ book' = Only(a)
    /\ LoadList(page)
    /\ UNCHANGED <<draft, profile, excused, overtaken>>

-----------------------------------------------------------------------------
(* The phone's form *)

\* The form takes over all of the row the list shows, the mark included.
StartEdit(a) ==
    /\ a \in Present(phoneList)
    /\ draft' = [id |-> a, text |-> phoneList[a].text, default |-> phoneList[a].default]
    /\ UNCHANGED <<book, webList, phoneList, profile, excused, overtaken>>

Retype ==
    /\ draft # NoDraft /\ draft.text # draft.id
    /\ draft' = [draft EXCEPT !.text = draft.id]
    /\ UNCHANGED <<book, webList, phoneList, profile, excused, overtaken>>

CancelEdit ==
    /\ draft # NoDraft
    /\ draft' = NoDraft
    /\ UNCHANGED <<book, webList, phoneList, profile, excused, overtaken>>

\* Update writes every column of the form.
SaveEdit ==
    /\ draft.id \in Present(book)
    /\ book' = [book EXCEPT ![draft.id].text = draft.text, ![draft.id].default = draft.default]
    /\ overtaken' = (overtaken \/ (draft.default /\ ~book[draft.id].default))
    /\ LoadList("phone")
    /\ draft' = NoDraft
    /\ UNCHANGED <<profile, excused>>

-----------------------------------------------------------------------------
(* The profile page *)

\* BuildProfileResponseAsync.
ShownFirst == IF Defaults = {} THEN Present(book) ELSE Defaults
\* UpdateProfile.
WrittenFirst == IF Defaults = {} THEN Present(book) ELSE Defaults

OpenProfile ==
    /\ \E text \in IF ShownFirst = {} THEN {Nobody} ELSE {book[a].text : a \in ShownFirst} :
           profile' = [open |-> TRUE, text |-> text, firsts |-> ShownFirst]
    /\ UNCHANGED <<book, webList, phoneList, draft, excused, overtaken>>

\* The company's own words, which are nobody's address, or nothing.
TypeCompany ==
    /\ profile.open
    /\ \E text \in {"company", "blank"} : profile' = [profile EXCEPT !.text = text]
    /\ UNCHANGED <<book, webList, phoneList, draft, excused, overtaken>>

\* Nothing of the company is sent when its fields are empty; the page says it was saved all the same.
SaveProfile ==
    /\ profile.open /\ profile.text \notin {Nobody, "blank"}
    /\ \E a \in IF Present(book) = {} THEN Addresses ELSE WrittenFirst :
           /\ IF Present(book) = {} THEN New(a, profile.text, TRUE)
              ELSE book' = [book EXCEPT ![a].text = profile.text]
           /\ excused' = IF profile.text = "company" \/ profile.firsts # ShownFirst
                            \/ Cardinality(ShownFirst) # 1
                         THEN excused \cup {a} ELSE excused
    /\ UNCHANGED <<webList, phoneList, draft, profile, overtaken>>

BookNext ==
    \/ \E page \in {"web", "phone"} :
           \/ Reopen(page)
           \/ \E a \in Addresses : Delete(page, a) \/ MakeDefault(page, a)
    \/ \E a \in Addresses : AddOnWeb(a) \/ AddOnPhone(a) \/ AddWithLoad(a) \/ StartEdit(a)
    \/ Retype \/ CancelEdit \/ SaveEdit
    \/ OpenProfile \/ TypeCompany \/ SaveProfile

-----------------------------------------------------------------------------

\* At most one address is the default one, unless an edit on the phone begun before the default
\* was moved brought the old mark back (DeliveryAddressesController 75).  And an address says what
\* was typed for it, unless a text was typed on the profile page, or that page was saved when the
\* first address was no longer, or not surely, the one it had shown (UsersController 81-84).
BookInOrder ==
    /\ ~overtaken => Cardinality(Defaults) <= 1
    /\ \A a \in Present(book) : book[a].text = a \/ a \in excused
=============================================================================
