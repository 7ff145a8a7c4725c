--------------------------------- MODULE Forms ---------------------------------
(***************************************************************************)
(* The forms of the web application in which a clerk changes or creates    *)
(* one row while others change it: the page of a reservation               *)
(* (reservation-edit-form.tsx), the drawer of the board                    *)
(* (timeline-reservation-editor.tsx), the page of a new reservation        *)
(* (reservation-create-form.tsx), the settings (settings-management.tsx),  *)
(* customers (customer-form.tsx) and the master data                       *)
(* (master-data-manager.tsx).  What the handlers check is in Booking and   *)
(* Catalog: here a request is carried out or refused.                      *)
(***************************************************************************)
EXTENDS Integers, FiniteSets, Functions

CONSTANTS
    Values,         \* of a field, 1 among them; of "menu" also how long it lasts
    Stopped,        \* staff and menus that the page knows as not active
    MaxChanges,     \* bound on what others write
    MaxTouches,     \* bound on what the clerk enters
    MaxRequests     \* bound on the requests of a page

VARIABLES
    row,            \* the row the page is about
    made,           \* the requests that made a new one
    page,           \* the page of the clerk
    net,            \* its requests and their answers
    changes, touches

vars == <<row, made, page, net, changes, touches>>

\* "rest": the date and the start, the source and the memo
OfReservation == {"staff", "menu", "length", "rest"}
OfBoard == OfReservation \cup {"status"}

\* all but the memo is one: "name"
OfCustomer == {"name", "memo"}

\* the name and whatever else is configured
OfEntry == {"name", "rule"}

FieldsOf(kind) ==
    CASE kind = "edit" -> OfReservation
      [] kind \in {"drawer", "new"} -> OfBoard
      [] kind = "customer" -> OfCustomer
      [] kind \in {"settings", "master"} -> OfEntry

RowOf(kind) == FieldsOf(kind) \cup (IF kind = "edit" THEN {"status"} ELSE {})

\* a page that is open and waits for nothing
Idle == page.open /\ page.waits = 0

\* A row that others change while its page is open.
Others(f, v) ==
    /\ ~page.creates /\ changes < MaxChanges /\ v # row[f]
    /\ row' = [row EXCEPT ![f] = v] /\ changes' = changes + 1
    /\ UNCHANGED <<made, page, net, touches>>

\* What may be entered while a request is under way: the drawer disables its buttons
\* only, a new reservation the customer, the menus and the staff, and the settings
\* forget to ask for the name of the salon; customers and master data have a fieldset.
DrawerFields == OfBoard
CreateFields == {"rest", "length", "status"}
SettingsFields == {"name"}
FieldsetFields == {}

OpenWhileBusy ==
    CASE page.kind = "drawer" -> DrawerFields
      [] page.kind = "new" -> CreateFields
      [] page.kind = "settings" -> SettingsFields
      [] OTHER -> FieldsetFields

\* Only staff and menus that are active are offered, and what the row has now.
Offered(f, v) ==
    /\ f \in {"staff", "menu"} /\ v \in Stopped =>
          v = page.base[f] /\ <<page.kind, f>> # <<"drawer", "menu">>
    /\ f = "memo" => page.mayMemo

\* Choosing a menu brings its duration along, except on the page of a reservation.
Brings(f) == IF f = "menu" /\ page.kind # "edit" THEN {"menu", "length"} ELSE {f}

Touch(f, v) ==
    /\ page.open /\ touches < MaxTouches /\ v # page.form[f] /\ Offered(f, v)
    /\ page.waits # 0 => f \in OpenWhileBusy
    /\ page' = [page EXCEPT !.form =
                   [g \in DOMAIN @ |-> IF g \in Brings(f) THEN v ELSE @[g]]]
    /\ touches' = touches + 1
    /\ UNCHANGED <<row, made, net, changes>>

-----------------------------------------------------------------------------
(* The requests                                                            *)

\* variant: everything that the page of a reservation shows
SentWhole == page.form

\* What a save names: the page of a reservation names staff and menu only when
\* they are not those it shows, a customer's memo needs chart.write.
Sent ==
    Restrict(page.form,
        {f \in DOMAIN page.form :
            /\ page.kind = "edit" /\ f \in {"staff", "menu"} => page.form[f] # page.base[f]
            /\ f = "memo" => page.mayMemo})

Last == page.requests

Request(what, fields) ==
    /\ Last < MaxRequests
    /\ net' = net \cup {[no |-> Last + 1, what |-> what, fields |-> fields,
                         shown |-> page.shown, form |-> page.form, pressed |-> page.pressed,
                         state |-> "sent", before |-> page.shown, after |-> page.shown]}
    /\ page' = [page EXCEPT !.waits = Last + 1, !.requests = Last + 1, !.said = "nothing",
                            !.pressed = @ \/ what = "status"]

\* what the page finds wrong by itself
Objection ==
    \/ page.kind \in {"drawer", "new"} /\ page.form["menu"] \in Stopped
    \/ /\ page.kind = "edit"
       /\ page.form["staff"] \in Stopped /\ page.form["staff"] # page.base["staff"]

Save ==
    /\ Idle
    /\ IF Objection
       THEN page.said # "failed" /\ page' = [page EXCEPT !.said = "failed"] /\ UNCHANGED net
       ELSE Request("save", Sent)
    /\ UNCHANGED <<row, made, changes, touches>>

\* the buttons of a reservation's page
PressStatus(v) ==
    /\ Idle /\ page.kind = "edit"
    /\ Request("status", [f \in {"status"} |-> v])
    /\ UNCHANGED <<row, made, changes, touches>>

-----------------------------------------------------------------------------
(* The server: POST makes a row, PATCH writes the fields that are named    *)

Merged(fields) == [f \in DOMAIN row |-> IF f \in DOMAIN fields THEN fields[f] ELSE row[f]]

Carry(m, state, after) ==
    net' = {n \in net : n.state = "sent" /\ n # m} \cup {[m EXCEPT !.state = state, !.before = row, !.after = after]}

Apply(m) ==
    /\ m.state = "sent"
    /\ IF page.creates
       THEN made' = made \cup {m.no} /\ Carry(m, "done", row) /\ UNCHANGED row
       ELSE row' = Merged(m.fields) /\ Carry(m, "done", Merged(m.fields)) /\ UNCHANGED made
    /\ UNCHANGED <<page, changes, touches>>

Refuse(m) ==
    /\ m.state = "sent" /\ Carry(m, "refused", row)
    /\ UNCHANGED <<row, made, page, changes, touches>>

-----------------------------------------------------------------------------
(* The answers                                                             *)

Answered(state) == {m \in net : m.no = page.waits /\ m.state = state}

Saved == [page EXCEPT !.said = "saved"]

\* the settings take what was stored, also over a name that was entered meanwhile
SettingsSaved(m) ==
    [Saved EXCEPT !.waits = 0, !.form = m.after, !.base = m.after, !.shown = m.after]

\* the page of a new reservation stays as it is
NewSaved == [Saved EXCEPT !.waits = 0]

\* the other forms go away
LeftSaved == [Saved EXCEPT !.open = FALSE]

ReceiveSaved ==
    \E m \in Answered("done") :
        /\ m.what = "save"
        /\ page' = CASE page.kind = "settings" -> SettingsSaved(m)
                     [] page.kind = "new" -> NewSaved
                     [] OTHER -> LeftSaved
        /\ net' = net \ {m} /\ UNCHANGED <<row, made, changes, touches>>

\* The status is another: what the page compares with is now the row of the answer,
\* without its duration.  What was not entered follows it or not, as the browser has it.
ReceiveStatus ==
    \E m \in Answered("done") :
        /\ m.what = "status"
        /\ \E follow \in SUBSET {f \in {"rest"} : page.form[f] = page.shown[f]} :
              page' = [page EXCEPT
                          !.waits = 0, !.said = "saved",
                          !.base = [m.after EXCEPT !["length"] = page.base["length"]],
                          !.form = [f \in DOMAIN @ |-> IF f \in follow THEN m.after[f] ELSE @[f]]]
        /\ net' = net \ {m} /\ UNCHANGED <<row, made, changes, touches>>

ReceiveRefused ==
    \E m \in Answered("refused") :
        /\ page' = [page EXCEPT !.waits = 0, !.said = "failed"]
        /\ net' = net \ {m} /\ UNCHANGED <<row, made, changes, touches>>

\* The connection breaks: to the clerk the request has failed, and it may still
\* be carried out.
LoseConnection ==
    /\ page.open /\ page.waits # 0
    /\ page' = [page EXCEPT !.waits = 0, !.said = "failed"]
    /\ UNCHANGED <<row, made, net, changes, touches>>

-----------------------------------------------------------------------------
Init ==
    /\ \E kind \in {"edit", "drawer", "new", "settings", "customer", "master"},
          creates, mayMemo \in BOOLEAN :
          /\ kind = "new" => creates
          /\ kind \in {"edit", "settings"} => ~creates
          /\ kind # "customer" => mayMemo
          /\ \E f \in RowOf(kind), v \in Values :
                /\ (creates \/ f \notin {"staff", "menu"}) => v = 1
                /\ row = [g \in RowOf(kind) |-> IF g = f THEN v ELSE 1]
          /\ page = [kind |-> kind, creates |-> creates, mayMemo |-> mayMemo, open |-> TRUE,
                     shown |-> row, base |-> row, form |-> Restrict(row, FieldsOf(kind)),
                     waits |-> 0, requests |-> 0, pressed |-> FALSE, said |-> "nothing"]
    /\ made = {} /\ net = {} /\ changes = 0 /\ touches = 0

Next ==
    \/ \E f \in DOMAIN row, v \in Values : Others(f, v)
    \/ \E f \in DOMAIN page.form, v \in Values : Touch(f, v)
    \/ Save \/ \E v \in Values : PressStatus(v)
    \/ \E m \in net : Apply(m) \/ Refuse(m)
    \/ ReceiveSaved \/ ReceiveStatus \/ ReceiveRefused \/ LoseConnection

Spec == Init /\ [][Next]_vars

-----------------------------------------------------------------------------
Saves == {m \in net : m.what = "save" /\ m.state = "done" /\ ~page.creates}
Entered(m, f) == f \in DOMAIN m.form /\ m.form[f] # m.shown[f]

\* A press of a status button renews what staff and menu are compared with, but not
\* what the form has of them: from then on neither half of the promise is kept.
Promised(m, f) == f \in {"staff", "menu"} => ~m.pressed

ChangesAreSaved ==
    \A m \in Saves : \A f \in DOMAIN m.after :
        Entered(m, f) /\ Promised(m, f) => m.after[f] = m.form[f]

\* What was not entered is left alone or, by forms that send all they have, goes back
\* to what the page shows; the page of a reservation leaves staff, menu and status alone.
OthersAreKept ==
    \A m \in Saves : \A f \in DOMAIN m.after :
        ~Entered(m, f) =>
            /\ m.after[f] \in {m.before[f], m.shown[f]}
            /\ page.kind = "edit" /\ f \in {"staff", "menu", "status"} /\ Promised(m, f)
                  => m.after[f] = m.before[f]
            /\ f = "memo" /\ ~page.mayMemo => m.after[f] = m.before[f]

SuccessIsTrue ==
    /\ page.said = "saved" /\ page.creates => page.requests \in made
    /\ \A m \in net : m.no = page.waits => m.no = page.requests

\* What a clerk changed in a form is what a save stores, what the clerk left alone is
\* not overwritten by what nobody has seen, and a success is reported only of the
\* last request; although others change the row and connections break.
FormsSaveWhatWasChanged == ChangesAreSaved /\ OthersAreKept /\ SuccessIsTrue
=============================================================================
