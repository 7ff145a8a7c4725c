------------------------------- MODULE Catalog -------------------------------
(***************************************************************************)
(* Staff, menus, categories, equipment and customers as the settings pages *)
(* keep them (server.ts), the cards of a day that refer to them, and the   *)
(* board of the day that GET /api/dashboard puts together from reads at    *)
(* several moments (server.ts, dashboard-history.ts).                      *)
(***************************************************************************)
EXTENDS Integers, FiniteSets, FiniteSetsExt

CONSTANTS
    Staff, Menus,           \* entries that cards refer to and that may be stopped
    Categories, Equipment,  \* to which nothing refers
    Customers,
    Cards,                  \* reservations and records of the history
    Records,                \* those of the history
    Starts, Ends, NoEnd,    \* minutes of the day
    Open, Close,            \* of the salon
    Nobody,                 \* the row of what is assigned to no one
    MaxWrites               \* bound on what the others do

Entries == Staff \cup Menus \cup Categories \cup Equipment \cup Customers

VARIABLES
    entry,      \* "absent" as yet, "active", "stopped" or "deleted"
    cards,      \* of some cards: where they are and what they refer to
    shifts,     \* the staff with a shift on this day
    removing,   \* a DELETE between its count and its write
    reading,    \* a GET /api/dashboard
    writes      \* how much has happened (bound)

vars == <<entry, cards, shifts, removing, reading, writes>>

None == [kind |-> "none"]

-----------------------------------------------------------------------------
(* What refers to what                                                     *)

Refer(e) == {c \in DOMAIN cards : e \in {cards[c].row, cards[c].menu, cards[c].customer}}

\* the foreign keys: an entry that is referred to cannot be deleted
Free(e) == Refer(e) = {} /\ e \notin shifts

\* staffScheduleDependencyCount for staff, the reservations for a menu
Dependents(e) == Cardinality(Refer(e)) + (IF e \in shifts THEN 1 ELSE 0)

Exists(e) == entry[e] \in {"active", "stopped"}

Step == writes < MaxWrites /\ writes' = writes + 1

-----------------------------------------------------------------------------
(* The settings pages                                                      *)

\* POST and PATCH: a new entry, or its flag.  Each resource has handlers of its own.
Save(e, state) ==
    /\ Step /\ state # entry[e] /\ entry[e] # "deleted"
    /\ entry' = [entry EXCEPT ![e] = state]
    /\ UNCHANGED <<cards, shifts, removing, reading>>

Flags == {"active", "stopped"}

SaveStaff == \E s \in Staff, state \in Flags : Save(s, state)
SaveMenu == \E m \in Menus, state \in Flags : Save(m, state)
SaveCategory == \E k \in Categories, state \in Flags : Save(k, state)
SaveEquipment == \E q \in Equipment, state \in Flags : Save(q, state)

\* DELETE of staff or of a menu: the count ...
CountDependents(e) ==
    /\ removing = None /\ entry[e] # "absent"
    /\ removing' = [kind |-> "removing", of |-> e, count |-> Dependents(e)]
    /\ UNCHANGED <<entry, cards, shifts, reading, writes>>

DeleteStaff == \E s \in Staff : CountDependents(s)
DeleteMenu == \E m \in Menus : CountDependents(m)

\* ... and what it leads to.  What was booked in between makes the deletion fail.
StopOrDelete ==
    LET e == removing.of IN
    /\ removing # None /\ Step
    /\ removing' = None
    /\ entry' = IF ~Exists(e) THEN entry
                ELSE IF removing.count > 0 THEN [entry EXCEPT ![e] = "stopped"]
                ELSE IF Free(e) THEN [entry EXCEPT ![e] = "deleted"] ELSE entry
    /\ UNCHANGED <<cards, shifts, reading>>

\* DELETE of what nothing refers to
Drop(e) ==
    /\ Step /\ Exists(e)
    /\ entry' = [entry EXCEPT ![e] = "deleted"]
    /\ UNCHANGED <<cards, shifts, removing, reading>>

DeleteCategory == \E k \in Categories : Drop(k)
DeleteEquipment == \E q \in Equipment : Drop(q)

\* POST of a customer, under the lock of the operations; a PATCH changes nothing here
SaveCustomer == \E u \in Customers : entry[u] = "absent" /\ Save(u, "active")

\* DELETE of a customer, under the lock of the operations
DeleteCustomer == \E u \in Customers : Refer(u) = {} /\ Drop(u)

-----------------------------------------------------------------------------
(* What others put on the day                                              *)

\* a reservation is created, or moved by an edit
Book(c, s, menu, customer, start, end) ==
    /\ Step /\ c \notin Records
    /\ s \in Staff => entry[s] = "active"
    /\ entry[menu] = "active" /\ Exists(customer)
    /\ cards' = [d \in DOMAIN cards \cup {c} |->
                    IF d = c THEN [row |-> s, menu |-> menu, customer |-> customer,
                                   start |-> start, end |-> end] ELSE cards[d]]
    /\ UNCHANGED <<entry, shifts, removing, reading>>

\* A record of the history is imported, linked to its staff or moved: also to
\* staff that is stopped.
Place(c, s, start, end) ==
    /\ Step /\ c \in Records
    /\ s \in Staff => Exists(s)
    /\ cards' = [d \in DOMAIN cards \cup {c} |->
                    IF d = c THEN [row |-> s, menu |-> Nobody, customer |-> Nobody,
                                   start |-> start, end |-> end] ELSE cards[d]]
    /\ UNCHANGED <<entry, shifts, removing, reading>>

\* a shift is written or deleted
Shift(s) ==
    /\ Step /\ Exists(s)
    /\ shifts' = (shifts \ {s}) \cup ({s} \ shifts)
    /\ UNCHANGED <<entry, cards, removing, reading>>

-----------------------------------------------------------------------------
(* buildDashboardFromDatabase: the salon with its staff is read first, then *)
(* four reads run side by side.                                            *)

Parts == {"live", "history", "shifts", "metrics"}

Day(of) == [c \in DOMAIN cards \cap of |->
               [row |-> cards[c].row, start |-> cards[c].start, end |-> cards[c].end]]

ReadSalon ==
    /\ reading = None
    /\ reading' = [kind |-> "reading", staff |-> [s \in Staff |-> entry[s]],
                   missing |-> Parts, live |-> Day({}), history |-> Day({}), shifts |-> {}]
    /\ UNCHANGED <<entry, cards, shifts, removing, writes>>

ReadPart(part) ==
    /\ reading # None /\ part \in reading.missing
    /\ reading' = [reading EXCEPT
                       !.missing = @ \ {part},
                       !.live = IF part = "live" THEN Day(Cards \ Records) ELSE @,
                       !.history = IF part = "history" THEN Day(Records) ELSE @,
                       !.shifts = IF part = "shifts" THEN shifts ELSE @]
    /\ UNCHANGED <<entry, cards, shifts, removing, writes>>

Answered == reading # None /\ reading.missing = {}

Answer == Answered /\ reading' = None /\ UNCHANGED <<entry, cards, shifts, removing, writes>>

RowsOf(day) == {day[c].row : c \in DOMAIN day}

\* variant: the rows of the live reservations and of the shifts
VisibleRowsLive(r) == RowsOf(r.live) \cup r.shifts

VisibleRows(r) == RowsOf(r.live) \cup RowsOf(r.history) \cup r.shifts

\* dashboardScheduleRows
ScheduleRows(r) ==
    {Nobody} \cup {s \in Staff : \/ r.staff[s] = "active"
                                 \/ r.staff[s] = "stopped" /\ s \in VisibleRows(r)}

Shown(r) == {r.live[c] : c \in DOMAIN r.live} \cup {r.history[c] : c \in DOMAIN r.history}

Marker == 30
EndOf(card) == IF card.end = NoEnd THEN card.start + Marker ELSE card.end

\* dashboardDisplayHours, in whole hours
DisplayHours(r) ==
    [start |-> (Min({Open} \cup {card.start : card \in Shown(r)}) \div 60) * 60,
     end |-> ((Max({Close} \cup {EndOf(card) : card \in Shown(r)}) + 59) \div 60) * 60]

-----------------------------------------------------------------------------
Init ==
    /\ entry \in [Entries -> {"absent", "active", "stopped"}]
    /\ \A e \in Entries \ Staff : entry[e] = "active" \/ (e \in Customers /\ entry[e] = "absent")
    /\ cards = [c \in {} |-> 0]
    /\ shifts = {} /\ removing = None /\ reading = None /\ writes = 0

Next ==
    \/ SaveStaff \/ SaveMenu \/ SaveCategory \/ SaveEquipment \/ SaveCustomer
    \/ DeleteStaff \/ DeleteMenu \/ DeleteCategory \/ DeleteEquipment \/ DeleteCustomer
    \/ \E s \in Staff \cup {Nobody}, start \in Starts, end \in Ends :
          /\ start < end
          /\ \E c \in Cards, menu \in Menus, customer \in Customers :
                Book(c, s, menu, customer, start, end)
    \/ \E c \in Cards, s \in Staff \cup {Nobody}, start \in Starts, end \in Ends \cup {NoEnd} :
          Place(c, s, start, end) /\ (IF end = NoEnd THEN TRUE ELSE start < end)
    \/ \E s \in Staff : Shift(s)
    \/ StopOrDelete \/ ReadSalon \/ Answer
    \/ \E part \in Parts : ReadPart(part)

Spec == Init /\ [][Next]_vars

-----------------------------------------------------------------------------
\* No card of the board is without a row or outside its hours, although staff is
\* stopped, deleted and booked while the board is read; only a card of staff that
\* did not exist when the reading began has no row yet.
EveryCardHasItsPlace ==
    Answered =>
        LET hours == DisplayHours(reading)
            places == ScheduleRows(reading) \cup {s \in Staff : reading.staff[s] = "absent"}
        IN \A card \in Shown(reading) :
              /\ card.row \in places
              /\ hours.start <= card.start /\ EndOf(card) <= hours.end
=============================================================================
