---------------------------- MODULE Availability ----------------------------
(***************************************************************************)
(* The algorithms that decide when a member may book, over one salon's     *)
(* rows: the sweep of reservation-capacity.ts, the coverage walk, the      *)
(* booking window and the slot list of member-booking-domain.ts, and the   *)
(* checks POST /api/member/reservations makes for the slot picked.         *)
(*                                                                         *)
(* The steps only let the rows grow and the clock move, so that the        *)
(* algorithms are compared with each other and with their plain meaning in *)
(* every small salon.  An instant is a minute since day 0; a day has       *)
(* DayLength minutes.                                                      *)
(***************************************************************************)
EXTENDS Integers, FiniteSets, Sequences, SequencesExt

CONSTANTS
    Ids,                \* identifiers of capacity-holding reservations
    Staff, Nobody,
    DayLength, Days,    \* minutes of a day; bound on the days looked at
    BusyRows,           \* rows [staff, start, end] a reservation may have
    ShiftRows,          \* rows [staff, type, start, end] a shift may have
    SettingsChoices,    \* the settings rows considered
    Capacities,         \* parallelCapacity of each staff member
    Duration,           \* durationMinutes of the service asked for
    MinInterval, MaxInterval, \* 5 and 240 in the code
    LastInstant,        \* bound on the clock
    MaxRows             \* bound on the rows of a salon, of both kinds together

NoRow == [staff |-> Nobody, start |-> 0, end |-> 0]

ASSUME AvailabilityAssumption ==
    /\ Nobody \notin Staff /\ DayLength \in Nat \ {0} /\ Duration \in Nat \ {0}
    /\ NoRow \notin BusyRows

VARIABLES settings, busy, shifts, now

vars == <<settings, busy, shifts, now>>

Horizon == 0 .. Days * DayLength - 1
Rows(ids) == {id \in ids : busy[id] # NoRow}

-----------------------------------------------------------------------------
(* reservation-capacity.ts                                                 *)

Overlapping(from, to) == {id \in Rows(Ids) : busy[id].start < to /\ busy[id].end > from}

\* variant: at the same instant arrivals are counted before departures
EarlierArrivalsFirst(a, b) == a.time < b.time \/ (a.time = b.time /\ a.change > b.change)

Earlier(a, b) == a.time < b.time \/ (a.time = b.time /\ a.change < b.change)

\* the events of the sweep, ends before starts at the same instant
Sweep(ids, from, to) ==
    LET clipped(id) == [from |-> IF busy[id].start > from THEN busy[id].start ELSE from,
                        to   |-> IF busy[id].end < to THEN busy[id].end ELSE to]
        met == {id \in ids : clipped(id).from < clipped(id).to}
        events == {[of |-> id, time |-> clipped(id).from, change |-> 1] : id \in met}
                  \cup {[of |-> id, time |-> clipped(id).to, change |-> -1] : id \in met}
    IN SetToSortSeq(events, Earlier)

PeakConcurrentReservations(ids, from, to) ==
    LET step(acc, event) ==
            LET occupied == acc.occupied + event.change
            IN [occupied |-> occupied,
                maximum |-> IF occupied > acc.maximum THEN occupied ELSE acc.maximum]
    IN FoldLeft(step, [occupied |-> 0, maximum |-> 0], Sweep(ids, from, to)).maximum

Blocking == {"OFF", "BREAK", "SALES_STOP"}
Blocks(types, who, from, to) ==
    \E row \in shifts : /\ row.staff \in who /\ row.type \in types
                        /\ row.start < to /\ row.end > from

CapacityAllows(s, from, to) ==
    LET overlaps == Overlapping(from, to) IN
    /\ from < to
    /\ settings.accepting
    /\ ~Blocks(Blocking, {Nobody}, from, to)
    /\ PeakConcurrentReservations(overlaps, from, to) < settings.max
    /\ PeakConcurrentReservations({id \in overlaps : busy[id].staff = s}, from, to)
           < Capacities[s]
    /\ ~Blocks(Blocking, {s}, from, to)

-----------------------------------------------------------------------------
(* member-booking-domain.ts                                                *)

DayOf(t) == t \div DayLength

\* cutoffAt: the instant from which a start can no longer be booked
CutoffAt(start) ==
    IF settings.mode = "hours" THEN start - settings.amount
    ELSE LET limit == (DayOf(start) - settings.amount) * DayLength + settings.time
         IN IF limit < start THEN limit ELSE start

MemberDayIsOpen(day) == day \notin settings.closedDays

MemberStartIsBookable(start, at) ==
    LET minute == start % DayLength
        distance == DayOf(start) - DayOf(at)
    IN /\ settings.accepting /\ start > at
       /\ distance >= 0 /\ distance <= settings.window
       /\ MemberDayIsOpen(DayOf(start))
       /\ settings.close > settings.open
       /\ minute >= settings.open /\ minute + Duration <= settings.close
       /\ settings.interval >= MinInterval /\ settings.interval <= MaxInterval
       /\ (minute - settings.open) % settings.interval = 0
       /\ settings.mode # "unknown" /\ at < CutoffAt(start)

\* the walk over the AVAILABLE rows of s, earliest first, until a gap
CoveredThrough(s, rows, from) ==
    LET own == {row \in rows : row.type = "AVAILABLE" /\ row.staff = s}
        walk == SetToSortSeq(own, LAMBDA a, b : a.start < b.start)
        step(acc, row) ==
            IF acc.stopped \/ row.start > acc.through THEN [acc EXCEPT !.stopped = TRUE]
            ELSE IF row.end > acc.through THEN [acc EXCEPT !.through = row.end] ELSE acc
    IN FoldLeft(step, [through |-> from, stopped |-> FALSE], walk).through

MemberStaffIsWorking(s, rows, from, to) ==
    /\ CoveredThrough(s, rows, from) >= to
    /\ ~\E row \in rows : /\ row.staff \in {Nobody, s}
                          /\ row.type \in Blocking \cup {"TRAINING"}
                          /\ row.start < to /\ row.end > from

MemberSlotIsAvailable(s, rows, ids, from, to) ==
    /\ MemberStaffIsWorking(s, rows, from, to)
    /\ PeakConcurrentReservations(ids, from, to) < settings.max
    /\ PeakConcurrentReservations({id \in ids : busy[id].staff = s}, from, to) < Capacities[s]

\* variant: only the rows wholly inside the interval are fetched
RowsWithin(from, to) == {row \in shifts : row.start >= from /\ row.end <= to}

\* the shift rows a query for an interval fetches
RowsBetween(from, to) == {row \in shifts : row.start < to /\ row.end > from}

\* the minutes the loop of memberAvailabilitySlots visits
CandidateMinutes == {m \in 0 .. DayLength - 1 : /\ m >= settings.open
                                                /\ m + Duration <= settings.close
                                                /\ (m - settings.open) % settings.interval = 0}

\* GET /api/member/availability for one day: the pairs of start and staff offered
MemberAvailabilitySlots(day) ==
    LET from == day * DayLength
        to == from + DayLength
        usable == /\ settings.close > settings.open
                  /\ settings.interval >= MinInterval /\ settings.interval <= MaxInterval
    IN {slot \in {from + m : m \in IF usable THEN CandidateMinutes ELSE {}} \X Staff :
           /\ MemberStartIsBookable(slot[1], now)
           /\ MemberSlotIsAvailable(slot[2], RowsBetween(from, to), Overlapping(from, to),
                                    slot[1], slot[1] + Duration)}

\* POST /api/member/reservations: the checks on start, staff and capacity
CreationAccepts(start, s) ==
    /\ MemberStartIsBookable(start, now)
    /\ MemberStaffIsWorking(s, RowsBetween(start, start + Duration), start, start + Duration)
    /\ CapacityAllows(s, start, start + Duration)

-----------------------------------------------------------------------------
Init ==
    /\ settings \in SettingsChoices
    /\ busy = [id \in Ids |-> NoRow] /\ shifts = {} /\ now = 0

RoomForOneMore == Cardinality(Rows(Ids)) + Cardinality(shifts) < MaxRows

Reserve(id) ==
    /\ busy[id] = NoRow /\ RoomForOneMore
    /\ \E row \in BusyRows : busy' = [busy EXCEPT ![id] = row]
    /\ UNCHANGED <<settings, shifts, now>>

AddShift ==
    /\ RoomForOneMore
    /\ \E row \in ShiftRows \ shifts : shifts' = shifts \cup {row}
    /\ UNCHANGED <<settings, busy, now>>

Tick ==
    /\ now < LastInstant
    /\ now' = now + 1
    /\ UNCHANGED <<settings, busy, shifts>>

Next == (\E id \in Ids : Reserve(id)) \/ AddShift \/ Tick

Spec == Init /\ [][Next]_vars

-----------------------------------------------------------------------------
Crowd(ids, t) == Cardinality({id \in ids : busy[id].start <= t /\ t < busy[id].end})

\* The sweep returns the largest crowd of any instant in the interval
\* (peakConcurrentReservations), so comparing it with a limit is what module
\* Booking says with a quantifier.
PeakIsLargestCrowd ==
    \A from, to \in Horizon : from < to =>
        LET peak == PeakConcurrentReservations(Rows(Ids), from, to) IN
        /\ \A t \in from .. to - 1 : Crowd(Rows(Ids), t) <= peak
        /\ peak = 0 \/ \E t \in from .. to - 1 : Crowd(Rows(Ids), t) = peak

\* A staff member works through a slot exactly when every instant of it lies in
\* an AVAILABLE row of theirs and no row closes it (memberStaffIsWorking), be the
\* rows in pieces, nested, adjacent or inverted.
CoverageIsPointwise ==
    \A s \in Staff : \A from, to \in Horizon : from < to =>
        (MemberStaffIsWorking(s, shifts, from, to) <=>
            /\ \A t \in from .. to - 1 :
                  \E row \in shifts : /\ row.staff = s /\ row.type = "AVAILABLE"
                                      /\ row.start <= t /\ t < row.end
            /\ ~Blocks(Blocking \cup {"TRAINING"}, {s, Nobody}, from, to))

\* What the availability list offers is what a creation at the same moment
\* accepts, no less and no more: the list works on the rows of the day, the
\* creation on those that meet the slot (member-booking-routes.ts).
OfferedIsAccepted ==
    \A day \in DayOf(now) .. Days - 1 :
        MemberAvailabilitySlots(day) =
            {slot \in {t \in Horizon : DayOf(t) = day} \X Staff : CreationAccepts(slot[1], slot[2])}
=============================================================================
