------------------------------- MODULE Booking -------------------------------
(***************************************************************************)
(* The reservation desk of one salon: apps/api/src/server.ts (create, edit *)
(* and status change by staff, the recount of a customer's visits, the     *)
(* master data the checks read), reservation-capacity.ts (the admission    *)
(* check) and member-booking-routes.ts (create and cancel by a member).    *)
(*                                                                         *)
(* A worker is one HTTP request being handled.  A write goes through       *)
(*   read     the copy taken outside the transaction (edit, status)        *)
(*   writing  the Tenant and Salon rows are locked, every check has passed *)
(*            and the transaction has yet to commit                        *)
(*   recount  committed; the separate transactions that recount the visits *)
(*            of the customers concerned are still to run                  *)
(* and may be lost by a crash in any of them.  Settings, staff and shift   *)
(* rows are written without the tenant lock, so they may change between    *)
(* "writing" and the commit.                                               *)
(***************************************************************************)
EXTENDS Integers, FiniteSets

CONSTANTS
    Reservations,       \* identifiers of reservation rows
    Customers,          \* a customer stands for the pair (customer, service)
    Staff,
    Workers,            \* requests handled at the same time
    NoCustomer, Nobody, NoReservation, NoWorker,
    Slots,              \* the intervals [start, end) requests ask for
    RequestedStatuses,  \* the statuses requests ask for
    EditShapes,         \* the sets of fields an edit may name
    SettingsChoices,    \* the values the settings row may be given
    StaffChoices,       \* the values a staff row may be given
    ShiftRows,          \* the shift rows that may exist
    Recordable,         \* bound: reservations accounting and charts may touch
    BookingCutoff,      \* instants before the start when members stop booking
    CancelCutoff,       \* instants before the start when members stop cancelling
    LastInstant,        \* bound on the clock
    MaxStamp            \* bound on the writes of one reservation row but a last refund

Statuses == {"PENDING", "CONFIRMED", "ARRIVED", "COMPLETED", "CANCELLED",
             "NO_SHOW", "WAITLIST"}
CapacityStatuses == {"PENDING", "CONFIRMED", "ARRIVED", "COMPLETED"}
Released == {"CANCELLED", "NO_SHOW"}
Fields == {"time", "staff", "status", "customer"}
Blocking == {"OFF", "BREAK", "SALES_STOP"}
ShiftTypes == Blocking \cup {"AVAILABLE", "TRAINING"}

NoBooking == [status |-> "NONE", start |-> 0, end |-> 0,
              staff |-> Nobody, customer |-> NoCustomer]
NoGrant == [store |-> 0, staff |-> 0]
Unlimited == Cardinality(Reservations)
IdleRequest == [step |-> "idle", kind |-> "none", id |-> NoReservation, seen |-> 0,
                named |-> {}, want |-> NoBooking, grant |-> NoGrant, recount |-> {}]

Placements == [status: Statuses, start: Nat, end: Nat,
               staff: Staff \cup {Nobody}, customer: Customers]
BookingRows == Placements \cup {NoBooking}
Grants == [store: Nat, staff: Nat]
SettingsRows == [exists: BOOLEAN, accepting: BOOLEAN, max: Nat]
StaffRows == [active: BOOLEAN, capacity: Nat]
Requests == [step: {"idle", "read", "writing", "recount"},
             kind: {"none", "create", "edit", "status", "memberCreate", "memberCancel"},
             id: Reservations \cup {NoReservation}, seen: Nat, named: SUBSET Fields,
             want: BookingRows, grant: Grants, recount: SUBSET Customers]

ASSUME BookingAssumption ==
    /\ IsFiniteSet(Reservations)
    /\ NoReservation \notin Reservations /\ NoWorker \notin Workers
    /\ NoCustomer \notin Customers /\ Nobody \notin Staff
    /\ Slots \subseteq [start: Nat, end: Nat]
    /\ RequestedStatuses \subseteq Statuses
    /\ EditShapes \subseteq SUBSET Fields
    /\ SettingsChoices \subseteq SettingsRows
    /\ StaffChoices \subseteq StaffRows
    /\ ShiftRows \subseteq [who: Staff \cup {Nobody}, type: ShiftTypes,
                            start: Nat, end: Nat]
    /\ Recordable \subseteq Reservations
    /\ BookingCutoff \in Nat /\ CancelCutoff \in Nat
    /\ LastInstant \in Nat /\ MaxStamp \in Nat

VARIABLES
    booking,     \* the Reservation rows
    stamp,       \* their updatedAt, as a count of writes
    payment,     \* their paymentStatus
    settled,     \* reservations with a FINALIZED checkout
    charted,     \* reservations with a treatment chart
    settings,    \* the SalonSettings row
    staff,       \* the Staff rows
    shifts,      \* the Shift rows
    visitCount,  \* Customer.visitCount
    request,     \* what each worker is doing
    lock,        \* the worker that holds the Tenant and Salon row locks
    now,         \* the clock
    granted,     \* history: the limits each reservation was last admitted under
    uncounted    \* history: customers whose recount was skipped or lost

masters == <<settings, staff, shifts>>
rows == <<booking, stamp, payment, settled, charted>>
history == <<granted, uncounted>>
vars == <<booking, stamp, payment, settled, charted, settings, staff, shifts,
          visitCount, request, lock, now, granted, uncounted>>

-----------------------------------------------------------------------------
(* Admission, reservation-capacity.ts and member-booking-domain.ts         *)

OccupiedAt(t) == {r \in Reservations : /\ booking[r].status \in CapacityStatuses
                                       /\ booking[r].start <= t
                                       /\ t < booking[r].end}
ServedAt(s, t) == {r \in OccupiedAt(t) : booking[r].staff = s}
Instants == UNION {slot.start .. slot.end : slot \in Slots}
Completed(c) == {r \in Reservations : /\ booking[r].status = "COMPLETED"
                                      /\ booking[r].customer = c}

Overlaps(row, want) == row.start < want.end /\ row.end > want.start
IsBlocked(who, want) ==
    \E row \in shifts : row.who = who /\ row.type \in Blocking /\ Overlaps(row, want)

\* peakConcurrentReservations < limit, counting every reservation but r;
\* module Availability relates the sweep of the code to this form.
StoreHasRoom(r, want, limit) ==
    \A t \in want.start .. want.end - 1 : Cardinality(OccupiedAt(t) \ {r}) < limit
\* variant: only the first instant of the slot is looked at
StaffHasRoomAtStart(r, want, limit) ==
    Cardinality(ServedAt(want.staff, want.start) \ {r}) < limit
StaffHasRoom(r, want, limit) ==
    \A t \in want.start .. want.end - 1 : Cardinality(ServedAt(want.staff, t) \ {r}) < limit

\* reservationCapacityProblem(...) = null
CapacityAllows(r, want) ==
    /\ want.start < want.end
    /\ settings.exists => settings.accepting
    /\ ~IsBlocked(Nobody, want)
    /\ settings.exists => StoreHasRoom(r, want, settings.max)
    /\ want.staff # Nobody =>
          /\ staff[want.staff].active
          /\ StaffHasRoom(r, want, staff[want.staff].capacity)
          /\ ~IsBlocked(want.staff, want)

GrantFor(want) ==
    IF want.status \in Released THEN NoGrant
    ELSE [store |-> IF settings.exists THEN settings.max ELSE Unlimited,
          staff |-> IF want.staff = Nobody THEN Unlimited ELSE staff[want.staff].capacity]

\* the AVAILABLE rows of the staff member cover every instant of the slot, and
\* no blocking or TRAINING row of the store or of the staff member meets it
MemberStaffIsWorking(s, want) ==
    /\ staff[s].active
    /\ \A t \in want.start .. want.end - 1 :
          \E row \in shifts : /\ row.who = s /\ row.type = "AVAILABLE"
                              /\ row.start <= t /\ t < row.end
    /\ ~\E row \in shifts : /\ row.who \in {s, Nobody}
                            /\ row.type \in Blocking \cup {"TRAINING"}
                            /\ Overlaps(row, want)

MemberStartIsBookable(want) ==
    settings.exists /\ settings.accepting /\ want.start > now + BookingCutoff

MemberCanCancel(r) ==
    /\ settings.exists
    /\ booking[r].status \in {"PENDING", "CONFIRMED", "WAITLIST"}
    /\ payment[r] = "UNPAID"
    /\ booking[r].start > now + CancelCutoff

-----------------------------------------------------------------------------
Init ==
    /\ booking = [r \in Reservations |-> NoBooking]
    /\ stamp = [r \in Reservations |-> 0]
    /\ payment = [r \in Reservations |-> "UNPAID"]
    /\ settled = {} /\ charted = {} /\ shifts = {} /\ uncounted = {}
    /\ settings = [exists |-> FALSE, accepting |-> FALSE, max |-> 0]
    /\ staff \in [Staff -> StaffChoices]
    /\ visitCount = [c \in Customers |-> 0]
    /\ request = [w \in Workers |-> IdleRequest]
    /\ lock = NoWorker /\ now = 0
    /\ granted = [r \in Reservations |-> NoGrant]

-----------------------------------------------------------------------------
(* Requests read, enter the transaction, commit                            *)

\* PATCH /api/reservations/:id: existing is read outside the transaction and
\* the interval, the staff and the status not named are taken from it.
ReadForEdit(w, r) ==
    /\ request[w].step = "idle" /\ booking[r] # NoBooking /\ stamp[r] < MaxStamp
    /\ \E named \in EditShapes, slot \in Slots, s \in Staff \cup {Nobody},
          status \in RequestedStatuses, c \in Customers :
         request' = [request EXCEPT ![w] =
             [IdleRequest EXCEPT !.step = "read", !.kind = "edit", !.id = r,
                !.seen = stamp[r], !.named = named,
                !.want = [status   |-> IF "status" \in named THEN status ELSE booking[r].status,
                          start    |-> IF "time" \in named THEN slot.start ELSE booking[r].start,
                          end      |-> IF "time" \in named THEN slot.end ELSE booking[r].end,
                          staff    |-> IF "staff" \in named THEN s ELSE booking[r].staff,
                          customer |-> IF "customer" \in named THEN c ELSE booking[r].customer]]]
    /\ UNCHANGED <<rows, masters, visitCount, lock, now, history>>

\* PATCH /api/reservations/:id/status
ReadForStatus(w, r) ==
    /\ request[w].step = "idle" /\ booking[r] # NoBooking /\ stamp[r] < MaxStamp
    /\ \E status \in RequestedStatuses :
         request' = [request EXCEPT ![w] =
             [IdleRequest EXCEPT !.step = "read", !.kind = "status", !.id = r,
                !.seen = stamp[r], !.named = {"status"},
                !.want = [booking[r] EXCEPT !.status = status]]]
    /\ UNCHANGED <<rows, masters, visitCount, lock, now, history>>

ChangesContext(r, want) ==
    \/ want.start # booking[r].start \/ want.end # booking[r].end
    \/ want.staff # booking[r].staff \/ want.customer # booking[r].customer

\* The row as the update writes it: the interval always, the rest when named.
Merged(r, want, named) ==
    [booking[r] EXCEPT !.start = want.start, !.end = want.end,
        !.status = IF "status" \in named THEN want.status ELSE @,
        !.staff = IF "staff" \in named THEN want.staff ELSE @,
        !.customer = IF "customer" \in named THEN want.customer ELSE @]

\* variant: updatedAt is not compared
EditAllowedStale(q) ==
    /\ q.want.status \notin Released => CapacityAllows(q.id, q.want)
    /\ ChangesContext(q.id, q.want) => q.id \notin settled \cup charted

\* variant: the records kept of the reservation are not looked at
EditAllowedRecorded(q) ==
    /\ stamp[q.id] = q.seen
    /\ q.want.status \notin Released => CapacityAllows(q.id, q.want)

EditAllowed(q) ==
    /\ stamp[q.id] = q.seen
    /\ q.want.status \notin Released => CapacityAllows(q.id, q.want)
    /\ ChangesContext(q.id, q.want) => q.id \notin settled \cup charted

StatusAllowed(q) ==
    /\ stamp[q.id] = q.seen
    /\ q.want.status \notin Released =>
          CapacityAllows(q.id, [booking[q.id] EXCEPT !.status = q.want.status])

Allowed(q) == IF q.kind = "edit" THEN EditAllowed(q) ELSE StatusAllowed(q)
Written(q) == IF q.kind = "edit" THEN Merged(q.id, q.want, q.named)
              ELSE [booking[q.id] EXCEPT !.status = q.want.status]

\* variant: only the customer the reservation had before is recounted
RecountsFormerOnly(q, row) == {booking[q.id].customer}

\* existing.customerId, and updated.customerId when it is another one
CustomersToRecount(q, row) == {booking[q.id].customer, row.customer}

\* lockOperation and the checks that follow it; the row to write is settled here
EnterChange(w) ==
    LET q == request[w]
        row == Written(q)
    IN /\ lock = NoWorker
       /\ q.step = "read" /\ Allowed(q)
       /\ lock' = w
       /\ request' = [request EXCEPT ![w] =
              [q EXCEPT !.step = "writing", !.want = row, !.grant = GrantFor(row),
                        !.recount = CustomersToRecount(q, row)]]
       /\ UNCHANGED <<rows, masters, visitCount, now, history>>

RefuseChange(w) ==
    /\ lock = NoWorker
    /\ request[w].step = "read" /\ ~Allowed(request[w])
    /\ request' = [request EXCEPT ![w] = IdleRequest]
    /\ UNCHANGED <<rows, masters, visitCount, lock, now, history>>

\* variant: the transaction checks and writes without the lock
BeginUnlocked(w, kind, r, want, named) ==
    /\ request[w].step = "idle"
    /\ lock' = w
    /\ request' = [request EXCEPT ![w] =
           [IdleRequest EXCEPT !.step = "writing", !.kind = kind, !.id = r,
              !.named = named, !.want = want, !.grant = GrantFor(want)]]
    /\ UNCHANGED <<rows, masters, visitCount, now, history>>

Begin(w, kind, r, want, named) ==
    /\ lock = NoWorker /\ request[w].step = "idle"
    /\ lock' = w
    /\ request' = [request EXCEPT ![w] =
           [IdleRequest EXCEPT !.step = "writing", !.kind = kind, !.id = r,
              !.named = named, !.want = want, !.grant = GrantFor(want)]]
    /\ UNCHANGED <<rows, masters, visitCount, now, history>>

\* POST /api/reservations: any status may be asked for
EnterCreate(w, r) ==
    /\ booking[r] = NoBooking
    /\ \E slot \in Slots, s \in Staff \cup {Nobody}, status \in RequestedStatuses,
          c \in Customers :
         LET want == [status |-> status, start |-> slot.start, end |-> slot.end,
                      staff |-> s, customer |-> c]
         IN /\ status \notin Released => CapacityAllows(r, want)
            /\ Begin(w, "create", r, want, Fields)

\* POST /api/member/reservations
EnterMemberCreate(w, r) ==
    /\ booking[r] = NoBooking
    /\ \E slot \in Slots, s \in Staff, c \in Customers :
         LET want == [status |-> "CONFIRMED", start |-> slot.start, end |-> slot.end,
                      staff |-> s, customer |-> c]
         IN /\ MemberStartIsBookable(want)
            /\ MemberStaffIsWorking(s, want)
            /\ CapacityAllows(r, want)
            /\ Begin(w, "memberCreate", r, want, Fields)

\* POST /api/member/reservations/:id/cancel (an already cancelled one is returned as it is)
EnterMemberCancel(w, r) ==
    /\ MemberCanCancel(r) /\ r \notin settled \cup charted /\ stamp[r] < MaxStamp
    /\ Begin(w, "memberCancel", r, [booking[r] EXCEPT !.status = "CANCELLED"], {"status"})

\* variant: nothing is recounted
AfterCommitNothing(q) == IdleRequest

\* A committed edit or status change goes on to recount the customers it
\* concerns; a creation and a member's cancellation recount nobody.
AfterCommit(q) ==
    IF q.recount = {} THEN IdleRequest
    ELSE [IdleRequest EXCEPT !.step = "recount", !.recount = q.recount]

Commit(w) ==
    LET q == request[w] IN
    /\ q.step = "writing"
    /\ booking' = [booking EXCEPT ![q.id] = q.want]
    /\ stamp' = [stamp EXCEPT ![q.id] = @ + 1]
    /\ granted' = [granted EXCEPT ![q.id] = q.grant]
    /\ request' = [request EXCEPT ![w] = AfterCommit(q)]
    /\ lock' = NoWorker
    /\ uncounted' = IF q.kind = "create" /\ q.want.status = "COMPLETED"
                    THEN uncounted \cup {q.want.customer} ELSE uncounted
    /\ UNCHANGED <<payment, settled, charted, masters, visitCount, now>>

\* recalculateCustomerStats, a transaction of its own that locks the Salon row
Recount(w) ==
    /\ request[w].step = "recount" /\ lock = NoWorker
    /\ \E c \in request[w].recount :
         LET left == request[w].recount \ {c} IN
         /\ visitCount' = [visitCount EXCEPT ![c] = Cardinality(Completed(c))]
         /\ uncounted' = uncounted \ {c}
         /\ request' = [request EXCEPT ![w] =
                IF left = {} THEN IdleRequest ELSE [request[w] EXCEPT !.recount = left]]
    /\ UNCHANGED <<rows, masters, lock, now, granted>>

\* The process dies, or a transaction fails for good: an open transaction is
\* rolled back, recounts still to run are never run.
Crash(w) ==
    /\ request[w].step # "idle"
    /\ request' = [request EXCEPT ![w] = IdleRequest]
    /\ lock' = IF lock = w THEN NoWorker ELSE lock
    /\ uncounted' = IF request[w].step = "recount"
                    THEN uncounted \cup request[w].recount ELSE uncounted
    /\ UNCHANGED <<rows, masters, visitCount, now, granted>>

-----------------------------------------------------------------------------
(* The other routes that write the rows the desk reads                     *)

\* variant: accounting does not wait for the lock
SettleUnlocked(r) ==
    /\ stamp[r] < MaxStamp
    /\ booking[r] # NoBooking /\ booking[r].status \notin Released /\ r \notin settled
    /\ settled' = settled \cup {r}
    /\ payment' = [payment EXCEPT ![r] = "PAID"]
    /\ stamp' = [stamp EXCEPT ![r] = @ + 1]
    /\ UNCHANGED <<booking, charted, masters, visitCount, request, lock, now, history>>

\* finalize of cash-routes.ts (module Cash)
Settle(r) ==
    /\ lock = NoWorker /\ stamp[r] < MaxStamp
    /\ booking[r] # NoBooking /\ booking[r].status \notin Released /\ r \notin settled
    /\ settled' = settled \cup {r}
    /\ payment' = [payment EXCEPT ![r] = "PAID"]
    /\ stamp' = [stamp EXCEPT ![r] = @ + 1]
    /\ UNCHANGED <<booking, charted, masters, visitCount, request, lock, now, history>>

\* reverse of cash-routes.ts (module Cash)
Refund(r) ==
    /\ lock = NoWorker /\ r \in settled
    /\ settled' = settled \ {r}
    /\ payment' = [payment EXCEPT ![r] = "REFUNDED"]
    /\ stamp' = [stamp EXCEPT ![r] = @ + 1]
    /\ UNCHANGED <<booking, charted, masters, visitCount, request, lock, now, history>>

\* creation of a chart, chart-routes.ts
Chart(r) ==
    /\ lock = NoWorker /\ booking[r] # NoBooking /\ r \notin charted
    /\ charted' = charted \cup {r}
    /\ UNCHANGED <<booking, stamp, payment, settled, masters, visitCount, request, lock,
                   now, history>>

\* PATCH /api/admin/settings, no tenant lock; the first write inserts the row, and
\* its foreign key waits for the Salon row
ChangeSettings ==
    /\ settings.exists \/ lock = NoWorker
    /\ \E new \in SettingsChoices : new.exists /\ settings' = new
    /\ UNCHANGED <<rows, staff, shifts, visitCount, request, lock, now, history>>

\* PATCH and DELETE /api/admin/staff/:id, no tenant lock
ChangeStaff(s) ==
    /\ \E new \in StaffChoices : staff' = [staff EXCEPT ![s] = new]
    /\ UNCHANGED <<rows, settings, shifts, visitCount, request, lock, now, history>>

\* POST, PATCH and DELETE /api/admin/shifts, no tenant lock and no look at the
\* reservations already placed (module Shifts has the handlers)
ChangeShifts ==
    /\ \E row \in ShiftRows : \/ row \notin shifts /\ shifts' = shifts \cup {row}
                              \/ row \in shifts /\ shifts' = shifts \ {row}
    /\ UNCHANGED <<rows, settings, staff, visitCount, request, lock, now, history>>

Tick ==
    /\ now < LastInstant
    /\ now' = now + 1
    /\ UNCHANGED <<rows, masters, visitCount, request, lock, history>>

Next ==
    \/ \E w \in Workers, r \in Reservations :
          \/ ReadForEdit(w, r) \/ ReadForStatus(w, r) \/ EnterCreate(w, r)
          \/ EnterMemberCreate(w, r) \/ EnterMemberCancel(w, r)
    \/ \E w \in Workers :
          EnterChange(w) \/ RefuseChange(w) \/ Commit(w) \/ Recount(w) \/ Crash(w)
    \/ \E r \in Recordable : Settle(r) \/ Refund(r) \/ Chart(r)
    \/ \E s \in Staff : ChangeStaff(s)
    \/ ChangeSettings \/ ChangeShifts \/ Tick

Spec == Init /\ [][Next]_vars

\* A handler that was scheduled goes on; the row lock queue of the database is
\* first come first served, so whoever waits for the lock gets it in the end.
Fairness ==
    \A w \in Workers : /\ WF_vars(Commit(w))
                       /\ SF_vars(Recount(w))
FairSpec == Spec /\ Fairness
-----------------------------------------------------------------------------
(* What the desk promises                                                  *)

\* Every variable stays in its domain.
TypeOK ==
    /\ booking \in [Reservations -> BookingRows]
    /\ stamp \in [Reservations -> Nat]
    /\ payment \in [Reservations -> {"UNPAID", "PAID", "REFUNDED"}]
    /\ settled \subseteq Reservations /\ charted \subseteq Reservations
    /\ settings \in SettingsRows /\ staff \in [Staff -> StaffRows]
    /\ shifts \subseteq ShiftRows
    /\ visitCount \in [Customers -> Nat]
    /\ request \in [Workers -> Requests]
    /\ lock \in Workers \cup {NoWorker} /\ now \in Nat
    /\ granted \in [Reservations -> Grants]
    /\ uncounted \subseteq Customers

\* No overbooking of the salon: at every instant somebody in the crowd was
\* admitted under a limit at least as large as the crowd (assertReservationCapacity
\* run under the lock, whatever happens to the settings meanwhile).
StoreNotOverbooked ==
    \A t \in Instants : OccupiedAt(t) # {} =>
        \E r \in OccupiedAt(t) : Cardinality(OccupiedAt(t)) <= granted[r].store

\* The same for the parallel customers of each staff member.
StaffNotOverbooked ==
    \A t \in Instants, s \in Staff : ServedAt(s, t) # {} =>
        \E r \in ServedAt(s, t) : Cardinality(ServedAt(s, t)) <= granted[r].staff

\* A customer's visit count differs from the completed reservations only while a
\* recount is on its way, or after one was skipped (creation as COMPLETED) or
\* lost in a crash (recalculateCustomerStats runs after the commit).
VisitCountStaleOnlyInFlight ==
    \A c \in Customers : visitCount[c] # Cardinality(Completed(c)) =>
        \/ c \in uncounted
        \/ \E w \in Workers : request[w].step = "recount" /\ c \in request[w].recount

\* While a reservation has a finalized checkout or a chart, its interval, staff
\* and customer never change (the changesContext refusal of the edit route).
SettledContextFrozen ==
    [][\A r \in settled \cup charted :
          /\ booking'[r].start = booking[r].start /\ booking'[r].end = booking[r].end
          /\ booking'[r].staff = booking[r].staff
          /\ booking'[r].customer = booking[r].customer]_vars

\* A field of a reservation changes only by a request that named it: what an edit
\* copied from its stale read never overwrites what another request wrote since.
OnlyNamedFieldsChange ==
    [][\A r \in Reservations : booking[r] # NoBooking =>
          \E named \in SUBSET Fields :
             /\ \/ named = {}
                \/ \E w \in Workers : /\ request[w].step = "writing"
                                      /\ request[w].id = r /\ request[w].named = named
             /\ booking'[r].status = booking[r].status \/ "status" \in named
             /\ booking'[r].staff = booking[r].staff \/ "staff" \in named
             /\ booking'[r].customer = booking[r].customer \/ "customer" \in named
             /\ \/ "time" \in named
                \/ booking'[r].start = booking[r].start /\ booking'[r].end = booking[r].end]_vars

\* Every visit count is right in the end, or was skipped or lost.
VisitCountsCatchUp ==
    \A c \in Customers :
        [](visitCount[c] # Cardinality(Completed(c)) =>
              <>(visitCount[c] = Cardinality(Completed(c)) \/ c \in uncounted))

\* What a reservation sells, as accounting sees it.
ContextOf(row) == [start |-> row.start, end |-> row.end,
                   staff |-> row.staff, customer |-> row.customer]
Contexts == [start: Nat, end: Nat, staff: Staff \cup {Nobody},
             customer: Customers \cup {NoCustomer}]

\* A member's cancellation never takes back a reservation whose treatment or
\* payment is on record.
MembersCancelOnlyOpenOnes ==
    [][\A w \in Workers : request[w].kind = "memberCancel" /\ booking' # booking /\ lock = w =>
          LET r == request[w].id IN
          r \notin settled \cup charted /\ payment[r] = "UNPAID"
          /\ booking[r].status \in {"PENDING", "CONFIRMED", "WAITLIST"}]_vars

\* The desk keeps the promise of module SettlementBook, as module Cash does: while
\* money is held for a reservation, no request changes what it sells, and no member
\* cancels it.
Book == INSTANCE SettlementBook WITH
            context <- [r \in Reservations |-> ContextOf(booking[r])]
KeepsBook == Book!Spec /\ MembersCancelOnlyOpenOnes
-----------------------------------------------------------------------------
(* The inductive invariant behind them (proved in BookingProofs)            *)

LayerAt(t, k) == {r \in OccupiedAt(t) : granted[r].store <= k}
StaffLayerAt(s, t, k) == {r \in ServedAt(s, t) : granted[r].staff <= k}
Limits == 0 .. Unlimited

\* Those admitted under a limit of at most k are never more than k.
StoreLayers == \A t \in Instants, k \in Limits : Cardinality(LayerAt(t, k)) <= k
StaffLayers == \A s \in Staff, t \in Instants, k \in Limits :
                  Cardinality(StaffLayerAt(s, t, k)) <= k

\* Whoever is about to write holds the lock; a pre-read is of an existing row.
LockHeld ==
    \A w \in Workers : LET q == request[w] IN
        /\ q.step = "writing" <=> lock = w
        /\ q.step \in {"read", "writing"} => q.id \in Reservations /\ q.want \in Placements
        /\ q.step = "read" => booking[q.id] # NoBooking /\ q.kind \in {"edit", "status"}

\* What is about to be written still fits, whatever happened to the settings.
PendingFits ==
    \A w \in Workers : LET q == request[w] IN
        q.step = "writing" /\ q.want.status \in CapacityStatuses =>
            /\ StoreHasRoom(q.id, q.want, q.grant.store)
            /\ q.want.staff # Nobody => StaffHasRoom(q.id, q.want, q.grant.staff)

SameTime(a, b) == a.start = b.start /\ a.end = b.end
AgreesBut(named, a, b) ==
    /\ "time" \in named \/ SameTime(a, b)
    /\ "status" \in named \/ a.status = b.status
    /\ "staff" \in named \/ a.staff = b.staff
    /\ "customer" \in named \/ a.customer = b.customer

\* A pre-read that is still current agrees with the row in all it does not name,
\* and so does what is about to be written over an existing row.
CopiesCurrent ==
    \A w \in Workers : LET q == request[w] IN
        /\ q.step = "read" => /\ q.seen <= stamp[q.id]
                              /\ q.kind = "status" => q.named = {"status"}
                              /\ q.seen = stamp[q.id] => AgreesBut(q.named, q.want, booking[q.id])
        /\ q.step = "writing" /\ booking[q.id] # NoBooking =>
              AgreesBut(q.named, q.want, booking[q.id])

SameContext(a, b) == SameTime(a, b) /\ a.staff = b.staff /\ a.customer = b.customer

\* Only existing reservations are settled or charted, and what is about to be
\* written over such a one keeps its context.
RecordedFrozen ==
    /\ \A r \in settled \cup charted : booking[r] # NoBooking
    /\ \A w \in Workers : LET q == request[w] IN
          q.step = "writing" /\ q.id \in settled \cup charted =>
              SameContext(q.want, booking[q.id])

\* What is about to be written either recounts the customers it concerns, or is a
\* creation, or makes and unmakes no visit; a member cancels what is open and unpaid.
WritesKnown ==
    \A w \in Workers :
        LET q == request[w]
            old == booking[q.id]
        IN q.step = "writing" =>
              \/ /\ q.kind \in {"edit", "status"}
                 /\ old.customer \in q.recount /\ q.want.customer \in q.recount
              \/ q.kind = "create" /\ old = NoBooking
              \/ q.kind = "memberCreate" /\ old = NoBooking /\ q.want.status = "CONFIRMED"
              \/ /\ q.kind = "memberCancel" /\ q.want.status = "CANCELLED"
                 /\ old.status \in {"PENDING", "CONFIRMED", "WAITLIST"}
                 /\ payment[q.id] = "UNPAID" /\ q.id \notin settled \cup charted

BookingInv == /\ TypeOK /\ LockHeld /\ StoreLayers /\ StaffLayers /\ PendingFits
              /\ CopiesCurrent /\ RecordedFrozen
=============================================================================
