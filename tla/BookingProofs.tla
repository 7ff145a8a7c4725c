---------------------------- MODULE BookingProofs ----------------------------
(***************************************************************************)
(* Theorems about Booking, for every set of reservations, workers, slots,  *)
(* limits and shift rows.                                                  *)
(***************************************************************************)
EXTENDS Booking, FiniteSetTheorems, TLAPS

\* The parts of a request keep their types.
LEMMA RequestTypes ==
    ASSUME TypeOK, NEW w \in Workers
    PROVE  /\ request[w] \in Requests
           /\ request[w].want \in BookingRows /\ request[w].grant \in Grants
           /\ request[w].seen \in Nat /\ request[w].named \subseteq Fields
           /\ request[w].recount \subseteq Customers
           /\ request[w].id \in Reservations \cup {NoReservation}
BY DEF TypeOK, Requests

\* A worker at rest, no row and no grant have their types.
LEMMA IdleTyped == IdleRequest \in Requests /\ NoBooking \in BookingRows /\ NoGrant \in Grants
BY DEF IdleRequest, Requests, NoBooking, BookingRows, NoGrant, Grants

\* A request that is being set up anew keeps every request in its type.
LEMMA RequestUpdated ==
    ASSUME TypeOK, NEW w \in Workers, NEW q \in Requests,
           request' = [request EXCEPT ![w] = q]
    PROVE  request' \in [Workers -> Requests]
BY DEF TypeOK

\* Whatever a row is, its fields have their types.
LEMMA RowFields ==
    ASSUME NEW row \in BookingRows
    PROVE  /\ row.status \in Statuses \cup {"NONE"}
           /\ row.start \in Nat /\ row.end \in Nat
           /\ row.staff \in Staff \cup {Nobody}
           /\ row.status = "NONE" <=> row = NoBooking
           /\ row # NoBooking => row \in Placements
BY DEF BookingRows, Placements, NoBooking, Statuses

\* A grant has its type.
LEMMA GrantTyped ==
    ASSUME TypeOK, NEW want \in BookingRows
    PROVE  GrantFor(want) \in Grants
<1>1. Unlimited \in Nat
  BY BookingAssumption, FS_CardinalityType DEF Unlimited
<1>2. settings.max \in Nat
  BY DEF TypeOK, SettingsRows
<1>3. want.staff # Nobody => staff[want.staff].capacity \in Nat
  BY RowFields DEF TypeOK, StaffRows
<1> QED
  BY <1>1, <1>2, <1>3 DEF GrantFor, NoGrant, Grants

\* A placement is its five fields.
LEMMA SameRow ==
    ASSUME NEW a \in Placements, NEW b \in Placements,
           a.status = b.status, a.start = b.start, a.end = b.end,
           a.staff = b.staff, a.customer = b.customer
    PROVE  a = b
BY DEF Placements

\* The row an admitted change writes is a reservation.
LEMMA WrittenTyped ==
    ASSUME TypeOK, NEW q \in Requests, q.id \in Reservations,
           booking[q.id] \in Placements, q.want \in Placements
    PROVE  Written(q) \in Placements
BY DEF Written, Merged, Placements

\* At the start every variable is in its domain.
LEMMA InitTypes == Init => TypeOK
<1> SUFFICES ASSUME Init PROVE TypeOK
  OBVIOUS
<1>1. request \in [Workers -> Requests] /\ booking \in [Reservations -> BookingRows]
      /\ granted \in [Reservations -> Grants]
  BY IdleTyped DEF Init
<1>2. settings \in SettingsRows /\ staff \in [Staff -> StaffRows]
  BY BookingAssumption DEF Init, SettingsRows
<1> QED
  BY <1>1, <1>2 DEF Init, TypeOK

-----------------------------------------------------------------------------
(* Four kinds of steps: a request reads, a request enters its transaction,  *)
(* a transaction commits, and everything else, which leaves rows alone.     *)

\* Request q has replaced that of worker w, and nothing else changed but the lock.
Replaced(w, q) ==
    /\ q \in Requests /\ request' = [request EXCEPT ![w] = q]
    /\ UNCHANGED <<rows, masters, visitCount, now, history>>

\* Worker w has copied row r outside a transaction.
ReadsWith(w, r, q) ==
    /\ Replaced(w, q) /\ UNCHANGED lock /\ request[w].step = "idle"
    /\ q.step = "read" /\ q.id = r /\ q.seen = stamp[r]
    /\ q.kind \in {"edit", "status"} /\ (q.kind = "status" => q.named = {"status"})
    /\ booking[r] # NoBooking /\ q.want \in Placements
    /\ AgreesBut(q.named, q.want, booking[r])

\* Worker w has taken the lock to write q.want over row r, all checks passed.
EntersWith(w, r, q) ==
    /\ Replaced(w, q) /\ lock = NoWorker /\ lock' = w
    /\ request[w].step \in {"idle", "read"}
    /\ q.step = "writing" /\ q.id = r /\ q.want \in Placements
    /\ q.grant = GrantFor(q.want)
    /\ q.want.status \notin Released => CapacityAllows(r, q.want)
    /\ booking[r] # NoBooking => AgreesBut(q.named, q.want, booking[r])
    /\ r \in settled \cup charted => SameContext(q.want, booking[r])

\* Reservations, grants and stamps stand; a request stays as it was or is over.
Quiet ==
    /\ UNCHANGED <<booking, granted>>
    /\ \A r \in Reservations : stamp[r] <= stamp'[r]
    /\ \A w \in Workers :
          \/ request'[w] = request[w] /\ (lock' = w <=> lock = w)
          \/ request'[w].step \in {"idle", "recount"} /\ lock' # w
    /\ \A r \in settled' \cup charted' :
          r \in settled \cup charted \/ (lock = NoWorker /\ booking[r] # NoBooking)

\* An edit reads.
LEMMA ReadForEditReads ==
    ASSUME TypeOK, NEW w \in Workers, NEW r \in Reservations, ReadForEdit(w, r)
    PROVE  \E q : ReadsWith(w, r, q)
<1>1. PICK named \in EditShapes, slot \in Slots, s \in Staff \cup {Nobody},
           status \in RequestedStatuses, c \in Customers :
       request' = [request EXCEPT ![w] =
           [IdleRequest EXCEPT !.step = "read", !.kind = "edit", !.id = r,
              !.seen = stamp[r], !.named = named,
              !.want = [status   |-> IF "status" \in named THEN status ELSE booking[r].status,
                        start    |-> IF "time" \in named THEN slot.start ELSE booking[r].start,
                        end      |-> IF "time" \in named THEN slot.end ELSE booking[r].end,
                        staff    |-> IF "staff" \in named THEN s ELSE booking[r].staff,
                        customer |-> IF "customer" \in named THEN c ELSE booking[r].customer]]]
  BY DEF ReadForEdit
<1> DEFINE want == [status   |-> IF "status" \in named THEN status ELSE booking[r].status,
                    start    |-> IF "time" \in named THEN slot.start ELSE booking[r].start,
                    end      |-> IF "time" \in named THEN slot.end ELSE booking[r].end,
                    staff    |-> IF "staff" \in named THEN s ELSE booking[r].staff,
                    customer |-> IF "customer" \in named THEN c ELSE booking[r].customer]
           q == [IdleRequest EXCEPT !.step = "read", !.kind = "edit", !.id = r,
                   !.seen = stamp[r], !.named = named, !.want = want]
<1>2. want \in Placements
  <2>1. booking[r] \in Placements
    BY RowFields DEF TypeOK, ReadForEdit
  <2>2. status \in Statuses /\ slot.start \in Nat /\ slot.end \in Nat
    BY BookingAssumption
  <2> QED
    BY <2>1, <2>2 DEF Placements
<1>3. AgreesBut(named, want, booking[r])
  BY DEF AgreesBut, SameTime
<1>4. q \in Requests
  <2>1. stamp[r] \in Nat /\ named \subseteq Fields
    BY BookingAssumption DEF TypeOK
  <2> HIDE DEF want
  <2> QED
    BY <1>2, <2>1, IdleTyped DEF Requests, IdleRequest, BookingRows
<1>5. /\ q.step = "read" /\ q.id = r /\ q.seen = stamp[r] /\ q.kind = "edit"
      /\ q.named = named /\ q.want = want
  BY DEF IdleRequest
<1>6. ReadsWith(w, r, q)
  <2> HIDE DEF want
  <2>1. request' = [request EXCEPT ![w] = q]
    BY <1>1 DEF want
  <2> HIDE DEF q
  <2> QED
    BY <2>1, <1>2, <1>3, <1>4, <1>5 DEF ReadsWith, Replaced, ReadForEdit
<1> QED
  BY <1>6

\* So does a change of the status.
LEMMA ReadForStatusReads ==
    ASSUME TypeOK, NEW w \in Workers, NEW r \in Reservations, ReadForStatus(w, r)
    PROVE  \E q : ReadsWith(w, r, q)
<1>1. PICK status \in RequestedStatuses :
       request' = [request EXCEPT ![w] =
           [IdleRequest EXCEPT !.step = "read", !.kind = "status", !.id = r,
              !.seen = stamp[r], !.named = {"status"},
              !.want = [booking[r] EXCEPT !.status = status]]]
  BY DEF ReadForStatus
<1> DEFINE want == [booking[r] EXCEPT !.status = status]
           q == [IdleRequest EXCEPT !.step = "read", !.kind = "status", !.id = r,
                   !.seen = stamp[r], !.named = {"status"}, !.want = want]
<1>2. want \in Placements /\ AgreesBut({"status"}, want, booking[r])
  <2>1. booking[r] \in Placements
    BY RowFields DEF TypeOK, ReadForStatus
  <2> QED
    BY <2>1, BookingAssumption DEF Placements, AgreesBut, SameTime
<1>3. q \in Requests
  <2>1. stamp[r] \in Nat
    BY DEF TypeOK
  <2> HIDE DEF want
  <2> QED
    BY <1>2, <2>1, IdleTyped DEF Requests, IdleRequest, BookingRows, Fields
<1>4. /\ q.step = "read" /\ q.id = r /\ q.seen = stamp[r] /\ q.kind = "status"
      /\ q.named = {"status"} /\ q.want = want
  BY DEF IdleRequest
<1>5. ReadsWith(w, r, q)
  <2> HIDE DEF want
  <2>1. request' = [request EXCEPT ![w] = q]
    BY <1>1 DEF want
  <2> HIDE DEF q
  <2> QED
    BY <2>1, <1>2, <1>3, <1>4 DEF ReadsWith, Replaced, ReadForStatus
<1> QED
  BY <1>5

\* A request that begins its own transaction enters with what it asks for.
LEMMA BeginEnters ==
    ASSUME TypeOK, NEW w \in Workers, NEW kind \in {"create", "memberCreate", "memberCancel"},
           NEW r \in Reservations, NEW want \in Placements, NEW named \in SUBSET Fields,
           Begin(w, kind, r, want, named),
           want.status \notin Released => CapacityAllows(r, want),
           booking[r] # NoBooking => AgreesBut(named, want, booking[r]),
           r \in settled \cup charted => SameContext(want, booking[r])
    PROVE  \E q : EntersWith(w, r, q)
<1> DEFINE q == [IdleRequest EXCEPT !.step = "writing", !.kind = kind, !.id = r,
                   !.named = named, !.want = want, !.grant = GrantFor(want)]
<1>1. GrantFor(want) \in Grants
  BY GrantTyped DEF BookingRows
<1>2. q \in Requests
  BY <1>1, IdleTyped DEF Requests, IdleRequest, BookingRows
<1>3. q.step = "writing" /\ q.id = r /\ q.named = named /\ q.want = want
      /\ q.grant = GrantFor(want)
  BY DEF IdleRequest
<1>4. EntersWith(w, r, q)
  <2>1. request' = [request EXCEPT ![w] = q]
    BY DEF Begin
  <2> HIDE DEF q
  <2> QED
    BY <2>1, <1>2, <1>3 DEF EntersWith, Replaced, Begin
<1> QED
  BY <1>4

\* Both creations enter.
LEMMA CreateEnters ==
    ASSUME BookingInv, NEW w \in Workers, NEW r \in Reservations,
           EnterCreate(w, r) \/ EnterMemberCreate(w, r)
    PROVE  \E q : EntersWith(w, r, q)
<1>1. booking[r] = NoBooking /\ r \notin settled \cup charted
  BY DEF EnterCreate, EnterMemberCreate, BookingInv, RecordedFrozen
<1>2. TypeOK
  BY DEF BookingInv
<1>3. CASE EnterCreate(w, r)
  <2>1. PICK slot \in Slots, s \in Staff \cup {Nobody}, status \in RequestedStatuses,
             c \in Customers :
         LET want == [status |-> status, start |-> slot.start, end |-> slot.end,
                      staff |-> s, customer |-> c]
         IN /\ status \notin Released => CapacityAllows(r, want)
            /\ Begin(w, "create", r, want, Fields)
    BY <1>3 DEF EnterCreate
  <2> DEFINE want == [status |-> status, start |-> slot.start, end |-> slot.end,
                      staff |-> s, customer |-> c]
  <2>2. want \in Placements /\ want.status = status
    BY BookingAssumption DEF Placements
  <2> HIDE DEF want
  <2>3. (status \notin Released => CapacityAllows(r, want)) /\ Begin(w, "create", r, want, Fields)
    BY <2>1 DEF want
  <2> QED
    BY <1>1, <1>2, <2>2, <2>3, BeginEnters
<1>4. CASE EnterMemberCreate(w, r)
  <2>1. PICK slot \in Slots, s \in Staff, c \in Customers :
         LET want == [status |-> "CONFIRMED", start |-> slot.start, end |-> slot.end,
                      staff |-> s, customer |-> c]
         IN /\ CapacityAllows(r, want)
            /\ Begin(w, "memberCreate", r, want, Fields)
    BY <1>4 DEF EnterMemberCreate
  <2> DEFINE want == [status |-> "CONFIRMED", start |-> slot.start, end |-> slot.end,
                      staff |-> s, customer |-> c]
  <2>2. want \in Placements
    BY BookingAssumption DEF Placements, Statuses
  <2> HIDE DEF want
  <2>3. CapacityAllows(r, want) /\ Begin(w, "memberCreate", r, want, Fields)
    BY <2>1 DEF want
  <2> QED
    BY <1>1, <1>2, <2>2, <2>3, BeginEnters
<1> QED
  BY <1>3, <1>4

\* The cancellation of a member enters.
LEMMA CancelEnters ==
    ASSUME BookingInv, NEW w \in Workers, NEW r \in Reservations, EnterMemberCancel(w, r)
    PROVE  \E q : EntersWith(w, r, q)
<1> DEFINE want == [booking[r] EXCEPT !.status = "CANCELLED"]
<1>1. booking[r] \in Placements
  BY RowFields DEF BookingInv, TypeOK, EnterMemberCancel, MemberCanCancel
<1>2. want \in Placements /\ want.status \in Released /\ AgreesBut({"status"}, want, booking[r])
  BY <1>1 DEF Placements, Statuses, Released, AgreesBut, SameTime
<1>3. Begin(w, "memberCancel", r, want, {"status"}) /\ r \notin settled \cup charted
  BY DEF EnterMemberCancel
<1> HIDE DEF want
<1> QED
  BY <1>2, <1>3, BeginEnters DEF BookingInv, Fields

\* A change enters with the row it read.
LEMMA ChangeEnters ==
    ASSUME BookingInv, NEW w \in Workers, EnterChange(w)
    PROVE  request[w].id \in Reservations /\ \E q : EntersWith(w, request[w].id, q)
<1> DEFINE q == request[w]
           row == Written(q)
           new == [q EXCEPT !.step = "writing", !.want = row, !.grant = GrantFor(row),
                     !.recount = CustomersToRecount(q, row)]
<1> USE DEF BookingInv
<1>1. /\ q \in Requests /\ q.id \in Reservations /\ q.want \in Placements
      /\ booking[q.id] \in Placements /\ booking[q.id] # NoBooking
      /\ q.step = "read" /\ q.kind \in {"edit", "status"}
  BY RowFields DEF EnterChange, LockHeld, TypeOK
<1>2. AgreesBut(q.named, q.want, booking[q.id]) /\ (q.kind = "status" => q.named = {"status"})
  BY <1>1 DEF CopiesCurrent, EnterChange, Allowed, EditAllowed, StatusAllowed
<1>3. row \in Placements
  BY <1>1, WrittenTyped
<1>4. ASSUME q.kind = "edit"
      PROVE  /\ row.status \notin Released => CapacityAllows(q.id, row)
             /\ AgreesBut(q.named, row, booking[q.id])
             /\ q.id \in settled \cup charted => SameContext(row, booking[q.id])
  <2>1. row = Merged(q.id, q.want, q.named)
    BY <1>4 DEF Written
  <2>2. /\ row.status = q.want.status /\ row.start = q.want.start /\ row.end = q.want.end
        /\ row.staff = q.want.staff /\ row.customer = q.want.customer
    BY <1>1, <1>2, <2>1 DEF Merged, AgreesBut, Placements
  <2>3. row = q.want
    BY <1>1, <1>3, <2>2, SameRow
  <2>4. EditAllowed(q)
    BY <1>4 DEF EnterChange, Allowed
  <2> HIDE DEF q, row
  <2>5. /\ row.status \notin Released => CapacityAllows(q.id, row)
        /\ AgreesBut(q.named, row, booking[q.id])
        /\ q.id \in settled \cup charted => SameContext(row, booking[q.id])
    BY <2>3, <2>4, <1>2 DEF EditAllowed, ChangesContext, SameContext, SameTime
  <2> QED
    BY <2>5
<1>5. ASSUME q.kind = "status"
      PROVE  /\ row.status \notin Released => CapacityAllows(q.id, row)
             /\ AgreesBut(q.named, row, booking[q.id])
             /\ q.id \in settled \cup charted => SameContext(row, booking[q.id])
  <2>1. row = [booking[q.id] EXCEPT !.status = q.want.status]
    BY <1>5 DEF Written
  <2>2. StatusAllowed(q)
    BY <1>5 DEF EnterChange, Allowed
  <2>3. /\ row.status = q.want.status /\ SameContext(row, booking[q.id])
    BY <1>1, <2>1 DEF Placements, SameContext, SameTime
  <2> QED
    BY <2>1, <2>2, <2>3, <1>2, <1>5 DEF StatusAllowed, AgreesBut, SameContext
<1>6. /\ row.status \notin Released => CapacityAllows(q.id, row)
      /\ AgreesBut(q.named, row, booking[q.id])
      /\ q.id \in settled \cup charted => SameContext(row, booking[q.id])
  BY <1>1, <1>4, <1>5
<1>7. new \in Requests
  <2>1. GrantFor(row) \in Grants
    BY <1>3, GrantTyped DEF BookingRows
  <2>2. CustomersToRecount(q, row) \subseteq Customers
    BY <1>1, <1>3 DEF Placements, CustomersToRecount
  <2> HIDE DEF q, row
  <2> QED
    BY <1>1, <1>3, <2>1, <2>2 DEF Requests, BookingRows
<1>8. new.step = "writing" /\ new.id = q.id /\ new.named = q.named /\ new.want = row
      /\ new.grant = GrantFor(row)
  BY <1>1 DEF Requests
<1>9. EntersWith(w, q.id, new)
  <2>1. request' = [request EXCEPT ![w] = new] /\ lock = NoWorker /\ lock' = w
        /\ UNCHANGED <<rows, masters, visitCount, now, history>>
    BY DEF EnterChange
  <2> HIDE DEF new, row
  <2> QED
    BY <2>1, <1>1, <1>3, <1>6, <1>7, <1>8 DEF EntersWith, Replaced
<1> QED
  BY <1>1, <1>9

\* Every step is of one of the four kinds.
LEMMA StepKinds ==
    ASSUME BookingInv, [Next]_vars
    PROVE  \/ \E w \in Workers, r \in Reservations : \E q : ReadsWith(w, r, q)
           \/ \E w \in Workers, r \in Reservations : \E q : EntersWith(w, r, q)
           \/ \E w \in Workers : Commit(w)
           \/ Quiet
<1> USE DEF BookingInv
<1>1. ASSUME NEW w \in Workers, NEW r \in Reservations,
             ReadForEdit(w, r) \/ ReadForStatus(w, r)
      PROVE  \E q : ReadsWith(w, r, q)
  BY <1>1, ReadForEditReads, ReadForStatusReads
<1>2. ASSUME NEW w \in Workers, NEW r \in Reservations,
             EnterCreate(w, r) \/ EnterMemberCreate(w, r) \/ EnterMemberCancel(w, r)
      PROVE  \E q : EntersWith(w, r, q)
  BY <1>2, CreateEnters, CancelEnters
<1>3. ASSUME NEW w \in Workers, EnterChange(w)
      PROVE  \E r \in Reservations : \E q : EntersWith(w, r, q)
  BY <1>3, ChangeEnters
<1>4. TypeOK /\ \A r \in Reservations : stamp[r] \in Nat
  BY DEF TypeOK
<1>5. ASSUME NEW w \in Workers, RefuseChange(w) \/ Recount(w) \/ Crash(w)
      PROVE  Quiet
  <2>1. UNCHANGED <<booking, granted, stamp, settled, charted>>
    BY <1>5 DEF RefuseChange, Recount, Crash, rows, history
  <2>2. request'[w].step \in {"idle", "recount"} /\ lock' # w
    <3>1. CASE RefuseChange(w)
      BY <3>1, BookingAssumption, <1>4 DEF RefuseChange, TypeOK, IdleRequest
    <3>2. CASE Recount(w)
      <4>1. PICK c \in request[w].recount :
              request' = [request EXCEPT ![w] =
                IF request[w].recount \ {c} = {} THEN IdleRequest
                ELSE [request[w] EXCEPT !.recount = request[w].recount \ {c}]]
        BY <3>2 DEF Recount
      <4>2. request[w] \in Requests /\ request[w].step = "recount"
        BY <3>2, RequestTypes DEF Recount
      <4>3. [request[w] EXCEPT !.recount = request[w].recount \ {c}].step = "recount"
        BY <4>2 DEF Requests
      <4> QED
        BY <3>2, <4>1, <4>3, BookingAssumption DEF Recount, TypeOK, IdleRequest
    <3>3. CASE Crash(w)
      BY <3>3, BookingAssumption, <1>4 DEF Crash, TypeOK, IdleRequest
    <3> QED
      BY <1>5, <3>1, <3>2, <3>3
  <2>3. \A v \in Workers \ {w} : request'[v] = request[v] /\ (lock' = v <=> lock = v)
    BY <1>5, <1>4, BookingAssumption DEF RefuseChange, Recount, Crash, TypeOK
  <2> QED
    BY <2>1, <2>2, <2>3, <1>4 DEF Quiet
<1>6. ASSUME NEW r \in Recordable, Settle(r) \/ Refund(r) \/ Chart(r)
      PROVE  Quiet
  <2>1. r \in Reservations
    BY BookingAssumption
  <2>2. UNCHANGED <<booking, granted, request, lock>> /\ lock = NoWorker
    BY <1>6 DEF Settle, Refund, Chart, history
  <2>3. \A x \in Reservations : stamp[x] <= stamp'[x]
    BY <1>4, <1>6, <2>1 DEF Settle, Refund, Chart, TypeOK
  <2>4. \A x \in settled' \cup charted' :
           x \in settled \cup charted \/ booking[x] # NoBooking
    BY <1>6 DEF Settle, Refund, Chart
  <2> QED
    BY <2>2, <2>3, <2>4 DEF Quiet
<1>7. ASSUME (\E s \in Staff : ChangeStaff(s)) \/ ChangeSettings \/ ChangeShifts \/ Tick
             \/ UNCHANGED vars
      PROVE  Quiet
  BY <1>7, <1>4 DEF ChangeStaff, ChangeSettings, ChangeShifts, Tick, vars, rows, history, Quiet
<1> QED
  BY <1>1, <1>2, <1>3, <1>5, <1>6, <1>7 DEF Next

-----------------------------------------------------------------------------
(* The parts of the invariant, each kept by every step                     *)

\* Every step keeps every variable in its domain.
LEMMA TypesKept ==
    ASSUME BookingInv, [Next]_vars
    PROVE  TypeOK'
<1> USE DEF BookingInv
<1>1. ASSUME NEW w \in Workers, NEW q, Replaced(w, q), lock' \in Workers \cup {NoWorker}
      PROVE  TypeOK'
  <2>1. request' \in [Workers -> Requests]
    BY <1>1, RequestUpdated DEF Replaced
  <2> QED
    BY <1>1, <2>1 DEF Replaced, TypeOK, rows, masters, history
<1>2. ASSUME NEW w \in Workers, NEW r \in Reservations,
             ReadForEdit(w, r) \/ ReadForStatus(w, r)
      PROVE  TypeOK'
  <2>1. PICK q : ReadsWith(w, r, q)
    BY <1>2, ReadForEditReads, ReadForStatusReads
  <2> QED
    BY <2>1, <1>1 DEF ReadsWith, TypeOK
<1>3. ASSUME NEW w \in Workers, NEW r \in Reservations,
             EnterCreate(w, r) \/ EnterMemberCreate(w, r) \/ EnterMemberCancel(w, r)
      PROVE  TypeOK'
  <2>1. PICK q : EntersWith(w, r, q)
    BY <1>3, CreateEnters, CancelEnters
  <2> QED
    BY <2>1, <1>1 DEF EntersWith
<1>4. ASSUME NEW w \in Workers, EnterChange(w)
      PROVE  TypeOK'
  <2>1. PICK q : EntersWith(w, request[w].id, q)
    BY <1>4, ChangeEnters
  <2> QED
    BY <2>1, <1>1 DEF EntersWith
<1>5. ASSUME NEW w \in Workers, RefuseChange(w)
      PROVE  TypeOK'
  <2>1. request' \in [Workers -> Requests]
    BY <1>5, IdleTyped, RequestUpdated DEF RefuseChange
  <2> QED
    BY <2>1, <1>5 DEF RefuseChange, TypeOK, rows, masters, history
<1>6. ASSUME NEW w \in Workers, Commit(w)
      PROVE  TypeOK'
  <2> DEFINE q == request[w]
  <2>1. q \in Requests /\ q.id \in Reservations /\ q.want \in Placements
        /\ q.grant \in Grants /\ q.recount \subseteq Customers
    BY <1>6, RequestTypes DEF Commit, LockHeld
  <2>2. AfterCommit(q) \in Requests
    BY <2>1, IdleTyped DEF AfterCommit, IdleRequest, Requests
  <2>3. request' \in [Workers -> Requests]
    BY <2>2, <1>6, RequestUpdated DEF Commit
  <2>4. booking' \in [Reservations -> BookingRows] /\ granted' \in [Reservations -> Grants]
    BY <2>1, <1>6 DEF Commit, TypeOK, BookingRows
  <2>5. stamp' \in [Reservations -> Nat]
    BY <2>1, <1>6 DEF Commit, TypeOK
  <2>6. uncounted' \subseteq Customers
    BY <2>1, <1>6 DEF Commit, TypeOK, Placements
  <2> QED
    BY <2>3, <2>4, <2>5, <2>6, <1>6 DEF Commit, TypeOK, masters
<1>7. ASSUME NEW w \in Workers, Recount(w)
      PROVE  TypeOK'
  <2>1. PICK c \in request[w].recount :
          /\ visitCount' = [visitCount EXCEPT ![c] = Cardinality(Completed(c))]
          /\ uncounted' = uncounted \ {c}
          /\ request' = [request EXCEPT ![w] =
                IF request[w].recount \ {c} = {} THEN IdleRequest
                ELSE [request[w] EXCEPT !.recount = request[w].recount \ {c}]]
    BY <1>7 DEF Recount
  <2>2. Cardinality(Completed(c)) \in Nat
    BY BookingAssumption, FS_Subset, FS_CardinalityType DEF Completed
  <2>3. [request[w] EXCEPT !.recount = request[w].recount \ {c}] \in Requests
    BY RequestTypes DEF Requests
  <2>4. request' \in [Workers -> Requests]
    BY <2>1, <2>3, IdleTyped, RequestUpdated
  <2> QED
    BY <2>1, <2>2, <2>4, <1>7 DEF Recount, TypeOK, rows, masters
<1>8. ASSUME NEW w \in Workers, Crash(w)
       PROVE  TypeOK'
  <2>1. request' \in [Workers -> Requests]
    BY <1>8, IdleTyped, RequestUpdated DEF Crash
  <2>2. uncounted' \subseteq Customers
    BY <1>8, RequestTypes DEF Crash, TypeOK
  <2> QED
    BY <2>1, <2>2, <1>8 DEF Crash, TypeOK, rows, masters
<1>9. ASSUME NEW r \in Recordable, Settle(r) \/ Refund(r) \/ Chart(r)
       PROVE  TypeOK'
  <2>1. r \in Reservations
    BY BookingAssumption
  <2> QED
    BY <1>9, <2>1 DEF Settle, Refund, Chart, TypeOK, masters, history
<1>10. ASSUME (\E s \in Staff : ChangeStaff(s)) \/ ChangeSettings \/ ChangeShifts \/ Tick
       PROVE  TypeOK'
  BY <1>10, BookingAssumption
     DEF ChangeStaff, ChangeSettings, ChangeShifts, Tick, TypeOK, rows, masters, history
<1>11. ASSUME UNCHANGED vars
       PROVE  TypeOK'
  BY <1>11 DEF vars, TypeOK
<1> QED
  BY <1>2, <1>3, <1>4, <1>5, <1>6, <1>7, <1>8, <1>9, <1>10, <1>11 DEF Next

\* A row that is placed is a row.
LEMMA PlacedIsBooked == NoBooking \notin Placements
BY DEF NoBooking, Placements, Statuses

\* What a commit does, with the facts the invariant adds.
LEMMA CommitFacts ==
    ASSUME BookingInv, NEW w \in Workers, Commit(w)
    PROVE  LET q == request[w] IN
           /\ q.id \in Reservations /\ q.want \in Placements /\ q.grant \in Grants
           /\ booking' = [booking EXCEPT ![q.id] = q.want]
           /\ granted' = [granted EXCEPT ![q.id] = q.grant]
           /\ stamp' = [stamp EXCEPT ![q.id] = @ + 1]
           /\ UNCHANGED <<settled, charted>>
           /\ lock = w /\ lock' = NoWorker
           /\ request'[w].step \in {"idle", "recount"}
           /\ \A v \in Workers \ {w} : request'[v] = request[v] /\ request[v].step # "writing"
<1>1. AfterCommit(request[w]).step \in {"idle", "recount"}
  BY DEF AfterCommit, IdleRequest
<1>2. request' = [request EXCEPT ![w] = AfterCommit(request[w])] /\ request[w].step = "writing"
  BY DEF Commit
<1>3. request[w].grant \in Grants
  BY RequestTypes DEF BookingInv
<1> QED
  BY <1>1, <1>2, <1>3 DEF Commit, BookingInv, TypeOK, LockHeld

\* Every step keeps the lock with one worker.
LEMMA LockHeldKept ==
    ASSUME BookingInv, [Next]_vars
    PROVE  LockHeld'
<1> USE DEF BookingInv
<1>1. ASSUME NEW w \in Workers, NEW r \in Reservations, NEW q, ReadsWith(w, r, q)
      PROVE  LockHeld'
  <2>1. request'[w] = q /\ lock' = lock /\ booking' = booking
        /\ \A v \in Workers \ {w} : request'[v] = request[v]
    BY <1>1 DEF ReadsWith, Replaced, TypeOK, rows
  <2>2. lock # w
    BY <1>1 DEF ReadsWith, LockHeld
  <2> QED
    BY <1>1, <2>1, <2>2 DEF ReadsWith, LockHeld
<1>2. ASSUME NEW w \in Workers, NEW r \in Reservations, NEW q, EntersWith(w, r, q)
      PROVE  LockHeld'
  <2>1. request'[w] = q /\ lock' = w /\ booking' = booking
        /\ \A v \in Workers \ {w} : request'[v] = request[v]
    BY <1>2 DEF EntersWith, Replaced, TypeOK, rows
  <2>2. \A v \in Workers : request[v].step # "writing"
    BY <1>2, BookingAssumption DEF EntersWith, LockHeld
  <2> QED
    BY <1>2, <2>1, <2>2 DEF EntersWith, LockHeld
<1>3. ASSUME NEW w \in Workers, Commit(w)
      PROVE  LockHeld'
  <2>1. \A r \in Reservations : booking[r] # NoBooking => booking'[r] # NoBooking
    BY <1>3, CommitFacts, PlacedIsBooked DEF TypeOK
  <2> QED
    BY <1>3, <2>1, CommitFacts, BookingAssumption DEF LockHeld
<1>4. ASSUME Quiet
      PROVE  LockHeld'
  BY <1>4 DEF Quiet, LockHeld
<1> QED
  BY <1>1, <1>2, <1>3, <1>4, StepKinds

\* What a worker under the lock read stays the present.
LEMMA CopiesCurrentKept ==
    ASSUME BookingInv, [Next]_vars
    PROVE  CopiesCurrent'
<1> USE DEF BookingInv
<1>1. ASSUME NEW w \in Workers, NEW r \in Reservations, NEW q, ReadsWith(w, r, q)
      PROVE  CopiesCurrent'
  <2>1. request'[w] = q /\ booking' = booking /\ stamp' = stamp
        /\ \A v \in Workers \ {w} : request'[v] = request[v]
    BY <1>1 DEF ReadsWith, Replaced, TypeOK, rows
  <2>2. stamp[r] \in Nat
    BY DEF TypeOK
  <2> QED
    BY <1>1, <2>1, <2>2 DEF ReadsWith, CopiesCurrent
<1>2. ASSUME NEW w \in Workers, NEW r \in Reservations, NEW q, EntersWith(w, r, q)
      PROVE  CopiesCurrent'
  <2>1. request'[w] = q /\ booking' = booking /\ stamp' = stamp
        /\ \A v \in Workers \ {w} : request'[v] = request[v]
    BY <1>2 DEF EntersWith, Replaced, TypeOK, rows
  <2> QED
    BY <1>2, <2>1 DEF EntersWith, CopiesCurrent
<1>3. ASSUME NEW w \in Workers, Commit(w)
      PROVE  CopiesCurrent'
  <2> SUFFICES ASSUME NEW v \in Workers \ {w}, request[v].step = "read"
               PROVE  LET q == request[v] IN
                      /\ q.seen <= stamp'[q.id]
                      /\ q.kind = "status" => q.named = {"status"}
                      /\ q.seen = stamp'[q.id] => AgreesBut(q.named, q.want, booking'[q.id])
    BY <1>3, CommitFacts DEF CopiesCurrent
  <2>1. request[v].id \in Reservations /\ request[v].seen \in Nat
    BY RequestTypes DEF LockHeld
  <2>2. CASE request[v].id = request[w].id
    <3>1. stamp'[request[v].id] = stamp[request[v].id] + 1 /\ stamp[request[v].id] \in Nat
      BY <1>3, <2>1, <2>2, CommitFacts DEF TypeOK
    <3> QED
      BY <2>1, <3>1 DEF CopiesCurrent
  <2>3. CASE request[v].id # request[w].id
    <3>1. stamp'[request[v].id] = stamp[request[v].id] /\ booking'[request[v].id] = booking[request[v].id]
      BY <1>3, <2>1, <2>3, CommitFacts DEF TypeOK
    <3> QED
      BY <3>1 DEF CopiesCurrent
  <2> QED
    BY <2>2, <2>3
<1>4. ASSUME Quiet
      PROVE  CopiesCurrent'
  <2> SUFFICES ASSUME NEW v \in Workers, request'[v].step \in {"read", "writing"}
               PROVE  LET q == request'[v] IN
                      /\ q.step = "read" =>
                            /\ q.seen <= stamp'[q.id]
                            /\ q.kind = "status" => q.named = {"status"}
                            /\ q.seen = stamp'[q.id] => AgreesBut(q.named, q.want, booking'[q.id])
                      /\ q.step = "writing" /\ booking'[q.id] # NoBooking =>
                            AgreesBut(q.named, q.want, booking'[q.id])
    BY DEF CopiesCurrent
  <2>1. request'[v] = request[v] /\ booking' = booking
    BY <1>4 DEF Quiet
  <2>2. /\ request[v].id \in Reservations /\ request[v].seen \in Nat
        /\ stamp[request[v].id] \in Nat /\ stamp[request[v].id] <= stamp'[request[v].id]
    BY <1>4, <2>1, RequestTypes DEF LockHeld, Quiet, TypeOK
  <2>3. stamp'[request[v].id] \in Nat
    BY <2>2, TypesKept DEF TypeOK
  <2> QED
    BY <2>1, <2>2, <2>3 DEF CopiesCurrent
<1> QED
  BY <1>1, <1>2, <1>3, <1>4, StepKinds

\* A context that was settled stays what it was.
LEMMA RecordedFrozenKept ==
    ASSUME BookingInv, [Next]_vars
    PROVE  RecordedFrozen'
<1> USE DEF BookingInv
<1>1. ASSUME NEW w \in Workers, NEW r \in Reservations, NEW q,
             ReadsWith(w, r, q) \/ EntersWith(w, r, q)
      PROVE  RecordedFrozen'
  <2>1. request'[w] = q /\ UNCHANGED <<booking, settled, charted>>
        /\ \A v \in Workers \ {w} : request'[v] = request[v]
    BY <1>1 DEF ReadsWith, EntersWith, Replaced, TypeOK, rows
  <2> QED
    BY <1>1, <2>1 DEF ReadsWith, EntersWith, RecordedFrozen
<1>2. ASSUME NEW w \in Workers, Commit(w)
      PROVE  RecordedFrozen'
  <2>1. \A r \in Reservations : booking[r] # NoBooking => booking'[r] # NoBooking
    BY <1>2, CommitFacts, PlacedIsBooked DEF TypeOK
  <2>2. \A v \in Workers : request'[v].step # "writing"
    BY <1>2, CommitFacts
  <2> QED
    BY <1>2, <2>1, <2>2, CommitFacts DEF RecordedFrozen, TypeOK
<1>3. ASSUME Quiet
      PROVE  RecordedFrozen'
  <2>1. \A r \in settled' \cup charted' : booking'[r] # NoBooking
    BY <1>3 DEF Quiet, RecordedFrozen
  <2>2. ASSUME NEW v \in Workers, request'[v].step = "writing",
               request'[v].id \in settled' \cup charted'
        PROVE  SameContext(request'[v].want, booking'[request'[v].id])
    <3>1. request'[v] = request[v] /\ booking' = booking /\ (lock' = v <=> lock = v)
      BY <1>3, <2>2 DEF Quiet
    <3>2. lock = v
      BY <2>2, <3>1 DEF LockHeld
    <3>3. request[v].id \in settled \cup charted
      BY <1>3, <2>2, <3>1, <3>2, BookingAssumption DEF Quiet
    <3> QED
      BY <2>2, <3>1, <3>3 DEF RecordedFrozen
  <2> QED
    BY <2>1, <2>2 DEF RecordedFrozen
<1> QED
  BY <1>1, <1>2, <1>3, StepKinds

\* Sets of reservations are finite, whatever their condition.
LEMMA Countable ==
    ASSUME NEW S \in SUBSET Reservations, NEW T \in SUBSET S
    PROVE  /\ IsFiniteSet(S) /\ IsFiniteSet(T)
           /\ Cardinality(S) \in Nat /\ Cardinality(T) \in Nat
           /\ Cardinality(T) <= Cardinality(S) /\ Cardinality(S) <= Unlimited
<1>1. IsFiniteSet(S) /\ Cardinality(S) <= Unlimited
  BY BookingAssumption, FS_Subset DEF Unlimited
<1> QED
  BY <1>1, FS_Subset, FS_CardinalityType

\* No limit is a limit no crowd reaches.
LEMMA BelowUnlimited ==
    ASSUME NEW S \in SUBSET Reservations, NEW r \in Reservations
    PROVE  Cardinality(S \ {r}) < Unlimited
<1>1. IsFiniteSet(Reservations) /\ Cardinality(Reservations) \in Nat
  BY BookingAssumption, FS_CardinalityType
<1>2. Cardinality(Reservations \ {r}) = Cardinality(Reservations) - 1
  BY <1>1, FS_RemoveElement
<1>3. IsFiniteSet(Reservations \ {r})
  BY <1>1, FS_RemoveElement
<1>4. Cardinality(S \ {r}) <= Cardinality(Reservations \ {r}) /\ Cardinality(S \ {r}) \in Nat
  BY <1>3, FS_Subset, FS_CardinalityType
<1> QED
  BY <1>1, <1>2, <1>4 DEF Unlimited

\* Without a change of the rows the crowds stay.
LEMMA CrowdsStand ==
    ASSUME booking' = booking
    PROVE  /\ \A t : OccupiedAt(t)' = OccupiedAt(t)
           /\ \A s, t : ServedAt(s, t)' = ServedAt(s, t)
BY DEF OccupiedAt, ServedAt

\* What was admitted under the lock goes on fitting.
LEMMA PendingFitsKept ==
    ASSUME BookingInv, [Next]_vars
    PROVE  PendingFits'
<1> USE DEF BookingInv
<1>1. ASSUME NEW w \in Workers, NEW r \in Reservations, NEW q, ReadsWith(w, r, q)
      PROVE  PendingFits'
  <2>1. request'[w] = q /\ booking' = booking
        /\ \A v \in Workers \ {w} : request'[v] = request[v]
    BY <1>1 DEF ReadsWith, Replaced, TypeOK, rows
  <2> QED
    BY <1>1, <2>1, CrowdsStand DEF ReadsWith, PendingFits, StoreHasRoom, StaffHasRoom
<1>2. ASSUME NEW w \in Workers, NEW r \in Reservations, NEW q, EntersWith(w, r, q)
      PROVE  PendingFits'
  <2>1. request'[w] = q /\ booking' = booking
        /\ \A v \in Workers \ {w} : request'[v] = request[v]
    BY <1>2 DEF EntersWith, Replaced, TypeOK, rows
  <2>2. \A v \in Workers : request[v].step # "writing"
    BY <1>2, BookingAssumption DEF EntersWith, LockHeld
  <2> SUFFICES ASSUME q.want.status \in CapacityStatuses
               PROVE  /\ StoreHasRoom(r, q.want, q.grant.store)
                      /\ q.want.staff # Nobody => StaffHasRoom(r, q.want, q.grant.staff)
    BY <1>2, <2>1, <2>2, CrowdsStand
       DEF EntersWith, PendingFits, StoreHasRoom, StaffHasRoom
  <2>3. q.want.status \notin Released /\ CapacityAllows(r, q.want)
    BY <1>2 DEF EntersWith, CapacityStatuses, Released
  <2>4. /\ q.grant.store = IF settings.exists THEN settings.max ELSE Unlimited
        /\ q.want.staff # Nobody => q.grant.staff = staff[q.want.staff].capacity
    BY <1>2, <2>3 DEF EntersWith, GrantFor
  <2>5. ~settings.exists => StoreHasRoom(r, q.want, q.grant.store)
    BY <2>4, BelowUnlimited DEF StoreHasRoom, OccupiedAt
  <2> QED
    BY <2>3, <2>4, <2>5 DEF CapacityAllows
<1>3. ASSUME NEW w \in Workers, Commit(w)
      PROVE  PendingFits'
  <2>1. \A v \in Workers : request'[v].step # "writing"
    BY <1>3, CommitFacts
  <2> QED
    BY <2>1 DEF PendingFits
<1>4. ASSUME Quiet
      PROVE  PendingFits'
  BY <1>4, CrowdsStand DEF Quiet, PendingFits, StoreHasRoom, StaffHasRoom
<1> QED
  BY <1>1, <1>2, <1>3, <1>4, StepKinds

-----------------------------------------------------------------------------
(* No overbooking                                                          *)

\* A crowd to which one reservation is added under a limit it respects.
LEMMA LayerGrows ==
    ASSUME NEW S \in SUBSET Reservations, NEW r \in Reservations, NEW g \in Nat, NEW k \in Nat,
           NEW L \in SUBSET (S \cup {r}), Cardinality(S \ {r}) < g, g <= k
    PROVE  Cardinality(L) <= k
<1>1. L \subseteq (S \ {r}) \cup {r} /\ (S \ {r}) \cup {r} \subseteq Reservations
  OBVIOUS
<1>2. Cardinality((S \ {r}) \cup {r}) = Cardinality(S \ {r}) + 1
  BY Countable, FS_AddElement
<1> QED
  BY <1>1, <1>2, Countable

\* Instants can be compared.
LEMMA InstantsAreIntegers == Instants \subseteq Int
BY BookingAssumption DEF Instants

\* No step puts more reservations into a store than it takes.
LEMMA StoreLayersKept ==
    ASSUME BookingInv, [Next]_vars
    PROVE  StoreLayers'
<1> USE DEF BookingInv
<1>1. ASSUME UNCHANGED <<booking, granted>>
      PROVE  StoreLayers'
  <2>1. \A t, k : LayerAt(t, k)' = LayerAt(t, k)
    BY <1>1, CrowdsStand DEF LayerAt
  <2> QED
    BY <2>1 DEF StoreLayers
<1>2. ASSUME NEW w \in Workers, Commit(w)
      PROVE  StoreLayers'
  <2> DEFINE q == request[w]
  <2> SUFFICES ASSUME NEW t \in Instants, NEW k \in Limits
               PROVE  Cardinality(LayerAt(t, k)') <= k
    BY DEF StoreLayers
  <2>1. /\ q.id \in Reservations /\ q.want \in Placements /\ q.grant \in Grants
        /\ \A r \in Reservations : booking'[r] = IF r = q.id THEN q.want ELSE booking[r]
        /\ \A r \in Reservations : granted'[r] = IF r = q.id THEN q.grant ELSE granted[r]
    BY <1>2, CommitFacts DEF TypeOK
  <2>2. k \in Nat /\ t \in Int /\ q.grant.store \in Nat
        /\ q.want.start \in Nat /\ q.want.end \in Nat
    BY <2>1, InstantsAreIntegers DEF Limits, Grants, Placements
  <2>3. LayerAt(t, k) \subseteq Reservations /\ Cardinality(LayerAt(t, k)) <= k
    BY DEF StoreLayers, LayerAt, OccupiedAt
  <2>4. CASE LayerAt(t, k)' \subseteq LayerAt(t, k)
    <3>1. Cardinality(LayerAt(t, k)') \in Nat /\ Cardinality(LayerAt(t, k)) \in Nat
          /\ Cardinality(LayerAt(t, k)') <= Cardinality(LayerAt(t, k))
      BY <2>3, <2>4, Countable
    <3> QED
      BY <2>2, <2>3, <3>1
  <2>5. CASE ~(LayerAt(t, k)' \subseteq LayerAt(t, k))
    <3>1. q.want.status \in CapacityStatuses /\ q.want.start <= t /\ t < q.want.end
          /\ q.grant.store <= k
      BY <2>1, <2>5 DEF LayerAt, OccupiedAt
    <3>2. LayerAt(t, k)' \subseteq OccupiedAt(t) \cup {q.id}
      BY <2>1 DEF LayerAt, OccupiedAt
    <3>3. Cardinality(OccupiedAt(t) \ {q.id}) < q.grant.store
      BY <1>2, <2>2, <3>1 DEF PendingFits, StoreHasRoom, Commit
    <3>4. OccupiedAt(t) \subseteq Reservations
      BY DEF OccupiedAt
    <3> QED
      BY <2>1, <2>2, <3>1, <3>2, <3>3, <3>4, LayerGrows
  <2> QED
    BY <2>4, <2>5
<1> QED
  BY <1>1, <1>2, StepKinds
     DEF ReadsWith, EntersWith, Replaced, rows, history, Quiet

\* Nor on a member of the staff.
LEMMA StaffLayersKept ==
    ASSUME BookingInv, [Next]_vars
    PROVE  StaffLayers'
<1> USE DEF BookingInv
<1>1. ASSUME UNCHANGED <<booking, granted>>
      PROVE  StaffLayers'
  <2>1. \A s, t, k : StaffLayerAt(s, t, k)' = StaffLayerAt(s, t, k)
    BY <1>1, CrowdsStand DEF StaffLayerAt
  <2> QED
    BY <2>1 DEF StaffLayers
<1>2. ASSUME NEW w \in Workers, Commit(w)
      PROVE  StaffLayers'
  <2> DEFINE q == request[w]
  <2> SUFFICES ASSUME NEW s \in Staff, NEW t \in Instants, NEW k \in Limits
               PROVE  Cardinality(StaffLayerAt(s, t, k)') <= k
    BY DEF StaffLayers
  <2>1. /\ q.id \in Reservations /\ q.want \in Placements /\ q.grant \in Grants
        /\ \A r \in Reservations : booking'[r] = IF r = q.id THEN q.want ELSE booking[r]
        /\ \A r \in Reservations : granted'[r] = IF r = q.id THEN q.grant ELSE granted[r]
    BY <1>2, CommitFacts DEF TypeOK
  <2>2. k \in Nat /\ t \in Int /\ q.grant.staff \in Nat
        /\ q.want.start \in Nat /\ q.want.end \in Nat
    BY <2>1, InstantsAreIntegers DEF Limits, Grants, Placements
  <2>3. StaffLayerAt(s, t, k) \subseteq Reservations /\ Cardinality(StaffLayerAt(s, t, k)) <= k
    BY DEF StaffLayers, StaffLayerAt, ServedAt, OccupiedAt
  <2>4. CASE StaffLayerAt(s, t, k)' \subseteq StaffLayerAt(s, t, k)
    <3>1. Cardinality(StaffLayerAt(s, t, k)') \in Nat /\ Cardinality(StaffLayerAt(s, t, k)) \in Nat
          /\ Cardinality(StaffLayerAt(s, t, k)') <= Cardinality(StaffLayerAt(s, t, k))
      BY <2>3, <2>4, Countable
    <3> QED
      BY <2>2, <2>3, <3>1
  <2>5. CASE ~(StaffLayerAt(s, t, k)' \subseteq StaffLayerAt(s, t, k))
    <3>1. q.want.status \in CapacityStatuses /\ q.want.start <= t /\ t < q.want.end
          /\ q.want.staff = s /\ q.grant.staff <= k
      BY <2>1, <2>5 DEF StaffLayerAt, ServedAt, OccupiedAt
    <3>2. StaffLayerAt(s, t, k)' \subseteq ServedAt(s, t) \cup {q.id}
      BY <2>1 DEF StaffLayerAt, ServedAt, OccupiedAt
    <3>3. StaffHasRoom(q.id, q.want, q.grant.staff)
      <4>1. q.want.staff # Nobody
        BY <3>1, BookingAssumption
      <4> QED
        BY <1>2, <3>1, <4>1 DEF PendingFits, Commit
    <3>4. Cardinality(ServedAt(q.want.staff, t) \ {q.id}) < q.grant.staff
      BY <2>2, <3>1, <3>3 DEF StaffHasRoom
    <3>5. Cardinality(ServedAt(s, t) \ {q.id}) < q.grant.staff
      BY <3>1, <3>4, Zenon
    <3>6. ServedAt(s, t) \subseteq Reservations
      BY DEF ServedAt, OccupiedAt
    <3> DEFINE S == ServedAt(s, t)
               L == StaffLayerAt(s, t, k)'
               r == q.id
               g == q.grant.staff
    <3>7. /\ S \in SUBSET Reservations /\ r \in Reservations /\ g \in Nat /\ k \in Nat
          /\ L \in SUBSET (S \cup {r}) /\ Cardinality(S \ {r}) < g /\ g <= k
      BY <2>1, <2>2, <3>1, <3>2, <3>5, <3>6
    <3> HIDE DEF S, L, r, g
    <3>8. Cardinality(L) <= k
      BY <3>7, LayerGrows
    <3> QED
      BY <3>8 DEF L
  <2> QED
    BY <2>4, <2>5
<1> QED
  BY <1>1, <1>2, StepKinds
     DEF ReadsWith, EntersWith, Replaced, rows, history, Quiet

-----------------------------------------------------------------------------
\* At the start the invariant holds.
LEMMA InitInv == Init => BookingInv
<1> SUFFICES ASSUME Init PROVE BookingInv
  OBVIOUS
<1>1. TypeOK
  BY InitTypes
<1>2. \A w \in Workers : request[w] = IdleRequest /\ request[w].step = "idle"
  BY DEF Init, IdleRequest
<1>3. LockHeld /\ PendingFits /\ CopiesCurrent /\ RecordedFrozen
  BY <1>2, BookingAssumption DEF Init, LockHeld, PendingFits, CopiesCurrent, RecordedFrozen
<1>4. \A s, t, k : LayerAt(t, k) = {} /\ StaffLayerAt(s, t, k) = {}
  BY DEF Init, NoBooking, LayerAt, StaffLayerAt, ServedAt, OccupiedAt, CapacityStatuses
<1>5. StoreLayers /\ StaffLayers
  BY <1>4, FS_EmptySet DEF StoreLayers, StaffLayers, Limits
<1> QED
  BY <1>1, <1>3, <1>5 DEF BookingInv

\* The inductive invariant: every reachable state of the desk satisfies BookingInv
\* (the transactions of server.ts, under any interleaving and any crash).
THEOREM InvariantHolds == Spec => []BookingInv
<1>1. BookingInv /\ [Next]_vars => BookingInv'
  BY TypesKept, LockHeldKept, StoreLayersKept, StaffLayersKept, PendingFitsKept,
     CopiesCurrentKept, RecordedFrozenKept DEF BookingInv
<1> QED
  BY <1>1, InitInv, PTL DEF Spec

\* Types: every variable of the desk stays in its domain.
THEOREM TypesHold == Spec => []TypeOK
<1>1. BookingInv => TypeOK
  BY DEF BookingInv
<1> QED
  BY <1>1, InvariantHolds, PTL

\* No overbooking of the salon (assertReservationCapacity under the tenant lock):
\* in any crowd somebody was admitted under a limit as large as the crowd.
THEOREM StoreNeverOverbooked == Spec => []StoreNotOverbooked
<1>1. BookingInv => StoreNotOverbooked
  <2> SUFFICES ASSUME BookingInv, NEW t \in Instants, OccupiedAt(t) # {},
                      \A r \in OccupiedAt(t) : ~(Cardinality(OccupiedAt(t)) <= granted[r].store)
               PROVE  FALSE
    BY DEF StoreNotOverbooked
  <2> DEFINE n == Cardinality(OccupiedAt(t))
  <2>1. OccupiedAt(t) \subseteq Reservations /\ n \in Nat /\ n <= Unlimited /\ n # 0
    BY Countable, FS_EmptySet DEF OccupiedAt
  <2>2. \A r \in Reservations : granted[r].store \in Nat
    BY DEF BookingInv, TypeOK, Grants
  <2>3. LayerAt(t, n - 1) = OccupiedAt(t)
    BY <2>1, <2>2 DEF LayerAt
  <2>4. n - 1 \in Limits
    BY <2>1, Countable DEF Limits, Unlimited
  <2> HIDE DEF n
  <2>5. Cardinality(LayerAt(t, n - 1)) <= n - 1
    BY <2>4 DEF BookingInv, StoreLayers
  <2> QED
    BY <2>1, <2>3, <2>5 DEF n
<1> QED
  BY <1>1, InvariantHolds, PTL

\* The same for the parallel customers of each staff member.
THEOREM StaffNeverOverbooked == Spec => []StaffNotOverbooked
<1>1. BookingInv => StaffNotOverbooked
  <2> SUFFICES ASSUME BookingInv, NEW t \in Instants, NEW s \in Staff, ServedAt(s, t) # {},
                      \A r \in ServedAt(s, t) : ~(Cardinality(ServedAt(s, t)) <= granted[r].staff)
               PROVE  FALSE
    BY DEF StaffNotOverbooked
  <2> DEFINE n == Cardinality(ServedAt(s, t))
  <2>1. ServedAt(s, t) \subseteq Reservations /\ n \in Nat /\ n <= Unlimited /\ n # 0
    BY Countable, FS_EmptySet DEF ServedAt, OccupiedAt
  <2>2. \A r \in Reservations : granted[r].staff \in Nat
    BY DEF BookingInv, TypeOK, Grants
  <2>3. StaffLayerAt(s, t, n - 1) = ServedAt(s, t)
    BY <2>1, <2>2 DEF StaffLayerAt
  <2>4. n - 1 \in Limits
    BY <2>1, Countable DEF Limits, Unlimited
  <2> HIDE DEF n
  <2>5. Cardinality(StaffLayerAt(s, t, n - 1)) <= n - 1
    BY <2>4 DEF BookingInv, StaffLayers
  <2> QED
    BY <2>1, <2>3, <2>5 DEF n
<1> QED
  BY <1>1, InvariantHolds, PTL

\* A step either leaves the rows alone or is a commit.
LEMMA RowsChangeByCommit ==
    ASSUME BookingInv, [Next]_vars
    PROVE  booking' = booking \/ \E w \in Workers : Commit(w)
BY StepKinds DEF ReadsWith, EntersWith, Replaced, rows, Quiet

\* While a reservation is settled or charted its context never changes (the
\* changesContext refusal, which holds until the commit because finalize and the
\* creation of a chart need the lock too).
THEOREM SettledContextStays == Spec => SettledContextFrozen
<1>1. ASSUME BookingInv, [Next]_vars, NEW r \in settled \cup charted
      PROVE  /\ booking'[r].start = booking[r].start /\ booking'[r].end = booking[r].end
             /\ booking'[r].staff = booking[r].staff
             /\ booking'[r].customer = booking[r].customer
  <2>1. CASE booking' = booking
    BY <2>1
  <2>2. ASSUME NEW w \in Workers, Commit(w)
        PROVE  booking'[r] = booking[r] \/ SameContext(booking'[r], booking[r])
    <3>1. r \in Reservations
      BY <1>1 DEF BookingInv, TypeOK
    <3>2. booking'[r] = IF r = request[w].id THEN request[w].want ELSE booking[r]
      BY <1>1, <2>2, <3>1, CommitFacts DEF BookingInv, TypeOK
    <3> QED
      BY <1>1, <2>2, <3>2 DEF BookingInv, RecordedFrozen, Commit
  <2> QED
    BY <1>1, <2>1, <2>2, RowsChangeByCommit DEF SameContext, SameTime
<1>2. BookingInv /\ [Next]_vars =>
         [\A r \in settled \cup charted :
            /\ booking'[r].start = booking[r].start /\ booking'[r].end = booking[r].end
            /\ booking'[r].staff = booking[r].staff
            /\ booking'[r].customer = booking[r].customer]_vars
  BY <1>1
<1> QED
  BY <1>2, InvariantHolds, PTL DEF Spec, SettledContextFrozen

\* No lost update: a field of a reservation changes only by a request that named
\* it (the updatedAt comparison of the edit and status routes).
THEOREM OnlyNamedFieldsAreWritten == Spec => OnlyNamedFieldsChange
<1> DEFINE Keeps(r, named) ==
              /\ booking'[r].status = booking[r].status \/ "status" \in named
              /\ booking'[r].staff = booking[r].staff \/ "staff" \in named
              /\ booking'[r].customer = booking[r].customer \/ "customer" \in named
              /\ \/ "time" \in named
                 \/ booking'[r].start = booking[r].start /\ booking'[r].end = booking[r].end
           Named(r, named) ==
              \/ named = {}
              \/ \E w \in Workers : /\ request[w].step = "writing"
                                    /\ request[w].id = r /\ request[w].named = named
<1>1. ASSUME BookingInv, [Next]_vars, NEW r \in Reservations, booking[r] # NoBooking
      PROVE  \E named \in SUBSET Fields : Named(r, named) /\ Keeps(r, named)
  <2>1. CASE booking'[r] = booking[r]
    <3>1. {} \in SUBSET Fields /\ Named(r, {}) /\ Keeps(r, {})
      BY <2>1
    <3> HIDE DEF Named, Keeps
    <3> QED
      BY <3>1
  <2>2. ASSUME NEW w \in Workers, Commit(w), booking'[r] # booking[r]
        PROVE  \E named \in SUBSET Fields : Named(r, named) /\ Keeps(r, named)
    <3>1. r = request[w].id /\ booking'[r] = request[w].want /\ request[w].step = "writing"
      BY <1>1, <2>2, CommitFacts DEF BookingInv, TypeOK, Commit
    <3>2. AgreesBut(request[w].named, booking'[r], booking[r])
      BY <1>1, <3>1 DEF BookingInv, CopiesCurrent
    <3>3. request[w].named \in SUBSET Fields
      BY <1>1, RequestTypes DEF BookingInv
    <3>4. Named(r, request[w].named)
      BY <3>1
    <3>5. Keeps(r, request[w].named)
      BY <3>2 DEF AgreesBut, SameTime
    <3> QED
      BY <3>3, <3>4, <3>5
  <2> QED
    BY <1>1, <2>1, <2>2, RowsChangeByCommit
<1>2. BookingInv /\ [Next]_vars =>
    [\A r \in Reservations : booking[r] # NoBooking =>
          \E named \in SUBSET Fields :
             /\ \/ named = {}
                \/ \E w \in Workers : /\ request[w].step = "writing"
                                      /\ request[w].id = r /\ request[w].named = named
             /\ booking'[r].status = booking[r].status \/ "status" \in named
             /\ booking'[r].staff = booking[r].staff \/ "staff" \in named
             /\ booking'[r].customer = booking[r].customer \/ "customer" \in named
             /\ \/ "time" \in named
                \/ booking'[r].start = booking[r].start /\ booking'[r].end = booking[r].end]_vars
  BY <1>1
<1>3. QED
  BY <1>2, InvariantHolds, PTL DEF Spec, OnlyNamedFieldsChange

-----------------------------------------------------------------------------
(* What is being written, and the visits it makes                          *)

\* How a request that begins a transaction of its own looks like.
LEMMA BeginSets ==
    ASSUME TypeOK, NEW w \in Workers, NEW kind, NEW r, NEW want, NEW named,
           Begin(w, kind, r, want, named)
    PROVE  /\ request'[w].kind = kind /\ request'[w].id = r /\ request'[w].want = want
           /\ \A v \in Workers \ {w} : request'[v] = request[v]
           /\ UNCHANGED <<booking, payment, settled, charted>>
<1> DEFINE q == [IdleRequest EXCEPT !.step = "writing", !.kind = kind, !.id = r,
                   !.named = named, !.want = want, !.grant = GrantFor(want)]
<1>1. q.kind = kind /\ q.id = r /\ q.want = want
  BY DEF IdleRequest
<1>2. request' = [request EXCEPT ![w] = q] /\ UNCHANGED <<booking, payment, settled, charted>>
  BY DEF Begin, rows
<1> HIDE DEF q
<1> QED
  BY <1>1, <1>2 DEF TypeOK

\* Nobody writes the rows of a transaction under way: accounting, charts and the other
\* requests wait for its lock.
LEMMA WritesKnownKept ==
    ASSUME BookingInv, WritesKnown, [Next]_vars
    PROVE  WritesKnown'
<1> DEFINE Right(w) ==
        LET q == request'[w]
            old == booking'[q.id]
        IN q.step = "writing" =>
              \/ /\ q.kind \in {"edit", "status"}
                 /\ old.customer \in q.recount /\ q.want.customer \in q.recount
              \/ q.kind = "create" /\ old = NoBooking
              \/ q.kind = "memberCreate" /\ old = NoBooking /\ q.want.status = "CONFIRMED"
              \/ /\ q.kind = "memberCancel" /\ q.want.status = "CANCELLED"
                 /\ old.status \in {"PENDING", "CONFIRMED", "WAITLIST"}
                 /\ payment'[q.id] = "UNPAID" /\ q.id \notin settled' \cup charted'
<1>1. TypeOK /\ LockHeld
  BY DEF BookingInv
<1>2. ASSUME NEW v \in Workers, request'[v] = request[v],
             UNCHANGED <<booking, payment, settled, charted>>
      PROVE  Right(v)
  BY <1>2 DEF WritesKnown
<1>3. ASSUME NEW v \in Workers, request'[v].step # "writing" PROVE Right(v)
  BY <1>3
<1>4. ASSUME NEW w \in Workers, Right(w), \A v \in Workers \ {w} : request'[v] = request[v],
             UNCHANGED <<booking, payment, settled, charted>>
      PROVE  \A v \in Workers : Right(v)
  <2> HIDE DEF Right
  <2> QED BY <1>2, <1>4
<1>5. ASSUME NEW w \in Workers, NEW r \in Reservations, EnterCreate(w, r)
      PROVE  \A v \in Workers : Right(v)
  <2>1. PICK want, named : Begin(w, "create", r, want, named) /\ booking[r] = NoBooking
    BY <1>5 DEF EnterCreate
  <2>2. Right(w) /\ (\A v \in Workers \ {w} : request'[v] = request[v])
        /\ UNCHANGED <<booking, payment, settled, charted>>
    BY <1>1, <2>1, BeginSets
  <2> HIDE DEF Right
  <2> QED BY <1>4, <2>2
<1>6. ASSUME NEW w \in Workers, NEW r \in Reservations, EnterMemberCreate(w, r)
      PROVE  \A v \in Workers : Right(v)
  <2>1. PICK want, named : /\ Begin(w, "memberCreate", r, want, named)
                           /\ booking[r] = NoBooking /\ want.status = "CONFIRMED"
    BY <1>6 DEF EnterMemberCreate
  <2>2. Right(w) /\ (\A v \in Workers \ {w} : request'[v] = request[v])
        /\ UNCHANGED <<booking, payment, settled, charted>>
    BY <1>1, <2>1, BeginSets
  <2> HIDE DEF Right
  <2> QED BY <1>4, <2>2
<1>7. ASSUME NEW w \in Workers, NEW r \in Reservations, EnterMemberCancel(w, r)
      PROVE  \A v \in Workers : Right(v)
  <2> DEFINE want == [booking[r] EXCEPT !.status = "CANCELLED"]
  <2>1. /\ Begin(w, "memberCancel", r, want, {"status"})
        /\ booking[r].status \in {"PENDING", "CONFIRMED", "WAITLIST"}
        /\ payment[r] = "UNPAID" /\ r \notin settled \cup charted
    BY <1>7 DEF EnterMemberCancel, MemberCanCancel
  <2>2. want.status = "CANCELLED"
    <3>1. booking[r] \in Placements
      BY <1>1, <2>1, RowFields DEF TypeOK
    <3> QED BY <3>1 DEF Placements
  <2> HIDE DEF want
  <2>3. Right(w) /\ (\A v \in Workers \ {w} : request'[v] = request[v])
        /\ UNCHANGED <<booking, payment, settled, charted>>
    BY <1>1, <2>1, <2>2, BeginSets
  <2> HIDE DEF Right
  <2> QED BY <1>4, <2>3
<1>8. ASSUME NEW w \in Workers, EnterChange(w) PROVE \A v \in Workers : Right(v)
  <2> DEFINE q == request[w]
             row == Written(q)
             new == [q EXCEPT !.step = "writing", !.want = row, !.grant = GrantFor(row),
                              !.recount = CustomersToRecount(q, row)]
  <2>1. q \in Requests /\ q.step = "read" /\ q.kind \in {"edit", "status"}
    BY <1>1, <1>8 DEF EnterChange, LockHeld, TypeOK
  <2>2. /\ new.kind = q.kind /\ new.id = q.id /\ new.want = row
        /\ new.recount = {booking[q.id].customer, row.customer}
    BY <2>1 DEF CustomersToRecount, Requests
  <2>3. request' = [request EXCEPT ![w] = new] /\ UNCHANGED <<booking, payment, settled, charted>>
    BY <1>8 DEF EnterChange, rows
  <2> HIDE DEF new, row
  <2>4. request'[w] = new /\ \A v \in Workers \ {w} : request'[v] = request[v]
    BY <1>1, <2>3 DEF TypeOK
  <2>5. Right(w)
    BY <2>1, <2>2, <2>3, <2>4
  <2> HIDE DEF Right
  <2> QED BY <1>4, <2>3, <2>4, <2>5
<1>9. ASSUME NEW w \in Workers, Commit(w) PROVE \A v \in Workers : Right(v)
  <2>1. \A v \in Workers : request'[v].step # "writing"
    BY <1>9, CommitFacts
  <2> QED BY <2>1
<1>10. ASSUME NEW w \in Workers, NEW r \in Reservations, ReadForEdit(w, r) \/ ReadForStatus(w, r)
       PROVE  \A v \in Workers : Right(v)
  <2>1. PICK q : ReadsWith(w, r, q)
    BY <1>1, <1>10, ReadForEditReads, ReadForStatusReads
  <2>2. /\ request'[w].step # "writing" /\ \A v \in Workers \ {w} : request'[v] = request[v]
        /\ UNCHANGED <<booking, payment, settled, charted>>
    BY <1>1, <2>1 DEF ReadsWith, Replaced, TypeOK, rows
  <2>3. Right(w)
    BY <1>3, <2>2
  <2> HIDE DEF Right
  <2> QED BY <1>4, <2>2, <2>3
<1>11. ASSUME NEW w \in Workers, RefuseChange(w) \/ Crash(w) PROVE \A v \in Workers : Right(v)
  <2>1. /\ request' = [request EXCEPT ![w] = IdleRequest]
        /\ UNCHANGED <<booking, payment, settled, charted>>
    BY <1>11 DEF RefuseChange, Crash, rows
  <2>2. request'[w].step # "writing" /\ \A v \in Workers \ {w} : request'[v] = request[v]
    BY <1>1, <2>1 DEF TypeOK, IdleRequest
  <2>3. Right(w)
    BY <1>3, <2>2
  <2> HIDE DEF Right
  <2> QED BY <1>4, <2>1, <2>2, <2>3
<1>12. ASSUME NEW w \in Workers, Recount(w) PROVE \A v \in Workers : Right(v)
  <2>1. PICK left : request' = [request EXCEPT ![w] =
                        IF left = {} THEN IdleRequest ELSE [request[w] EXCEPT !.recount = left]]
    BY <1>12 DEF Recount
  <2>2. request[w] \in Requests /\ request[w].step = "recount"
    BY <1>1, <1>12, RequestTypes DEF Recount
  <2>3. UNCHANGED <<booking, payment, settled, charted>>
    BY <1>12 DEF Recount, rows
  <2>4. [request[w] EXCEPT !.recount = left].step = "recount" /\ IdleRequest.step = "idle"
    BY <2>2 DEF Requests, IdleRequest
  <2>5. request'[w].step # "writing" /\ \A v \in Workers \ {w} : request'[v] = request[v]
    BY <1>1, <2>1, <2>4 DEF TypeOK
  <2>6. Right(w)
    BY <1>3, <2>5
  <2> HIDE DEF Right
  <2> QED BY <1>4, <2>3, <2>5, <2>6
<1>13. ASSUME NEW r \in Recordable, Settle(r) \/ Refund(r) \/ Chart(r)
       PROVE  \A v \in Workers : Right(v)
  <2>1. request' = request /\ lock = NoWorker
    BY <1>13 DEF Settle, Refund, Chart
  <2>2. \A v \in Workers : request'[v].step # "writing"
    BY <1>1, <2>1, BookingAssumption DEF LockHeld
  <2> QED BY <2>2
<1>14. ASSUME \/ \E s \in Staff : ChangeStaff(s)
              \/ ChangeSettings \/ ChangeShifts \/ Tick \/ UNCHANGED vars
       PROVE  \A v \in Workers : Right(v)
  <2>1. UNCHANGED <<request, booking, payment, settled, charted>>
    BY <1>14 DEF ChangeStaff, ChangeSettings, ChangeShifts, Tick, vars, rows
  <2> HIDE DEF Right
  <2> QED BY <1>2, <2>1
<1>15. \A v \in Workers : Right(v)
  <2> HIDE DEF Right
  <2> QED BY <1>5, <1>6, <1>7, <1>8, <1>9, <1>10, <1>11, <1>12, <1>13, <1>14 DEF Next
<1> QED
  BY <1>15 DEF WritesKnown

\* Whoever completed what, a visit count is behind only while its recount is on its way.
LEMMA VisitCountsKept ==
    ASSUME BookingInv, WritesKnown, VisitCountStaleOnlyInFlight, [Next]_vars
    PROVE  VisitCountStaleOnlyInFlight'
<1> DEFINE OnItsWay(c) == \E v \in Workers : request[v].step = "recount" /\ c \in request[v].recount
           OnItsWayNext(c) == \E v \in Workers : request'[v].step = "recount" /\ c \in request'[v].recount
           Right(c) == visitCount'[c] # Cardinality(Completed(c)') => c \in uncounted' \/ OnItsWayNext(c)
<1>1. TypeOK /\ LockHeld
  BY DEF BookingInv
<1>2. ASSUME NEW c \in Customers, visitCount'[c] = visitCount[c], Completed(c)' = Completed(c),
             c \in uncounted \/ OnItsWay(c) => c \in uncounted' \/ OnItsWayNext(c)
      PROVE  Right(c)
  BY <1>2 DEF VisitCountStaleOnlyInFlight
<1>3. ASSUME NEW c \in Customers, UNCHANGED <<booking, visitCount, uncounted>>,
             \A v \in Workers : request'[v] = request[v] \/ request[v].step # "recount"
      PROVE  Right(c)
  <2>1. Completed(c)' = Completed(c)
    BY <1>3 DEF Completed
  <2>2. OnItsWay(c) => OnItsWayNext(c)
    BY <1>3
  <2> QED BY <1>2, <1>3, <2>1, <2>2
<1>4. ASSUME NEW w \in Workers, NEW r \in Reservations, NEW q,
             ReadsWith(w, r, q) \/ EntersWith(w, r, q)
      PROVE  \A c \in Customers : Right(c)
  <2>1. /\ UNCHANGED <<booking, visitCount, uncounted>> /\ request[w].step # "recount"
        /\ \A v \in Workers \ {w} : request'[v] = request[v]
    BY <1>1, <1>4 DEF ReadsWith, EntersWith, Replaced, TypeOK, rows, history
  <2> HIDE DEF Right
  <2> QED BY <1>3, <2>1
<1>5. ASSUME NEW w \in Workers, Commit(w), NEW c \in Customers PROVE Right(c)
  <2> DEFINE q == request[w]
             old == booking[q.id]
  <2>1. /\ q.id \in Reservations /\ q.want \in Placements /\ q.step = "writing"
        /\ booking' = [booking EXCEPT ![q.id] = q.want]
        /\ request'[w] = AfterCommit(q) /\ visitCount' = visitCount
        /\ uncounted' = IF q.kind = "create" /\ q.want.status = "COMPLETED"
                        THEN uncounted \cup {q.want.customer} ELSE uncounted
        /\ \A v \in Workers \ {w} : request'[v] = request[v]
    BY <1>1, <1>5, CommitFacts DEF Commit, TypeOK
  <2>2. booking'[q.id] = q.want /\ \A r \in Reservations \ {q.id} : booking'[r] = booking[r]
    BY <1>1, <2>1 DEF TypeOK
  <2>3. OnItsWay(c) => OnItsWayNext(c)
    BY <2>1
  <2>4. CASE Completed(c)' = Completed(c)
    <3> HIDE DEF Right, OnItsWay, OnItsWayNext
    <3> QED BY <1>2, <2>1, <2>3, <2>4
  <2>5. CASE Completed(c)' # Completed(c)
    <3>1. \/ old.status = "COMPLETED" /\ old.customer = c
          \/ q.want.status = "COMPLETED" /\ q.want.customer = c
      BY <2>2, <2>5 DEF Completed
    <3>2. CASE old.customer \in q.recount /\ q.want.customer \in q.recount
      <4>1. c \in q.recount /\ q.recount # {}
        BY <3>1, <3>2
      <4>2. request'[w].step = "recount" /\ request'[w].recount = q.recount
        BY <2>1, <4>1 DEF AfterCommit, IdleRequest
      <4> QED BY <4>1, <4>2
    <3>3. CASE q.kind = "create" /\ old = NoBooking
      BY <2>1, <3>1, <3>3 DEF NoBooking
    <3>4. old.status # "COMPLETED" /\ q.want.status # "COMPLETED" => FALSE
      BY <3>1
    <3>5. NoBooking.status # "COMPLETED"
      BY DEF NoBooking
    <3> HIDE DEF Right
    <3> QED BY <2>1, <3>2, <3>3, <3>4, <3>5 DEF WritesKnown
  <2> QED BY <2>4, <2>5
<1>6. ASSUME NEW w \in Workers, RefuseChange(w) PROVE \A c \in Customers : Right(c)
  <2>1. /\ UNCHANGED <<booking, visitCount, uncounted>> /\ request[w].step # "recount"
        /\ \A v \in Workers \ {w} : request'[v] = request[v]
    BY <1>1, <1>6 DEF RefuseChange, TypeOK, rows, history
  <2> HIDE DEF Right
  <2> QED BY <1>3, <2>1
<1>7. ASSUME NEW w \in Workers, Recount(w) PROVE \A c \in Customers : Right(c)
  <2>1. PICK d \in request[w].recount :
          /\ visitCount' = [visitCount EXCEPT ![d] = Cardinality(Completed(d))]
          /\ uncounted' = uncounted \ {d}
          /\ request' = [request EXCEPT ![w] =
                IF request[w].recount \ {d} = {} THEN IdleRequest
                ELSE [request[w] EXCEPT !.recount = request[w].recount \ {d}]]
    BY <1>7 DEF Recount
  <2>2. /\ booking' = booking /\ request[w] \in Requests /\ request[w].step = "recount"
        /\ request[w].recount \subseteq Customers
    BY <1>1, <1>7, RequestTypes DEF Recount, rows
  <2> DEFINE left == request[w].recount \ {d}
             after == [request[w] EXCEPT !.recount = left]
  <2>3. after.step = "recount" /\ after.recount = left
    BY <2>2 DEF Requests
  <2>4. \A c : Completed(c)' = Completed(c)
    BY <2>2 DEF Completed
  <2>5. Right(d)
    BY <1>1, <2>1, <2>2, <2>4 DEF TypeOK
  <2>6. ASSUME NEW c \in Customers \ {d} PROVE Right(c)
    <3>1. visitCount'[c] = visitCount[c] /\ (c \in uncounted => c \in uncounted')
      BY <1>1, <2>1, <2>2 DEF TypeOK
    <3>2. ASSUME NEW v \in Workers, request[v].step = "recount", c \in request[v].recount
          PROVE  request'[v].step = "recount" /\ c \in request'[v].recount
      <4>1. CASE v = w
        <5>1. c \in left /\ left # {}
          BY <3>2, <4>1
        <5>2. request'[w] = after
          BY <1>1, <2>1, <5>1 DEF TypeOK
        <5> QED BY <2>3, <4>1, <5>1, <5>2
      <4>2. CASE v # w
        <5>1. request'[v] = request[v]
          BY <1>1, <2>1, <4>2 DEF TypeOK
        <5> QED BY <3>2, <5>1
      <4> QED BY <4>1, <4>2
    <3>3. OnItsWay(c) => OnItsWayNext(c)
      BY <3>2
    <3> HIDE DEF Right, OnItsWay, OnItsWayNext
    <3> QED BY <1>2, <2>4, <3>1, <3>3
  <2> HIDE DEF Right
  <2> QED BY <2>5, <2>6
<1>8. ASSUME NEW w \in Workers, Crash(w), NEW c \in Customers PROVE Right(c)
  <2>1. /\ UNCHANGED <<booking, visitCount>>
        /\ uncounted' = IF request[w].step = "recount"
                        THEN uncounted \cup request[w].recount ELSE uncounted
        /\ \A v \in Workers \ {w} : request'[v] = request[v]
    BY <1>1, <1>8 DEF Crash, TypeOK, rows
  <2>2. Completed(c)' = Completed(c)
    BY <2>1 DEF Completed
  <2>3. c \in uncounted \/ OnItsWay(c) => c \in uncounted' \/ OnItsWayNext(c)
    BY <2>1
  <2> HIDE DEF Right, OnItsWay, OnItsWayNext
  <2> QED BY <1>2, <2>1, <2>2, <2>3
<1>9. ASSUME \/ \E r \in Recordable : Settle(r) \/ Refund(r) \/ Chart(r)
             \/ \E s \in Staff : ChangeStaff(s)
             \/ ChangeSettings \/ ChangeShifts \/ Tick \/ UNCHANGED vars
      PROVE  \A c \in Customers : Right(c)
  <2>1. UNCHANGED <<request, booking, visitCount, uncounted>>
    BY <1>9 DEF Settle, Refund, Chart, ChangeStaff, ChangeSettings, ChangeShifts, Tick, vars,
                rows, history
  <2> HIDE DEF Right
  <2> QED BY <1>3, <2>1
<1>10. ASSUME NEW w \in Workers, NEW r \in Reservations,
              ReadForEdit(w, r) \/ ReadForStatus(w, r) \/ EnterCreate(w, r)
              \/ EnterMemberCreate(w, r) \/ EnterMemberCancel(w, r)
       PROVE  \A c \in Customers : Right(c)
  <2>1. \E q : ReadsWith(w, r, q) \/ EntersWith(w, r, q)
    BY <1>1, <1>10, ReadForEditReads, ReadForStatusReads, CreateEnters, CancelEnters
  <2> HIDE DEF Right
  <2> QED BY <1>4, <2>1
<1>11. ASSUME NEW w \in Workers, EnterChange(w) PROVE \A c \in Customers : Right(c)
  <2>1. request[w].id \in Reservations /\ \E q : EntersWith(w, request[w].id, q)
    BY <1>11, ChangeEnters
  <2>2. \E r \in Reservations : \E q : EntersWith(w, r, q)
    BY <2>1
  <2> HIDE DEF Right
  <2> QED BY <1>4, <2>2
<1>12. \A c \in Customers : Right(c)
  <2> HIDE DEF Right
  <2> QED BY <1>5, <1>6, <1>7, <1>8, <1>9, <1>10, <1>11 DEF Next
<1> QED
  BY <1>12 DEF VisitCountStaleOnlyInFlight

\* What is about to be written is known in every state, and so is why a count is behind.
LEMMA WritesAndVisits == Spec => [](BookingInv /\ WritesKnown /\ VisitCountStaleOnlyInFlight)
<1>1. Init => WritesKnown /\ VisitCountStaleOnlyInFlight
  <2> SUFFICES ASSUME Init PROVE WritesKnown /\ VisitCountStaleOnlyInFlight
    OBVIOUS
  <2>1. WritesKnown
    BY DEF Init, WritesKnown, IdleRequest
  <2>2. \A c : Completed(c) = {}
    BY DEF Init, Completed, NoBooking
  <2> QED BY <2>1, <2>2, FS_EmptySet DEF Init, VisitCountStaleOnlyInFlight
<1>2. BookingInv /\ [Next]_vars => BookingInv'
  BY TypesKept, LockHeldKept, StoreLayersKept, StaffLayersKept, PendingFitsKept,
     CopiesCurrentKept, RecordedFrozenKept DEF BookingInv
<1>3. BookingInv /\ WritesKnown /\ VisitCountStaleOnlyInFlight /\ [Next]_vars
        => WritesKnown' /\ VisitCountStaleOnlyInFlight'
  BY WritesKnownKept, VisitCountsKept
<1> QED
  BY <1>1, <1>2, <1>3, InitInv, PTL DEF Spec

\* recalculateCustomerStats runs after the commit, for the customer before and after the
\* change: a visit count is wrong only until then, or after a creation as COMPLETED or a crash.
THEOREM VisitCountsBehindOnlyInFlight == Spec => []VisitCountStaleOnlyInFlight
BY WritesAndVisits, PTL

-----------------------------------------------------------------------------
(* The desk keeps the book of settlements                                   *)

\* A step of the desk is a step of the abstract book, or none of it.
LEMMA StepsKeepBook ==
    ASSUME BookingInv, [Next]_vars
    PROVE  [Book!Next]_(Book!bookVars)
<1> DEFINE context == [r \in Reservations |-> ContextOf(booking[r])]
<1>1. TypeOK
  BY DEF BookingInv
<1>2. ASSUME UNCHANGED <<booking, payment, settled>> PROVE UNCHANGED Book!bookVars
  BY <1>2 DEF Book!bookVars
<1>3. ASSUME NEW w \in Workers, Commit(w) PROVE Book!Next \/ UNCHANGED Book!bookVars
  <2>1. PICK r \in Reservations : r = request[w].id
    BY <1>3, CommitFacts
  <2>2. /\ booking' = [booking EXCEPT ![r] = request[w].want] /\ request[w].want \in Placements
        /\ UNCHANGED <<payment, settled>> /\ request[w].step = "writing"
    BY <1>3, <2>1, CommitFacts DEF Commit
  <2>3. booking'[r] = request[w].want /\ \A q \in Reservations \ {r} : booking'[q] = booking[q]
    BY <1>1, <2>2 DEF TypeOK
  <2>4. CASE r \in settled
    <3>1. SameContext(booking'[r], booking[r])
      BY <2>1, <2>2, <2>3, <2>4 DEF BookingInv, RecordedFrozen
    <3>2. ContextOf(booking'[r]) = ContextOf(booking[r])
      BY <3>1 DEF SameContext, SameTime, ContextOf
    <3>3. \A q \in Reservations : ContextOf(booking'[q]) = ContextOf(booking[q])
      BY <2>3, <3>2
    <3>4. context' = context
      BY <3>3
    <3> QED BY <2>2, <3>4 DEF Book!bookVars
  <2>5. CASE r \notin settled
    <3>1. \A q \in Reservations : booking'[q] \in BookingRows
      BY <1>1, <2>2, <2>3 DEF TypeOK, BookingRows
    <3>2. \A q \in Reservations : ContextOf(booking'[q]) \in Contexts
      BY <3>1 DEF ContextOf, Contexts, BookingRows, Placements, NoBooking
    <3>3. context' \in [Reservations -> Contexts]
      BY <3>2
    <3>4. \A other \in Reservations \ {r} : context'[other] = context[other]
      BY <2>3
    <3>5. Book!Rebook(r)
      BY <2>2, <2>5, <3>3, <3>4 DEF Book!Rebook
    <3> QED BY <3>5 DEF Book!Next
  <2> QED BY <2>4, <2>5
<1>4. ASSUME NEW r \in Recordable, Settle(r) PROVE Book!Next
  <2>1. r \in Reservations /\ context' = context
    BY <1>4, BookingAssumption DEF Settle
  <2>2. Book!Collect(r)
    BY <1>4, <2>1 DEF Book!Collect, Settle
  <2> QED BY <2>1, <2>2 DEF Book!Next
<1>5. ASSUME NEW r \in Recordable, Refund(r) PROVE Book!Next
  <2>1. r \in Reservations /\ context' = context
    BY <1>5, BookingAssumption DEF Refund
  <2>2. Book!GiveBack(r)
    BY <1>5, <2>1 DEF Book!GiveBack, Refund
  <2> QED BY <2>1, <2>2 DEF Book!Next
<1>6. ASSUME NEW w \in Workers, NEW r \in Reservations,
             ReadForEdit(w, r) \/ ReadForStatus(w, r) \/ EnterCreate(w, r)
             \/ EnterMemberCreate(w, r) \/ EnterMemberCancel(w, r)
      PROVE  UNCHANGED <<booking, payment, settled>>
  <2>1. UNCHANGED rows
    BY <1>6 DEF ReadForEdit, ReadForStatus, EnterCreate, EnterMemberCreate, EnterMemberCancel,
                Begin
  <2> QED BY <2>1 DEF rows
<1>7. ASSUME NEW w \in Workers, EnterChange(w) \/ RefuseChange(w) \/ Recount(w) \/ Crash(w)
      PROVE  UNCHANGED <<booking, payment, settled>>
  <2>1. UNCHANGED rows
    BY <1>7 DEF EnterChange, RefuseChange, Recount, Crash
  <2> QED BY <2>1 DEF rows
<1>8. ASSUME \/ \E r \in Recordable : Chart(r)
             \/ \E s \in Staff : ChangeStaff(s)
             \/ ChangeSettings \/ ChangeShifts \/ Tick \/ UNCHANGED vars
      PROVE  UNCHANGED <<booking, payment, settled>>
  BY <1>8 DEF Chart, ChangeStaff, ChangeSettings, ChangeShifts, Tick, vars, rows
<1> HIDE DEF context
<1> QED
  BY <1>2, <1>3, <1>4, <1>5, <1>6, <1>7, <1>8 DEF Next

\* The desk keeps its part of the book: while money is held for a reservation no request
\* changes what it sells, and no member cancels what is paid, settled or charted.
THEOREM DeskKeepsBook == Spec => KeepsBook
<1>1. ASSUME Init PROVE Book!Init
  <2>1. \A r \in Reservations : ContextOf(booking[r]) \in Contexts
    BY <1>1 DEF Init, ContextOf, Contexts, NoBooking
  <2>2. [r \in Reservations |-> ContextOf(booking[r])] \in [Reservations -> Contexts]
    BY <2>1
  <2> QED BY <1>1, <2>2 DEF Init, Book!Init
<1>2. BookingInv /\ [Next]_vars => [Book!Next]_(Book!bookVars)
  BY StepsKeepBook
<1> DEFINE Cancels(w) == LET r == request[w].id IN
               r \notin settled \cup charted /\ payment[r] = "UNPAID"
               /\ booking[r].status \in {"PENDING", "CONFIRMED", "WAITLIST"}
<1>3. ASSUME BookingInv, WritesKnown, NEW w \in Workers,
             request[w].kind = "memberCancel", lock = w
      PROVE  Cancels(w)
  <2>1. request[w].step = "writing"
    BY <1>3 DEF BookingInv, LockHeld
  <2> QED BY <1>3, <2>1 DEF WritesKnown
<1>4. BookingInv /\ WritesKnown /\ [Next]_vars =>
        [\A w \in Workers : request[w].kind = "memberCancel" /\ booking' # booking /\ lock = w =>
          LET r == request[w].id IN
          r \notin settled \cup charted /\ payment[r] = "UNPAID"
          /\ booking[r].status \in {"PENDING", "CONFIRMED", "WAITLIST"}]_vars
  BY <1>3
<1> HIDE DEF Cancels
<1> QED
  BY <1>1, <1>2, <1>4, WritesAndVisits, InvariantHolds, PTL
     DEF Spec, KeepsBook, MembersCancelOnlyOpenOnes, Book!Spec
=============================================================================
