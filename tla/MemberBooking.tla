---------------------------- MODULE MemberBooking ----------------------------
(***************************************************************************)
(* One member books over the salons of several tenants                     *)
(* (member-booking-routes.ts).  A creation carries a key: repeated, it     *)
(* must find the reservation it made.  Requests of one member take turns   *)
(* by an advisory lock, but the snapshot of a serializable transaction is  *)
(* taken by the very statement that waits for the lock, so a request that  *)
(* had to wait may work on a past state until PostgreSQL notices.          *)
(*                                                                         *)
(* Each call is one request of the app.  What the salon itself checks      *)
(* (hours, staff, capacity) is in module Booking and here any refusal.     *)
(***************************************************************************)
EXTENDS Integers, FiniteSets

CONSTANTS
    Calls, Keys,
    Asks, Salons, SalonOf,  \* what is asked for, and where
    NoCall,
    MaxFuture,      \* MAX_FUTURE_MEMBER_RESERVATIONS
    MaxAttempts,    \* MEMBER_BOOKING_ATTEMPTS_PER_TEN_MINUTES
    MaxRepeats,     \* how often serializable starts a transaction again
    MaxDesk,        \* bound on the bookings the salon makes for the member
    MaxFaults       \* bound on lost answers

ASSUME MemberBookingAssumption ==
    /\ SalonOf \in [Asks -> Salons] /\ NoCall \notin Calls
    /\ {MaxFuture, MaxAttempts, MaxRepeats, MaxDesk, MaxFaults} \subseteq Nat

VARIABLES
    reservation,    \* of each call: "none", "open", "over", or what the salon made of it
    request,        \* MemberReservationRequest: the call that used a key
    links,          \* MemberCustomerLink: the salons that know the member
    desk,           \* open reservations the salon booked for the member's customer
    attempts,       \* MemberBookingRateLimit of the present ten minutes
    holder,         \* who holds the advisory lock of the member
    call, faults

vars == <<reservation, request, links, desk, attempts, holder, call, faults>>
stored == <<reservation, request, links, desk>>

Snapshot == [reservation |-> reservation, request |-> request, desk |-> desk]
NotCalled == [stage |-> "free", key |-> NoCall, ask |-> NoCall,
              known |-> FALSE, seen |-> {}, repeats |-> 0, answer |-> "none", made |-> NoCall]

Init ==
    /\ reservation = [c \in Calls |-> "none"]
    /\ request = [k \in Keys |-> NoCall]
    /\ links = {} /\ desk = 0 /\ attempts = 0
    /\ holder = NoCall
    /\ call = [c \in Calls |-> NotCalled]
    /\ faults = 0

-----------------------------------------------------------------------------
Call(c, key, ask) ==
    /\ call[c].stage = "free"
    /\ call' = [call EXCEPT ![c] = [@ EXCEPT !.stage = "sent", !.key = key, !.ask = ask,
                                             !.known = request[key] # NoCall]]
    /\ UNCHANGED <<stored, attempts, holder, faults>>

Answer(c, answer, made) ==
    call' = [call EXCEPT ![c] = [@ EXCEPT !.stage = "done", !.answer = answer,
                                          !.made = made, !.seen = {}]]

\* the customer the reservation belongs to is still the member's
Owned(s, d) == s.reservation[d] # "away"

\* variant: the payload is not compared
ReplyWhatever(c, s) ==
    LET d == s.request[call[c].key] IN
    IF ~Owned(s, d) THEN Answer(c, "gone", NoCall) ELSE Answer(c, "reservation", d)

\* the answer to a key that has been used, as the state s tells
Reply(c, s) ==
    LET d == s.request[call[c].key] IN
    IF call[d].ask # call[c].ask THEN Answer(c, "conflict", NoCall)
    ELSE IF ~Owned(s, d) THEN Answer(c, "gone", NoCall)
    ELSE Answer(c, "reservation", d)

\* consumeBookingAttempt: counted by itself, whatever becomes of the rest
ConsumeAttempt(c) ==
    /\ attempts' = attempts + 1
    /\ IF attempts' > MaxAttempts THEN Answer(c, "rate", NoCall)
       ELSE call' = [call EXCEPT ![c].stage = "begin"]

\* a key that has been used is answered at once and costs no attempt
Precheck(c) ==
    /\ call[c].stage = "sent"
    /\ IF request[call[c].key] # NoCall THEN Reply(c, Snapshot) /\ UNCHANGED attempts
       ELSE ConsumeAttempt(c)
    /\ UNCHANGED <<stored, holder, faults>>

\* the transaction starts: its snapshot is taken here, before the lock is had
Begin(c) ==
    /\ call[c].stage = "begin"
    /\ call' = [call EXCEPT ![c].stage = "waiting", ![c].seen = Snapshot]
    /\ UNCHANGED <<stored, attempts, holder, faults>>

\* pg_advisory_xact_lock, then lockMemberSalon
Lock(c) ==
    /\ call[c].stage = "waiting" /\ holder = NoCall
    /\ holder' = c
    /\ call' = [call EXCEPT ![c].stage = "holding"]
    /\ UNCHANGED <<stored, attempts, faults>>

\* variant: only the reservations of the salon at hand are counted
FutureCountHere(c, s) ==
    Cardinality({d \in Calls : /\ s.reservation[d] \in {"open", "raised"}
                               /\ SalonOf[call[d].ask] = SalonOf[call[c].ask]}) + s.desk

\* the open future reservations of the member's customers, over all salons
FutureCount(c, s) ==
    Cardinality({d \in Calls : s.reservation[d] \in {"open", "raised"}}) + s.desk

\* another creation of the member that the snapshot does not show: reading the
\* keys and the count past it and writing both is what PostgreSQL refuses
Stale(c) == call[c].seen.request # request

\* 40001, 40P01 or a unique key: start again, a few times
Restart(c) ==
    IF call[c].repeats < MaxRepeats
    THEN call' = [call EXCEPT ![c].stage = "begin", ![c].repeats = @ + 1, ![c].seen = {}]
    ELSE Answer(c, "failed", NoCall)

\* reservation, request row and, the first time in a salon, customer and link
Write(c) ==
    /\ reservation' = [reservation EXCEPT ![c] = "open"]
    /\ request' = [request EXCEPT ![call[c].key] = c]
    /\ links' = links \cup {SalonOf[call[c].ask]}
    /\ UNCHANGED desk

\* the transaction under the lock, up to its end
Create(c) ==
    LET s == call[c].seen
        unused == s.request[call[c].key] = NoCall
        allowed == unused /\ FutureCount(c, s) < MaxFuture
    IN
    /\ call[c].stage = "holding"
    /\ holder' = NoCall
    /\ \/ ~unused /\ Reply(c, s) /\ UNCHANGED <<stored, faults>>
       \/ unused /\ Answer(c, "refused", NoCall) /\ UNCHANGED <<stored, faults>>
       \/ allowed /\ ~Stale(c) /\ Write(c) /\ Answer(c, "reservation", c) /\ UNCHANGED faults
       \/ Restart(c) /\ UNCHANGED <<stored, faults>>
       \/ /\ faults < MaxFaults /\ faults' = faults + 1
          /\ Answer(c, "unsure", NoCall)
          /\ UNCHANGED stored \/ (allowed /\ ~Stale(c) /\ Write(c))
    /\ UNCHANGED attempts

-----------------------------------------------------------------------------
\* POST cancel, which takes the locks of the salon only
Cancel(c) ==
    /\ reservation[c] \in {"open", "raised"}
    /\ reservation' = [reservation EXCEPT ![c] = "over"]
    /\ UNCHANGED <<request, links, desk, attempts, holder, call, faults>>

\* the salon ends, reopens or gives away the reservation, without any limit
DeskChanges(c, to) ==
    /\ reservation[c] # "none" /\ to \in {"over", "raised", "away"}
    /\ reservation' = [reservation EXCEPT ![c] = to]
    /\ UNCHANGED <<request, links, desk, attempts, holder, call, faults>>

\* the salon books for the customer, or such a booking is over
DeskBooks ==
    /\ links # {} /\ desk' \in {desk - 1, desk + 1} \cap (0 .. MaxDesk)
    /\ UNCHANGED <<reservation, request, links, attempts, holder, call, faults>>

NewWindow ==
    /\ attempts > 0 /\ attempts' = 0
    /\ UNCHANGED <<stored, holder, call, faults>>

Next ==
    \/ \E c \in Calls :
          \/ \E key \in Keys, ask \in Asks : Call(c, key, ask)
          \/ Precheck(c) \/ Begin(c) \/ Lock(c) \/ Create(c) \/ Cancel(c)
          \/ \E to \in {"over", "raised", "away"} : DeskChanges(c, to)
    \/ DeskBooks \/ NewWindow

Spec == Init /\ [][Next]_vars

-----------------------------------------------------------------------------
Created == {c \in Calls : reservation[c] # "none"}

\* A key makes one reservation, and whoever repeats it gets that very one if
\* the same was asked for and a conflict if not, even if the first call is
\* still under way, ended unsure, or the reservation was cancelled since.  A
\* repeat after the commit is never refused, counted as an attempt or failed.
RepeatsGetTheReservation ==
    /\ \A c, d \in Created : call[c].key = call[d].key => c = d
    /\ \A c \in Calls : LET user == request[call[c].key] IN
          call[c].stage = "done" =>
             /\ call[c].answer = "reservation" =>
                   call[c].made = user /\ call[user].ask = call[c].ask
             /\ call[c].answer = "conflict" => call[user].ask # call[c].ask
             /\ call[c].known => call[c].answer \in {"reservation", "conflict", "gone"}

\* The member never holds more open reservations of the app's making than the
\* limit, over all salons and however requests to different salons overlap;
\* what the salon booked, reopened or moved for the customer may come on top.
LimitHolds == Cardinality({c \in Calls : reservation[c] = "open"}) <= MaxFuture
=============================================================================
