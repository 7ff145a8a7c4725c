---------------------------- MODULE SettlementBook ----------------------------
(***************************************************************************)
(* What accounting promises about the reservations of a salon, without any *)
(* checkout, register or lock: money is collected for a reservation at     *)
(* most once at a time, it is given back only when it was collected, and   *)
(* what was sold (the interval, the staff, the customer and the service)   *)
(* does not change between the two.  Modules Booking and Cash implement it.*)
(***************************************************************************)
CONSTANTS Reservations, Contexts

VARIABLES context,    \* what is sold: interval, staff, customer, service
          payment,    \* Reservation.paymentStatus
          settled     \* reservations whose money is held

bookVars == <<context, payment, settled>>

Init == /\ context \in [Reservations -> Contexts]
        /\ payment \in [Reservations -> {"UNPAID", "PAID"}]
        /\ settled = {}

Rebook(r) ==
    /\ r \notin settled
    /\ context' \in [Reservations -> Contexts]
    /\ \A other \in Reservations \ {r} : context'[other] = context[other]
    /\ UNCHANGED <<payment, settled>>

Collect(r) ==
    /\ r \notin settled
    /\ settled' = settled \cup {r}
    /\ payment' = [payment EXCEPT ![r] = "PAID"]
    /\ UNCHANGED context

GiveBack(r) ==
    /\ r \in settled
    /\ settled' = settled \ {r}
    /\ payment' = [payment EXCEPT ![r] = "REFUNDED"]
    /\ UNCHANGED context

Next == \E r \in Reservations : Rebook(r) \/ Collect(r) \/ GiveBack(r)

Spec == Init /\ [][Next]_bookVars
=============================================================================
