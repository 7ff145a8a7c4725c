------------------------------- MODULE Counter -------------------------------
(***************************************************************************)
(* What a salon's counter does for one customer, side by side: bookings of *)
(* members (MemberBooking), their cards and programs (Membership), the     *)
(* card reader (CardReader), the buttons of checkout and register (Till)   *)
(* and receipts by mail (Receipts).  They share no state.                  *)
(***************************************************************************)
EXTENDS MemberBooking

CONSTANTS
    Tenants, Programs, Members, Customers, Enrolments, None, MaxStamp,  \* Membership
    Cards, NoCard, MaxPoints, MaxVersion, MaxLookups, MaxChanges,       \* CardReader
    Lines, Fresh, Entries, MaxPresses, MaxElsewhere,                    \* Till
    Fields, Issuers, Unset, MaxTries, MaxSettings                       \* Receipts

VARIABLES
    tenant, program, account, cardLinks, actor, role, enrolment, shown, reviewed,
    saved, link, points, draft, form, sent, reader, lookups, found, asked, changes,
    kind, row, log, screen, pressed, told, presses, elsewhere,
    checkout, issuer, settings, outbox, panel, mails, reply, tries, agreed

Reception == INSTANCE Membership WITH links <- cardLinks
Reader == INSTANCE CardReader WITH shown <- draft
Desk == INSTANCE Till WITH calls <- pressed, answer <- told
Mail == INSTANCE Receipts WITH calls <- mails, answer <- reply

\* None is what a column without a value holds; points are counted.
ASSUME CounterAssumption ==
    /\ None \notin Tenants \cup Programs \cup Customers \cup (Programs \X Members)
    /\ NoCard \notin Cards /\ MaxPoints \in Nat

\* An enrolled program keeps its one tenant, and links agree with it: see Membership.
EnrolledProgramsStay == Reception!EnrolledProgramsStay
\* A provisioning acts on the very rows the operator reviewed: see Membership.
AppliesWhatWasReviewed == Reception!AppliesWhatWasReviewed
\* A member comes onto a checkout as the holder of the card that was read: see CardReader.
MemberIsTheCardRead == Reader!MemberIsTheCardRead
\* No press of a button takes effect twice, or over what it did not show: see Till.
PressesAreExact == Desk!PressesAreExact
\* A receipt is queued once, and as the clerk confirmed it: see Receipts.
SentAsConfirmed == Mail!SentAsConfirmed
=============================================================================
