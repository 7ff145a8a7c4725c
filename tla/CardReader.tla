------------------------------ MODULE CardReader ------------------------------
(***************************************************************************)
(* The card reader on the screen of a draft checkout                       *)
(* (membership-confirmation.tsx, membership-checkout.ts): a clerk reads a  *)
(* membership card, its holder is looked up, linked with the customer if   *)
(* need be, and attached to the checkout with the points to be used.       *)
(* Cards may be read faster than the lookups are answered, and the         *)
(* checkout may be reloaded or saved meanwhile.                            *)
(***************************************************************************)
EXTENDS Integers, FiniteSets

CONSTANTS
    Cards, NoCard,  \* membership cards, and their holders
    MaxPoints,      \* points are counted in redemption units
    MaxVersion,     \* bound on the changes of the checkout
    MaxLookups,     \* bound on the requests of the reader
    MaxChanges      \* bound on what others change meanwhile

VARIABLES
    saved,      \* the CashCheckout row: version and membership
    link,       \* whom a card is linked with: no customer, ours or another
    points,     \* availablePoints of its holder
    shown,      \* the row the screen shows
    form,       \* the membership edited on it
    sent,       \* whether the screen waits for a save
    reader,     \* the card reader
    lookups,    \* requests of the reader under way
    found,      \* answers on their way back
    asked,      \* requests of the reader so far
    changes     \* changes by others so far

vars == <<saved, link, points, shown, form, sent, reader, lookups, found, asked, changes>>

NoMember == [card |-> NoCard, used |-> 0]
Nobody == [card |-> NoCard, link |-> "none", points |-> 0]
Shut == [open |-> FALSE, card |-> NoCard, holder |-> Nobody, ticket |-> 0, pending |-> FALSE]

Init ==
    /\ saved = [version |-> 1, member |-> NoMember]
    /\ link \in [Cards -> {"none", "ours", "other"}]
    /\ \A c, d \in Cards : link[c] = "ours" /\ link[d] = "ours" => c = d
    /\ points \in [Cards -> 0 .. MaxPoints]
    /\ shown = saved /\ form = NoMember /\ sent = Nobody
    /\ reader = Shut /\ lookups = {} /\ found = {} /\ asked = 0 /\ changes = 0

-----------------------------------------------------------------------------
(* The reader.                                                             *)

Busy == sent # Nobody
Usable == reader.open /\ ~Busy

OpenReader ==
    /\ ~reader.open /\ ~Busy
    /\ reader' = [Shut EXCEPT !.open = TRUE, !.card = form.card, !.pending = TRUE]
    /\ UNCHANGED <<saved, link, points, shown, form, sent, lookups, found, asked, changes>>

\* changeBarcode, the camera: the lookup under way is invalidated
EnterCard(card) ==
    /\ Usable /\ card # reader.card
    /\ reader' = [Shut EXCEPT !.open = TRUE, !.card = card, !.pending = TRUE]
    /\ UNCHANGED <<saved, link, points, shown, form, sent, lookups, found, asked, changes>>

CloseReader ==
    /\ Usable /\ reader.ticket = 0
    /\ reader' = Shut
    /\ UNCHANGED <<saved, link, points, shown, form, sent, lookups, found, asked, changes>>

\* runLookup: for the card, or to link it once its holder is shown and confirmed
Ask(toLink) ==
    /\ Usable /\ reader.ticket = 0 /\ reader.card # NoCard
    /\ toLink => reader.holder.card # NoCard /\ reader.holder.link = "none"
    /\ asked < MaxLookups /\ asked' = asked + 1
    /\ lookups' = lookups \cup {[ticket |-> asked + 1, card |-> reader.card, toLink |-> toLink,
                                   before |-> form]}
    /\ reader' = [reader EXCEPT !.ticket = asked + 1, !.pending = TRUE,
                                !.holder = IF toLink THEN @ ELSE Nobody]
    /\ UNCHANGED <<saved, link, points, shown, form, sent, found, changes>>

\* variant: whatever is answered is shown
CurrentAny(a) == TRUE

\* current(): the ticket is still the last one, and the reader the same
Current(a) == a.ticket = reader.ticket

\* membershipRedemptionLimit
Limit(holder) == holder.points

\* membershipSelectionForLookup: points chosen before the lookup are kept while they
\* may be used
Restored(holder, before) ==
    [card |-> holder.card,
     used |-> IF before.card = holder.card /\ before.used <= Limit(holder) THEN before.used ELSE 0]

\* an answer for a ticket that is no longer current is dropped
Receive(a) ==
    /\ found' = found \ {a}
    /\ IF ~Current(a) THEN UNCHANGED <<reader, form>>
       ELSE IF a.refused THEN reader' = [reader EXCEPT !.ticket = 0] /\ UNCHANGED form
       ELSE /\ reader' = [reader EXCEPT !.ticket = 0, !.card = a.holder.card,
                             !.holder = a.holder, !.pending = a.holder.link # "ours"]
            /\ form' = IF a.holder.link = "ours" THEN Restored(a.holder, a.before) ELSE form
    /\ UNCHANGED <<saved, link, points, shown, sent, lookups, asked, changes>>

\* no answer within the time limit: the request may be answered yet
TimeOut ==
    /\ reader.ticket # 0
    /\ reader' = [reader EXCEPT !.ticket = 0]
    /\ UNCHANGED <<saved, link, points, shown, form, sent, lookups, found, asked, changes>>

\* changePoints: too many are not taken over, and nothing can be saved until corrected
EnterPoints(n) ==
    /\ Usable /\ reader.ticket = 0 /\ reader.holder.link = "ours"
    /\ LET valid == n <= Limit(reader.holder)
       IN /\ form' = IF valid THEN [card |-> reader.holder.card, used |-> n] ELSE form
          /\ reader' = [reader EXCEPT !.pending = ~valid]
    /\ UNCHANGED <<saved, link, points, shown, sent, lookups, found, asked, changes>>

-----------------------------------------------------------------------------
(* The checkout around it.                                                 *)

\* replace: the reader starts anew with the next version, and stays as it is otherwise
Replace(row) ==
    /\ shown' = row /\ form' = row.member
    /\ reader' = IF row.version = shown.version THEN [reader EXCEPT !.pending = FALSE] ELSE Shut

Reload ==
    /\ ~Busy /\ Replace(saved)
    /\ UNCHANGED <<saved, link, points, sent, lookups, found, asked, changes>>

\* save, up to the request; nothing is saved while the reader has an open question
Save ==
    /\ ~Busy /\ ~reader.pending /\ saved.version < MaxVersion
    /\ sent' = form
    /\ UNCHANGED <<saved, link, points, shown, form, reader, lookups, found, asked, changes>>

\* resolveCashMembershipSelection and prepareMembership: the holder is linked with the
\* customer of the reservation and has the points
Accepted(member) == member.card # NoCard =>
    link[member.card] = "ours" /\ member.used <= points[member.card]

\* PUT /api/cash/checkouts/:id and its answer, which may be lost
Saved ==
    /\ Busy /\ sent' = Nobody
    /\ IF saved.version = shown.version /\ Accepted(sent)
       THEN LET row == [version |-> saved.version + 1, member |-> sent]
            IN saved' = row /\ (Replace(row) \/ UNCHANGED <<shown, form, reader>>)
       ELSE UNCHANGED <<saved, shown, form, reader>>
    /\ UNCHANGED <<link, points, lookups, found, asked, changes>>

-----------------------------------------------------------------------------
(* The handlers.                                                           *)

\* POST /api/membership/lookup, or /api/admin/customers/:id/membership-link, which
\* never moves a link; both tell who the holder is then
Lookup(k) ==
    LET free == link[k.card] = "none" /\ \A c \in Cards : link[c] # "ours"
        linked == IF k.toLink /\ free THEN "ours" ELSE link[k.card]
        answer == [ticket |-> k.ticket, before |-> k.before,
                   refused |-> k.toLink /\ linked # "ours",
                   holder |-> [card |-> k.card, link |-> linked, points |-> points[k.card]]]
    IN /\ lookups' = lookups \ {k} /\ found' = found \cup {answer}
       /\ link' = [link EXCEPT ![k.card] = linked]
       /\ UNCHANGED <<saved, points, shown, form, sent, reader, asked, changes>>

\* the lookup is refused: the right, the number of lookups, the membership program
RefuseLookup(k) ==
    /\ lookups' = lookups \ {k}
    /\ found' = found \cup {[ticket |-> k.ticket, before |-> k.before,
                                   refused |-> TRUE, holder |-> Nobody]}
    /\ UNCHANGED <<saved, link, points, shown, form, sent, reader, asked, changes>>

\* another clerk saves the checkout, or a sale elsewhere takes the points
Elsewhere ==
    /\ changes < MaxChanges /\ changes' = changes + 1
    /\ \/ saved.version < MaxVersion /\ saved' = [saved EXCEPT !.version = @ + 1] /\ UNCHANGED points
       \/ \E c \in Cards : /\ points[c] > 0 /\ points' = [points EXCEPT ![c] = 0]
                           /\ UNCHANGED saved
    /\ UNCHANGED <<link, shown, form, sent, reader, lookups, found, asked>>

Next ==
    \/ OpenReader \/ CloseReader \/ TimeOut \/ Reload \/ Save \/ Elsewhere
    \/ \E card \in Cards : EnterCard(card)
    \/ \E toLink \in BOOLEAN : Ask(toLink)
    \/ \E a \in found : Receive(a)
    \/ \E n \in 0 .. MaxPoints : EnterPoints(n)
    \/ Saved
    \/ \E k \in lookups : Lookup(k) \/ RefuseLookup(k)

Spec == Init /\ [][Next]_vars

-----------------------------------------------------------------------------
\* A member comes onto the checkout only as the holder of the card that is in the reader
\* at that moment, found linked with the customer and with the points, or from the
\* checkout as stored: an answer about a card read before never gets there.
MemberIsTheCardRead ==
    [][\A m \in {form'} : m # form /\ m # shown'.member =>
          /\ m.card = reader.card /\ reader'.holder.card = m.card
          /\ reader'.holder.link = "ours" /\ m.used <= Limit(reader'.holder)]_vars
=============================================================================
