------------------------------ MODULE CashProofs ------------------------------
(***************************************************************************)
(* Proofs about module Cash: CashInv is inductive, and from it the promises *)
(* of accounting, for any salon, clerks, checkouts, drafts and registers.   *)
(***************************************************************************)
EXTENDS Cash, Sums

-----------------------------------------------------------------------------
(* What a step does to the checkouts: one row is made, changed as a draft,  *)
(* finalized or reversed, and the others stay.                              *)

OnlyRow(c) == \A d \in Checkouts \ {c} : checkout'[d] = checkout[d]

Typed(c) == checkout' \in [Checkouts -> Rows] /\ checkout'[c].draft.points <= checkout'[c].draft.price

\* c is a new draft of reservation r that supersedes its latest reversed checkout
MakesDraft(r, c) ==
    /\ OnlyRow(c) /\ Typed(c)
    /\ checkout[c].status = "NONE" /\ NoLiveCheckout(r)
    /\ checkout'[c].status = "DRAFT" /\ checkout'[c].of = r
    /\ checkout'[c].context = reservation[r].context
    /\ checkout'[c].finalizedIn = NoSession /\ checkout'[c].reversedIn = NoSession
    /\ checkout'[c].age = Cardinality(Existing)
    /\ checkout'[c].createdBy \in CreateRequests /\ UnseenRequest(checkout'[c].createdBy)
    /\ LET p == checkout'[c].previous IN
       /\ p \in ReversedOf(r) \cup {NoCheckout}
       /\ \A d \in ReversedOf(r) : checkout[d].age <= checkout[p].age

SameOrigin(c) ==
    /\ checkout'[c].of = checkout[c].of /\ checkout'[c].previous = checkout[c].previous
    /\ checkout'[c].age = checkout[c].age /\ checkout'[c].createdBy = checkout[c].createdBy
    /\ checkout'[c].version = checkout[c].version + 1

ChangesDraft(c) ==
    /\ c \in Checkouts /\ OnlyRow(c) /\ Typed(c) /\ SameOrigin(c)
    /\ checkout[c].status = "DRAFT" /\ checkout'[c].status = "DRAFT"
    /\ checkout'[c].context \in Contexts
    /\ checkout'[c].finalizedIn = checkout[c].finalizedIn
    /\ checkout'[c].reversedIn = checkout[c].reversedIn

SameSale(c) ==
    checkout'[c].draft = checkout[c].draft /\ checkout'[c].context = checkout[c].context

Finalizes(c, s) ==
    /\ c \in Checkouts /\ OnlyRow(c) /\ Typed(c) /\ SameOrigin(c) /\ SameSale(c)
    /\ checkout[c].status = "DRAFT" /\ checkout'[c].status = "FINALIZED"
    /\ checkout'[c].finalizedIn = s /\ checkout'[c].reversedIn = checkout[c].reversedIn

Reverses(c, s) ==
    /\ c \in Checkouts /\ OnlyRow(c) /\ Typed(c) /\ SameOrigin(c) /\ SameSale(c)
    /\ checkout[c].status = "FINALIZED" /\ checkout'[c].status = "REVERSED"
    /\ checkout'[c].reversedIn = s /\ checkout'[c].finalizedIn = checkout[c].finalizedIn

-----------------------------------------------------------------------------
(* Types                                                                    *)

\* A checkout that exists is a row.
LEMMA ExistingTyped ==
    ASSUME TypeOK, NEW c \in Existing
    PROVE  /\ c \in Checkouts /\ checkout[c] \in Rows
           /\ checkout[c].of \in Reservations /\ checkout[c].context \in Contexts
           /\ checkout[c].draft \in DraftRows /\ checkout[c].version \in Nat
           /\ checkout[c].draft.points <= checkout[c].draft.price
           /\ Total(checkout[c].draft) \in Nat
           /\ reservation[checkout[c].of].context \in Contexts
  BY DEF TypeOK, Existing, Rows, DraftRows, Total

\* The next age.
LEMMA AgeTyped == Cardinality(Existing) \in Nat /\ IsFiniteSet(Existing)
<1>1. Existing \in SUBSET Checkouts
  BY DEF Existing
<1> QED
  BY <1>1, CashAssumption, FS_Subset, FS_CardinalityType

\* An empty draft and a checkout that is not made are rows.
LEMMA BlankTyped ==
    /\ EmptyDraft \in DraftRows /\ NoRow \in Rows /\ NoRow.status = "NONE"
    /\ NoRow.finalizedIn = NoSession /\ NoRow.reversedIn = NoSession
  BY DEF EmptyDraft, DraftRows, NoRow, Rows

\* A new draft, priced, is a draft.
LEMMA NewDraft ==
    ASSUME NEW n \in Nat
    PROVE  /\ [EmptyDraft EXCEPT !.price = n] \in DraftRows
           /\ [EmptyDraft EXCEPT !.price = n].points <= [EmptyDraft EXCEPT !.price = n].price
<1>1. [EmptyDraft EXCEPT !.price = n] \in DraftRows
  BY DEF EmptyDraft, DraftRows
<1>2. [EmptyDraft EXCEPT !.price = n].points = 0 /\ [EmptyDraft EXCEPT !.price = n].price = n
  BY DEF EmptyDraft
<1> QED
  BY <1>1, <1>2

\* A reservation has a price and a customer.
LEMMA PriceTyped ==
    ASSUME NEW x \in Contexts
    PROVE  PriceOf[x] \in Nat /\ CustomerOf[x] \in Customers
  BY CashAssumption

\* A clerk with a current draft has a draft on the screen.
LEMMA CurrentTyped ==
    ASSUME CashInv, NEW k \in Clerks, CurrentDraft(k)
    PROVE  view[k].id \in Existing /\ checkout[view[k].id].status = "DRAFT"
  BY DEF CashInv, ViewsCurrent, CurrentDraft

-----------------------------------------------------------------------------
(* The handlers have these shapes                                           *)

\* POST checkouts makes a draft.
LEMMA CreateMakes ==
    ASSUME CashInv, NEW r \in Reservations, NEW c \in Checkouts, CreateCheckout(r, c)
    PROVE  MakesDraft(r, c)
<1>1. TypeOK
  BY DEF CashInv
<1>2. PICK q \in CreateRequests, points \in PointChoices, a \in Accounts \cup {NoAccount},
           previous \in ReversedOf(r) \cup {NoCheckout} :
      LET draft == [EmptyDraft EXCEPT !.price = PriceOf[reservation[r].context],
                                      !.points = points, !.account = a]
      IN /\ UnseenRequest(q)
         /\ points <= draft.price
         /\ \A other \in ReversedOf(r) : checkout[other].age <= checkout[previous].age
         /\ checkout' = [checkout EXCEPT ![c] =
               [NoRow EXCEPT !.status = "DRAFT", !.version = 1, !.of = r, !.draft = draft,
                  !.context = reservation[r].context, !.previous = previous,
                  !.age = Cardinality(Existing), !.createdBy = q]]
  BY DEF CreateCheckout
<1> DEFINE draft == [EmptyDraft EXCEPT !.price = PriceOf[reservation[r].context],
                                       !.points = points, !.account = a]
           row == [NoRow EXCEPT !.status = "DRAFT", !.version = 1, !.of = r, !.draft = draft,
                     !.context = reservation[r].context, !.previous = previous,
                     !.age = Cardinality(Existing), !.createdBy = q]
<1>3. reservation[r].context \in Contexts /\ PriceOf[reservation[r].context] \in Nat
  BY <1>1, PriceTyped DEF TypeOK
<1>4. draft \in DraftRows /\ draft.points = points /\ draft.points <= draft.price
  BY <1>2, <1>3, CashAssumption DEF EmptyDraft, DraftRows
<1>5. previous \in Checkouts \cup {NoCheckout}
  BY DEF ReversedOf, CheckoutsOf, Existing
<1> HIDE DEF draft
<1>6. row \in Rows /\ row.draft = draft
  BY <1>3, <1>4, <1>5, AgeTyped, BlankTyped DEF Rows, NoRow
<1>7. /\ row.status = "DRAFT" /\ row.of = r /\ row.context = reservation[r].context
      /\ row.finalizedIn = NoSession /\ row.reversedIn = NoSession
      /\ row.age = Cardinality(Existing) /\ row.createdBy = q /\ row.previous = previous
  BY DEF NoRow
<1>8. checkout' = [checkout EXCEPT ![c] = row]
  BY <1>2 DEF draft
<1> HIDE DEF row
<1>9. checkout' \in [Checkouts -> Rows] /\ checkout'[c] = row /\ OnlyRow(c)
  BY <1>1, <1>6, <1>8 DEF TypeOK, OnlyRow
<1>10. Typed(c)
  BY <1>4, <1>6, <1>9 DEF Typed
<1>11. checkout[c].status = "NONE" /\ NoLiveCheckout(r)
  BY DEF CreateCheckout
<1> QED
  BY <1>2, <1>7, <1>9, <1>10, <1>11 DEF MakesDraft

\* A save changes a draft and nothing else.
LEMMA SaveChanges ==
    ASSUME CashInv, NEW k \in Clerks, SaveDraft(k)
    PROVE  ChangesDraft(view[k].id)
<1> DEFINE c == view[k].id
<1>1. CurrentDraft(k)
  BY DEF SaveDraft
<1>2. c \in Existing /\ checkout[c].status = "DRAFT" /\ TypeOK
  BY <1>1, CurrentTyped DEF CashInv
<1>3. PICK draft \in Drafts :
          checkout' = [checkout EXCEPT ![c].draft = draft, ![c].version = @ + 1]
  BY DEF SaveDraft
<1>4. draft \in DraftRows /\ draft.points <= draft.price
  BY CashAssumption
<1>5. c \in Checkouts /\ checkout[c] \in Rows /\ checkout[c].context \in Contexts
  BY <1>2, ExistingTyped
<1> DEFINE old == checkout[c]
           version == old.version + 1
           row == [old EXCEPT !.draft = draft, !.version = version]
<1>6. checkout' = [checkout EXCEPT ![c] = row]
  BY <1>3, <1>5 DEF TypeOK
<1>7. old \in Rows /\ old.status = "DRAFT" /\ version \in Nat
  BY <1>2, <1>5 DEF Rows
<1> HIDE DEF c, old, version
<1>8. /\ row \in Rows /\ row.draft = draft /\ row.version = version
      /\ row.status = "DRAFT" /\ row.context = old.context
      /\ row.of = old.of /\ row.previous = old.previous
      /\ row.age = old.age /\ row.createdBy = old.createdBy
      /\ row.finalizedIn = old.finalizedIn /\ row.reversedIn = old.reversedIn
  BY <1>4, <1>7 DEF Rows
<1> HIDE DEF row
<1>9. checkout' \in [Checkouts -> Rows] /\ checkout'[c] = row /\ OnlyRow(c)
  BY <1>2, <1>5, <1>6, <1>8 DEF TypeOK, OnlyRow
<1>10. Typed(c) /\ SameOrigin(c)
  BY <1>4, <1>8, <1>9 DEF Typed, SameOrigin, old, version
<1>11. ChangesDraft(c)
  BY <1>2, <1>5, <1>8, <1>9, <1>10 DEF ChangesDraft, old
<1> QED
  BY <1>11 DEF c

\* So does taking over the price of the reservation.
LEMMA RefreshChanges ==
    ASSUME CashInv, NEW k \in Clerks, RefreshDraft(k)
    PROVE  ChangesDraft(view[k].id)
<1> DEFINE c == view[k].id
           context == reservation[checkout[c].of].context
           draft == [EmptyDraft EXCEPT !.price = PriceOf[context]]
<1>1. CurrentDraft(k)
  BY DEF RefreshDraft
<1>2. c \in Existing /\ checkout[c].status = "DRAFT" /\ TypeOK
  BY <1>1, CurrentTyped DEF CashInv
<1>3. checkout' = [checkout EXCEPT ![c].version = @ + 1, ![c].context = context,
                                   ![c].draft = draft]
  BY DEF RefreshDraft
<1>4. c \in Checkouts /\ checkout[c] \in Rows /\ context \in Contexts
  BY <1>2, ExistingTyped
<1>5. draft \in DraftRows /\ draft.points <= draft.price
  <2> DEFINE n == PriceOf[context]
  <2>1. n \in Nat
    BY <1>4, PriceTyped
  <2> HIDE DEF n, c, context
  <2> QED BY <2>1, NewDraft DEF n
<1> DEFINE old == checkout[c]
           version == old.version + 1
           row == [old EXCEPT !.version = version, !.context = context, !.draft = draft]
<1> HIDE DEF draft, context
<1>6. checkout' = [checkout EXCEPT ![c] = row]
  <2>1. checkout \in [Checkouts -> Rows] /\ c \in Checkouts
    BY <1>2, <1>4 DEF TypeOK
  <2>2. row = [checkout[c] EXCEPT !.version = checkout[c].version + 1,
                                  !.context = context, !.draft = draft]
    OBVIOUS
  <2> HIDE DEF row, c
  <2> QED BY <1>3, <2>1, <2>2 DEF Rows
<1>7. /\ old \in Rows /\ old.status = "DRAFT" /\ version \in Nat
      /\ context \in Contexts /\ draft \in DraftRows
  BY <1>2, <1>4, <1>5 DEF Rows
<1> HIDE DEF c, old, version
<1>8. /\ row \in Rows /\ row.draft = draft /\ row.version = version
      /\ row.status = "DRAFT" /\ row.context = context
      /\ row.of = old.of /\ row.previous = old.previous
      /\ row.age = old.age /\ row.createdBy = old.createdBy
      /\ row.finalizedIn = old.finalizedIn /\ row.reversedIn = old.reversedIn
  BY <1>7 DEF Rows
<1> HIDE DEF row
<1>9. checkout' \in [Checkouts -> Rows] /\ checkout'[c] = row /\ OnlyRow(c)
  BY <1>2, <1>4, <1>6, <1>8 DEF TypeOK, OnlyRow
<1>10. Typed(c) /\ SameOrigin(c)
  BY <1>5, <1>8, <1>9 DEF Typed, SameOrigin, old, version
<1>11. ChangesDraft(c)
  BY <1>2, <1>4, <1>8, <1>9, <1>10 DEF ChangesDraft, old
<1> QED
  BY <1>11 DEF c

\* A finalization makes the draft on the screen a sale.
LEMMA FinalizeFinalizes ==
    ASSUME CashInv, NEW k \in Clerks, NEW s \in Sessions, Finalize(k, s)
    PROVE  Finalizes(view[k].id, s)
<1> DEFINE c == view[k].id
<1>1. CurrentDraft(k)
  BY DEF Finalize
<1>2. c \in Existing /\ checkout[c].status = "DRAFT" /\ TypeOK
  BY <1>1, CurrentTyped DEF CashInv
<1>3. checkout' = [checkout EXCEPT ![c].status = "FINALIZED", ![c].version = @ + 1,
                                   ![c].finalizedIn = s]
  BY DEF Finalize
<1>4. /\ c \in Checkouts /\ checkout[c] \in Rows
      /\ checkout[c].draft.points <= checkout[c].draft.price
  BY <1>2, ExistingTyped
<1> DEFINE old == checkout[c]
           version == old.version + 1
           row == [old EXCEPT !.status = "FINALIZED", !.version = version, !.finalizedIn = s]
<1>5. checkout' = [checkout EXCEPT ![c] = row]
  BY <1>2, <1>3, <1>4 DEF TypeOK
<1>6. old \in Rows /\ version \in Nat
  BY <1>4 DEF Rows
<1> HIDE DEF c, old, version
<1>7. /\ row \in Rows /\ row.draft = old.draft /\ row.version = version
      /\ row.status = "FINALIZED" /\ row.context = old.context
      /\ row.of = old.of /\ row.previous = old.previous
      /\ row.age = old.age /\ row.createdBy = old.createdBy
      /\ row.finalizedIn = s /\ row.reversedIn = old.reversedIn
  BY <1>6 DEF Rows
<1> HIDE DEF row
<1>8. checkout' \in [Checkouts -> Rows] /\ checkout'[c] = row /\ OnlyRow(c)
  BY <1>2, <1>4, <1>5, <1>7 DEF TypeOK, OnlyRow
<1>9. Typed(c) /\ SameOrigin(c) /\ SameSale(c)
  BY <1>4, <1>7, <1>8 DEF Typed, SameOrigin, SameSale, old, version
<1>10. Finalizes(c, s)
  BY <1>2, <1>4, <1>7, <1>8, <1>9 DEF Finalizes, old
<1> QED
  BY <1>10 DEF c

\* A reversal makes a sale reversed.
LEMMA ReverseReverses ==
    ASSUME CashInv, NEW c \in Checkouts, NEW s \in Sessions, Reverse(c, s)
    PROVE  Reverses(c, s)
<1>1. checkout[c].status = "FINALIZED" /\ c \in Existing /\ TypeOK
  BY DEF Reverse, CashInv, Existing
<1>2. checkout' = [checkout EXCEPT ![c].status = "REVERSED", ![c].version = @ + 1,
                                   ![c].reversedIn = s]
  BY DEF Reverse
<1>3. checkout[c] \in Rows /\ checkout[c].draft.points <= checkout[c].draft.price
  BY <1>1, ExistingTyped
<1> DEFINE old == checkout[c]
           version == old.version + 1
           row == [old EXCEPT !.status = "REVERSED", !.version = version, !.reversedIn = s]
<1>4. checkout' = [checkout EXCEPT ![c] = row]
  BY <1>1, <1>2 DEF TypeOK
<1>5. old \in Rows /\ version \in Nat
  BY <1>3 DEF Rows
<1> HIDE DEF old, version
<1>6. /\ row \in Rows /\ row.draft = old.draft /\ row.version = version
      /\ row.status = "REVERSED" /\ row.context = old.context
      /\ row.of = old.of /\ row.previous = old.previous
      /\ row.age = old.age /\ row.createdBy = old.createdBy
      /\ row.reversedIn = s /\ row.finalizedIn = old.finalizedIn
  BY <1>5 DEF Rows
<1> HIDE DEF row
<1>7. checkout' \in [Checkouts -> Rows] /\ checkout'[c] = row /\ OnlyRow(c)
  BY <1>1, <1>4, <1>6 DEF TypeOK, OnlyRow
<1>8. Typed(c) /\ SameOrigin(c) /\ SameSale(c)
  BY <1>3, <1>6, <1>7 DEF Typed, SameOrigin, SameSale, old, version
<1> QED
  BY <1>1, <1>6, <1>7, <1>8 DEF Reverses, old

\* A step makes a checkout, changes a draft, finalizes, reverses, or leaves them alone.
RowStep ==
    \/ \E r \in Reservations, c \in Checkouts : MakesDraft(r, c)
    \/ \E c \in Checkouts : ChangesDraft(c)
    \/ \E c \in Checkouts, s \in Sessions : Finalizes(c, s) \/ Reverses(c, s)
    \/ UNCHANGED checkout

\* Every step does one of these to the rows, or nothing.
LEMMA StepsAreRowSteps == ASSUME CashInv, [Next]_vars PROVE RowStep
<1>1. ASSUME NEW r \in Reservations, NEW c \in Checkouts, CreateCheckout(r, c) PROVE RowStep
  BY <1>1, CreateMakes DEF RowStep
<1>2. ASSUME NEW k \in Clerks, SaveDraft(k) \/ RefreshDraft(k) PROVE RowStep
  BY <1>2, SaveChanges, RefreshChanges DEF RowStep, ChangesDraft
<1>3. ASSUME NEW k \in Clerks, NEW s \in Sessions, Finalize(k, s) PROVE RowStep
  BY <1>3, FinalizeFinalizes DEF RowStep, Finalizes
<1>4. ASSUME NEW c \in Checkouts, NEW s \in Sessions, Reverse(c, s) PROVE RowStep
  BY <1>4, ReverseReverses DEF RowStep
<1>5. ASSUME NEW k \in Clerks, NEW c \in Checkouts, Load(k, c) PROVE RowStep
  BY <1>5 DEF RowStep, Load
<1>6. ASSUME NEW s \in Sessions, OpenRegister(s) \/ MoveCash(s) \/ CloseRegister(s) PROVE RowStep
  BY <1>6 DEF RowStep, OpenRegister, MoveCash, CloseRegister
<1>7. ASSUME NEW r \in Reservations, EditReservation(r) \/ ChangeStatus(r) PROVE RowStep
  BY <1>7 DEF RowStep, EditReservation, ChangeStatus
<1>8. CASE NextDay \/ UNCHANGED vars
  BY <1>8 DEF RowStep, NextDay, vars
<1> QED
  BY <1>1, <1>2, <1>3, <1>4, <1>5, <1>6, <1>7, <1>8 DEF Next

-----------------------------------------------------------------------------
(* The registers                                                            *)

\* A movement counts a number of yen.
LEMMA SignedTyped ==
    ASSUME NEW m \in MovementRows
    PROVE  SignedAmount(m) \in Int
  BY DEF SignedAmount, MovementRows

\* What a register holds and has sold are numbers.
LEMMA ReportTyped ==
    ASSUME TypeOK, BooksFinite, NEW s \in Sessions
    PROVE  /\ IsFiniteSet(MovementsIn(s)) /\ ExpectedCash(s) \in Int
           /\ Report(s) \in [expected: Int, sales: SUBSET Checkouts, refunds: SUBSET Checkouts,
                             net: Int, movements: SUBSET MovementRows]
<1>1. /\ MovementsIn(s) \in SUBSET movements /\ MovementsIn(s) \in SUBSET MovementRows
  BY DEF MovementsIn, TypeOK
<1>2. IsFiniteSet(MovementsIn(s))
  BY <1>1, FS_Subset DEF BooksFinite
<1> DEFINE signed == [m \in MovementsIn(s) |-> SignedAmount(m)]
<1>3. /\ DOMAIN signed = MovementsIn(s)
      /\ \A m \in DOMAIN signed : signed[m] \in Int
  BY <1>1, SignedTyped
<1>4. SumFunction(signed) \in Int
  <2> HIDE DEF signed
  <2> QED BY <1>2, <1>3, SumOfInts
<1>5. register[s].opening \in Int
  BY DEF TypeOK, Registers
<1>6. ExpectedCash(s) \in Int
  BY <1>4, <1>5 DEF ExpectedCash
<1>7. ASSUME NEW cs, cs \in SUBSET Checkouts PROVE TotalsOf(cs) \in Int
  <2> DEFINE totals == [c \in cs |-> Total(checkout[c].draft)]
  <2>1. ASSUME NEW c \in cs PROVE Total(checkout[c].draft) \in Int
    BY <1>7 DEF TypeOK, Rows, DraftRows, Total
  <2>2. DOMAIN totals = cs /\ \A c \in DOMAIN totals : totals[c] \in Int
    BY <2>1
  <2>3. IsFiniteSet(cs)
    BY <1>7, CashAssumption, FS_Subset
  <2>4. SumFunction(totals) \in Int
    <3> HIDE DEF totals
    <3> QED BY <2>2, <2>3, SumOfInts
  <2> QED BY <2>4 DEF TotalsOf
<1>8. SalesIn(s) \in SUBSET Checkouts /\ RefundsIn(s) \in SUBSET Checkouts
  BY DEF SalesIn, RefundsIn
<1>9. TotalsOf(SalesIn(s)) - TotalsOf(RefundsIn(s)) \in Int
  BY <1>7, <1>8
<1> QED
  BY <1>1, <1>2, <1>6, <1>8, <1>9 DEF Report

Booked(s, kind, amount, c) ==
    [session |-> s, number |-> register[s].version, kind |-> kind, amount |-> amount,
     checkout |-> c]

\* A booking makes a new version of its register and, of an amount, a movement.
LEMMA RecordBooks ==
    ASSUME TypeOK, NEW s \in Sessions, NEW kind \in {"IN", "OUT", "SALE", "REFUND"},
           NEW amount \in Nat, NEW c \in Checkouts \cup {NoCheckout},
           Record(s, kind, amount, c)
    PROVE  /\ register' \in [Sessions -> Registers]
           /\ \A t \in Sessions \ {s} : register'[t] = register[t]
           /\ register'[s].status = register[s].status /\ register'[s].day = register[s].day
           /\ register'[s].opening = register[s].opening
           /\ register'[s].report = register[s].report
           /\ register'[s].version = register[s].version + 1
           /\ movements' = IF amount > 0 THEN movements \cup {Booked(s, kind, amount, c)}
                           ELSE movements
           /\ movements' \subseteq MovementRows
<1>1. register' = [register EXCEPT ![s].version = @ + 1]
  BY DEF Record
<1>2. register[s] \in Registers
  BY DEF TypeOK
<1> DEFINE old == register[s]
           version == old.version + 1
           row == [old EXCEPT !.version = version]
<1>3. register' = [register EXCEPT ![s] = row]
  BY <1>1 DEF TypeOK
<1>4. old \in Registers /\ version \in Nat
  BY <1>2 DEF Registers
<1> HIDE DEF old, version
<1>5. /\ row \in Registers /\ row.status = old.status /\ row.day = old.day
      /\ row.opening = old.opening /\ row.report = old.report /\ row.version = version
  BY <1>4 DEF Registers
<1> HIDE DEF row
<1>6. /\ register' \in [Sessions -> Registers] /\ register'[s] = row
      /\ \A t \in Sessions \ {s} : register'[t] = register[t]
  BY <1>3, <1>5 DEF TypeOK
<1>7. movements' = IF amount > 0 THEN movements \cup {Booked(s, kind, amount, c)}
                  ELSE movements
  BY DEF Record, Booked
<1>8. register[s].version \in Nat
  BY <1>2 DEF Registers
<1>9. amount > 0 => Booked(s, kind, amount, c) \in MovementRows
  BY <1>8 DEF Booked, MovementRows
<1>10. movements' \subseteq MovementRows
  BY <1>7, <1>9 DEF TypeOK
<1> QED
  BY <1>5, <1>6, <1>7, <1>10 DEF old, version

-----------------------------------------------------------------------------
(* The points                                                               *)

\* Points earned are a number.
LEMMA EarnedTyped == ASSUME NEW n \in Nat PROVE Earned(n) \in Nat
<1> DEFINE times == n \div EarnYenUnit
<1>1. times \in Nat
  BY CashAssumption
<1> HIDE DEF times
<1>2. times * EarnPoints \in Nat
  BY <1>1, CashAssumption
<1> QED
  BY <1>2 DEF Earned, times

Drawn(c, draft) == [checkout |-> c, kind |-> "REDEEM", account |-> draft.account,
                    delta |-> -draft.points]
EarnedBy(c, draft) == [checkout |-> c, kind |-> "EARN", account |-> draft.account,
                       delta |-> Earned(Total(draft))]

\* What a sale writes and what its reversal writes.
LEMMA SaleTyped ==
    ASSUME TypeOK, NEW c \in Existing
    PROVE  LET draft == checkout[c].draft
               sold == PointsOfSale(c, draft)
           IN /\ sold \subseteq EntryRows /\ IsFiniteSet(sold)
              /\ Undone(sold) \subseteq EntryRows /\ IsFiniteSet(Undone(sold))
              /\ \A e \in sold \cup Undone(sold) : e.checkout = c
              /\ \A e \in sold : e.kind \in {"REDEEM", "EARN"}
              /\ \A e \in Undone(sold) : e.kind \in {"REFUND", "EARN_REVERSAL"}
<1> DEFINE draft == checkout[c].draft
           sold == PointsOfSale(c, draft)
           drawn == Drawn(c, draft)
           earned == EarnedBy(c, draft)
<1>1. c \in Checkouts /\ draft \in DraftRows /\ Total(draft) \in Nat
  BY ExistingTyped
<1>2. sold = {e \in {drawn, earned} : draft.account # NoAccount /\ e.delta # 0}
  BY DEF PointsOfSale, Drawn, EarnedBy
<1>3. draft.account # NoAccount => draft.account \in Accounts
  BY <1>1 DEF DraftRows
<1>4. -draft.points \in Int /\ Earned(Total(draft)) \in Int
  BY <1>1, EarnedTyped DEF DraftRows
<1>5. /\ drawn.checkout = c /\ earned.checkout = c
      /\ drawn.kind = "REDEEM" /\ earned.kind = "EARN"
      /\ draft.account # NoAccount => drawn \in EntryRows /\ earned \in EntryRows
  BY <1>1, <1>3, <1>4 DEF Drawn, EarnedBy, EntryRows
<1> DEFINE back == [drawn EXCEPT !.kind = "REFUND", !.delta = -drawn.delta]
           taken == [earned EXCEPT !.kind = "EARN_REVERSAL", !.delta = -earned.delta]
<1>6. /\ back.checkout = c /\ taken.checkout = c
      /\ back.kind = "REFUND" /\ taken.kind = "EARN_REVERSAL"
      /\ draft.account # NoAccount => back \in EntryRows /\ taken \in EntryRows
  <2>1. -drawn.delta \in Int /\ -earned.delta \in Int
    BY <1>4 DEF Drawn, EarnedBy
  <2> QED BY <1>1, <1>3, <2>1 DEF Drawn, EarnedBy, EntryRows
<1> HIDE DEF drawn, earned
<1>7. Undone(sold) \subseteq {back, taken}
  BY <1>2, <1>5 DEF Undone
<1> HIDE DEF back, taken
<1>8. sold # {} => draft.account # NoAccount
  BY <1>2
<1>9. Undone(sold) # {} => sold # {}
  BY DEF Undone
<1> HIDE DEF sold
<1>10. IsFiniteSet({drawn, earned}) /\ IsFiniteSet({back, taken})
  <2>1. IsFiniteSet({drawn}) /\ IsFiniteSet({back})
    BY FS_Singleton
  <2>2. {drawn, earned} = {drawn} \cup {earned} /\ {back, taken} = {back} \cup {taken}
    OBVIOUS
  <2> QED BY <2>1, <2>2, FS_AddElement
<1>11. IsFiniteSet(sold) /\ IsFiniteSet(Undone(sold))
  <2>1. sold \in SUBSET {drawn, earned} /\ Undone(sold) \in SUBSET {back, taken}
    BY <1>2, <1>7
  <2> QED BY <1>10, <2>1, FS_Subset
<1>12. sold \subseteq EntryRows /\ Undone(sold) \subseteq EntryRows
  BY <1>2, <1>5, <1>6, <1>7, <1>8, <1>9
<1>13. /\ \A e \in sold \cup Undone(sold) : e.checkout = c
       /\ \A e \in sold : e.kind \in {"REDEEM", "EARN"}
       /\ \A e \in Undone(sold) : e.kind \in {"REFUND", "EARN_REVERSAL"}
  BY <1>2, <1>5, <1>6, <1>7
<1> QED
  BY <1>11, <1>12, <1>13 DEF sold

-----------------------------------------------------------------------------
(* Type correctness                                                         *)

\* The rows stay rows.
LEMMA RowsStayTyped ==
    ASSUME TypeOK, RowStep
    PROVE  /\ checkout' \in [Checkouts -> Rows]
           /\ \A c \in Existing' : /\ checkout'[c].of \in Reservations
                                    /\ checkout'[c].context \in Contexts
                                    /\ checkout'[c].draft.points <= checkout'[c].draft.price
<1>1. ASSUME NEW r \in Reservations, NEW c \in Checkouts, MakesDraft(r, c)
      PROVE  /\ checkout' \in [Checkouts -> Rows] /\ c \in Checkouts /\ OnlyRow(c)
             /\ checkout'[c].of \in Reservations /\ checkout'[c].context \in Contexts
             /\ checkout'[c].draft.points <= checkout'[c].draft.price
  BY <1>1 DEF MakesDraft, Typed, TypeOK
<1>2. ASSUME NEW c \in Checkouts, NEW s \in Sessions,
             Finalizes(c, s) \/ Reverses(c, s)
      PROVE  /\ checkout' \in [Checkouts -> Rows] /\ c \in Checkouts /\ OnlyRow(c)
             /\ checkout'[c].of \in Reservations /\ checkout'[c].context \in Contexts
             /\ checkout'[c].draft.points <= checkout'[c].draft.price
  BY <1>2 DEF Finalizes, Reverses, Typed, SameOrigin, SameSale, TypeOK, Existing
<1>3. ASSUME NEW c \in Checkouts, ChangesDraft(c)
      PROVE  /\ checkout' \in [Checkouts -> Rows] /\ c \in Checkouts /\ OnlyRow(c)
             /\ checkout'[c].of \in Reservations /\ checkout'[c].context \in Contexts
             /\ checkout'[c].draft.points <= checkout'[c].draft.price
  BY <1>3 DEF ChangesDraft, Typed, SameOrigin, TypeOK, Existing
<1>4. ASSUME NEW c \in Checkouts, checkout' \in [Checkouts -> Rows], OnlyRow(c),
             checkout'[c].of \in Reservations, checkout'[c].context \in Contexts,
             checkout'[c].draft.points <= checkout'[c].draft.price
      PROVE  \A d \in Existing' : /\ checkout'[d].of \in Reservations
                                  /\ checkout'[d].context \in Contexts
                                  /\ checkout'[d].draft.points <= checkout'[d].draft.price
  BY <1>4 DEF OnlyRow, TypeOK, Existing
<1>5. CASE UNCHANGED checkout
  BY <1>5 DEF TypeOK, Existing
<1> QED
  BY <1>1, <1>2, <1>3, <1>4, <1>5 DEF RowStep

\* What a finalization and a reversal write besides the checkout.
LEMMA FinalizeWrites ==
    ASSUME CashInv, NEW k \in Clerks, NEW s \in Sessions, Finalize(k, s)
    PROVE  LET c == view[k].id
               r == checkout[c].of
               draft == checkout[c].draft
           IN /\ c \in Existing /\ r \in Reservations /\ draft.cash \in Nat
              /\ Usable(s) /\ SnapshotCurrent(c)
              /\ Record(s, "SALE", draft.cash, c)
              /\ entries' = entries \cup PointsOfSale(c, draft)
              /\ reservation' = [reservation EXCEPT ![r].payment = "PAID"]
              /\ totalSpent' = SpentAfter(r, checkout')
              /\ UNCHANGED <<today, view>>
<1> DEFINE c == view[k].id
<1>1. CurrentDraft(k)
  BY DEF Finalize
<1>2. c \in Existing /\ TypeOK
  BY <1>1, CurrentTyped DEF CashInv
<1>3. checkout[c].of \in Reservations /\ checkout[c].draft \in DraftRows
  BY <1>2, ExistingTyped
<1>4. checkout[c].draft.cash \in Nat
  BY <1>3 DEF DraftRows
<1> QED
  BY <1>2, <1>3, <1>4 DEF Finalize

\* What a reversal writes besides the checkout.
LEMMA ReverseWrites ==
    ASSUME CashInv, NEW c \in Checkouts, NEW s \in Sessions, Reverse(c, s)
    PROVE  LET r == checkout[c].of
               draft == checkout[c].draft
           IN /\ c \in Existing /\ r \in Reservations /\ draft.cash \in Nat
              /\ Usable(s)
              /\ draft.cash > 0 => DrawerCovers(s, draft.cash)
              /\ Record(s, "REFUND", draft.cash, c)
              /\ entries' = entries \cup PointsOfRefund(c)
              /\ reservation' = [reservation EXCEPT ![r].payment = "REFUNDED"]
              /\ totalSpent' = SpentAfter(r, checkout')
              /\ UNCHANGED <<today, view>>
<1>1. c \in Existing /\ TypeOK
  BY DEF Reverse, CashInv, Existing
<1>2. checkout[c].of \in Reservations /\ checkout[c].draft \in DraftRows
  BY <1>1, ExistingTyped
<1>3. checkout[c].draft.cash \in Nat
  BY <1>2 DEF DraftRows
<1> QED
  BY <1>1, <1>2, <1>3 DEF Reverse

\* Only the entries of a finalized checkout can be those of its sale.
LEMMA RefundIsSaleUndone ==
    ASSUME CashInv, NEW c \in Checkouts, checkout[c].status = "FINALIZED"
    PROVE  PointsOfRefund(c) = Undone(PointsOfSale(c, checkout[c].draft))
<1> DEFINE sold == PointsOfSale(c, checkout[c].draft)
           mine == {e \in entries : e.checkout = c}
<1>1. mine = sold
  BY DEF CashInv, EntriesKnown
<1>2. \A e \in sold : e.kind \in {"REDEEM", "EARN"}
  <2>1. c \in Existing /\ TypeOK
    BY DEF Existing, CashInv
  <2> QED BY <2>1, SaleTyped
<1>3. {e \in entries : e.checkout = c /\ e.kind \in {"REDEEM", "EARN"}} = sold
  BY <1>1, <1>2
<1> QED
  BY <1>3 DEF PointsOfRefund

\* The totals are of the customers.
LEMMA SpentAfterTyped ==
    ASSUME TypeOK, NEW r \in Reservations, NEW book
    PROVE  DOMAIN SpentAfter(r, book) = Customers
  BY DEF SpentAfter, TypeOK

\* A register that was never opened is blank.
LEMMA NoRegisterTyped == NoRegister \in Registers
<1>1. NoReport \in [expected: Int, sales: SUBSET Checkouts, refunds: SUBSET Checkouts,
                    net: Int, movements: SUBSET MovementRows]
  BY DEF NoReport
<1> QED
  BY <1>1 DEF NoRegister, Registers

\* Every step keeps every variable in its domain.
LEMMA TypeStep == ASSUME CashInv, [Next]_vars PROVE TypeOK'
<1>0. /\ TypeOK /\ BooksFinite
      /\ checkout' \in [Checkouts -> Rows]
      /\ \A c \in Existing' : /\ checkout'[c].of \in Reservations
                               /\ checkout'[c].context \in Contexts
                               /\ checkout'[c].draft.points <= checkout'[c].draft.price
  BY StepsAreRowSteps, RowsStayTyped DEF CashInv
<1> DEFINE Desks == [context: Contexts, released: BOOLEAN, payment: {"UNPAID", "PAID", "REFUNDED"}]
           Rest == /\ reservation' \in [Reservations -> Desks]
                   /\ register' \in [Sessions -> Registers]
                   /\ movements' \subseteq MovementRows /\ entries' \subseteq EntryRows
                   /\ DOMAIN totalSpent' = Customers /\ today' \in Nat
                   /\ mails' \subseteq {"checkout.finalized", "checkout.reversed"} \X Checkouts
                   /\ view' \in [Clerks -> [id: Checkouts \cup {NoCheckout}, row: Rows]]
<1> SUFFICES Rest
  BY <1>0 DEF TypeOK
<1>1. \A r \in Reservations :
          /\ \A p \in {"PAID", "REFUNDED"} :
                 [reservation EXCEPT ![r].payment = p] \in [Reservations -> Desks]
          /\ \A x \in Contexts : [reservation EXCEPT ![r].context = x] \in [Reservations -> Desks]
          /\ [reservation EXCEPT ![r].released = ~@] \in [Reservations -> Desks]
  BY <1>0 DEF TypeOK
<1>2. ASSUME NEW r \in Reservations, NEW c \in Checkouts, CreateCheckout(r, c) PROVE Rest
  BY <1>0, <1>2 DEF CreateCheckout, TypeOK
<1>3. ASSUME NEW k \in Clerks, NEW c \in Checkouts, Load(k, c) PROVE Rest
  <2>1. checkout[c] \in Rows
    BY <1>0 DEF TypeOK
  <2>2. view' \in [Clerks -> [id: Checkouts \cup {NoCheckout}, row: Rows]]
    BY <1>0, <1>3, <2>1 DEF Load, TypeOK
  <2> QED BY <1>0, <1>3, <2>2 DEF Load, TypeOK
<1>4. ASSUME NEW k \in Clerks, SaveDraft(k) \/ RefreshDraft(k) PROVE Rest
  BY <1>0, <1>4 DEF SaveDraft, RefreshDraft, TypeOK
<1>5. ASSUME NEW k \in Clerks, NEW s \in Sessions, Finalize(k, s) PROVE Rest
  <2> DEFINE c == view[k].id
             r == checkout[c].of
             draft == checkout[c].draft
  <2>1. /\ c \in Existing /\ c \in Checkouts /\ r \in Reservations /\ draft.cash \in Nat
        /\ Record(s, "SALE", draft.cash, c) /\ entries' = entries \cup PointsOfSale(c, draft)
        /\ reservation' = [reservation EXCEPT ![r].payment = "PAID"]
        /\ totalSpent' = SpentAfter(r, checkout') /\ UNCHANGED <<today, view>>
    BY <1>5, FinalizeWrites DEF Existing
  <2>2. register' \in [Sessions -> Registers] /\ movements' \subseteq MovementRows
    <3> HIDE DEF draft, c
    <3> QED BY <1>0, <2>1, RecordBooks
  <2>3. entries' \subseteq EntryRows
    BY <1>0, <2>1, SaleTyped DEF TypeOK
  <2>4. mails' \subseteq {"checkout.finalized", "checkout.reversed"} \X Checkouts
    <3>1. mails' = mails \cup {<<"checkout.finalized", c>>}
      BY <1>5 DEF Finalize
    <3> HIDE DEF c
    <3> QED BY <1>0, <2>1, <3>1 DEF TypeOK
  <2>5. DOMAIN totalSpent' = Customers
    BY <1>0, <2>1, SpentAfterTyped
  <2> QED BY <1>0, <1>1, <2>1, <2>2, <2>3, <2>4, <2>5 DEF TypeOK
<1>6. ASSUME NEW c \in Checkouts, NEW s \in Sessions, Reverse(c, s) PROVE Rest
  <2> DEFINE r == checkout[c].of
             draft == checkout[c].draft
  <2>1. /\ c \in Existing /\ r \in Reservations /\ draft.cash \in Nat
        /\ Record(s, "REFUND", draft.cash, c) /\ entries' = entries \cup PointsOfRefund(c)
        /\ reservation' = [reservation EXCEPT ![r].payment = "REFUNDED"]
        /\ totalSpent' = SpentAfter(r, checkout') /\ UNCHANGED <<today, view>>
    BY <1>6, ReverseWrites
  <2>2. register' \in [Sessions -> Registers] /\ movements' \subseteq MovementRows
    <3> HIDE DEF draft
    <3> QED BY <1>0, <2>1, RecordBooks
  <2>3. entries' \subseteq EntryRows
    <3>1. checkout[c].status = "FINALIZED"
      BY <1>6 DEF Reverse
    <3> QED BY <1>0, <2>1, <3>1, SaleTyped, RefundIsSaleUndone DEF TypeOK
  <2>4. mails' \subseteq {"checkout.finalized", "checkout.reversed"} \X Checkouts
    BY <1>0, <1>6 DEF Reverse, TypeOK
  <2>5. DOMAIN totalSpent' = Customers
    BY <1>0, <2>1, SpentAfterTyped
  <2> QED BY <1>0, <1>1, <2>1, <2>2, <2>3, <2>4, <2>5 DEF TypeOK
<1>7. ASSUME NEW s \in Sessions, OpenRegister(s) PROVE Rest
  <2>1. PICK opening \in Openings :
            register' = [register EXCEPT ![s] = [NoRegister EXCEPT !.status = "OPEN",
                            !.day = today, !.opening = opening, !.version = 1]]
    BY <1>7 DEF OpenRegister
  <2>2. opening \in Nat /\ today \in Nat
    BY <1>0, CashAssumption DEF TypeOK
  <2>3. [NoRegister EXCEPT !.status = "OPEN", !.day = today, !.opening = opening, !.version = 1]
            \in Registers
    BY <2>2, NoRegisterTyped DEF Registers
  <2>4. register' \in [Sessions -> Registers]
    BY <1>0, <2>1, <2>3 DEF TypeOK
  <2> QED BY <1>0, <1>7, <2>4 DEF OpenRegister, TypeOK
<1>8. ASSUME NEW s \in Sessions, MoveCash(s) PROVE Rest
  <2>1. PICK kind \in {"IN", "OUT"}, amount \in Amounts : Record(s, kind, amount, NoCheckout)
    BY <1>8 DEF MoveCash
  <2>2. register' \in [Sessions -> Registers] /\ movements' \subseteq MovementRows
    BY <1>0, <2>1, CashAssumption, RecordBooks
  <2> QED BY <1>0, <1>8, <2>2 DEF MoveCash, TypeOK
<1>9. ASSUME NEW s \in Sessions, CloseRegister(s) PROVE Rest
  <2> DEFINE old == register[s]
             version == old.version + 1
             report == Report(s)
  <2>1. register' = [register EXCEPT ![s].status = "CLOSED", ![s].version = version,
                                     ![s].report = report]
    BY <1>0, <1>9 DEF CloseRegister
  <2>2. old \in Registers /\ version \in Nat
    BY <1>0 DEF TypeOK, Registers
  <2>3. report \in [expected: Int, sales: SUBSET Checkouts, refunds: SUBSET Checkouts,
                    net: Int, movements: SUBSET MovementRows]
    BY <1>0, ReportTyped
  <2>4. register' = [register EXCEPT ![s] = [old EXCEPT !.status = "CLOSED",
                        !.version = version, !.report = report]]
    BY <1>0, <2>1 DEF TypeOK
  <2> HIDE DEF old, version, report
  <2>5. [old EXCEPT !.status = "CLOSED", !.version = version, !.report = report] \in Registers
    BY <2>2, <2>3 DEF Registers
  <2>6. register' \in [Sessions -> Registers]
    BY <1>0, <2>4, <2>5 DEF TypeOK
  <2> QED BY <1>0, <1>9, <2>6 DEF CloseRegister, TypeOK
<1>10. ASSUME NEW r \in Reservations, EditReservation(r) \/ ChangeStatus(r) PROVE Rest
  <2>1. CASE EditReservation(r)
    <3>1. PICK new \in Contexts : reservation' = [reservation EXCEPT ![r].context = new]
      BY <2>1 DEF EditReservation
    <3>2. reservation' \in [Reservations -> Desks]
      BY <1>1, <3>1
    <3> QED BY <1>0, <2>1, <3>2 DEF EditReservation, TypeOK
  <2>2. CASE ChangeStatus(r)
    <3>1. reservation' \in [Reservations -> Desks]
      BY <1>1, <2>2 DEF ChangeStatus
    <3> QED BY <1>0, <2>2, <3>1 DEF ChangeStatus, TypeOK
  <2> QED BY <1>10, <2>1, <2>2
<1>11. CASE NextDay
  BY <1>0, <1>11 DEF NextDay, TypeOK
<1>12. CASE UNCHANGED vars
  BY <1>0, <1>12 DEF vars, TypeOK
<1> QED
  BY <1>2, <1>3, <1>4, <1>5, <1>6, <1>7, <1>8, <1>9, <1>10, <1>11, <1>12 DEF Next

-----------------------------------------------------------------------------
(* What a step does to the other books                                      *)

OnlyRegister(s) == \A t \in Sessions \ {s} : register'[t] = register[t]

\* Register s books an amount.
Books(s, kind, amount, c) ==
    /\ s \in Sessions /\ amount \in Nat /\ OnlyRegister(s)
    /\ register[s].status = "OPEN" /\ register'[s].status = "OPEN"
    /\ register'[s].day = register[s].day /\ register'[s].opening = register[s].opening
    /\ register'[s].version = register[s].version + 1
    /\ movements' = IF amount > 0 THEN movements \cup {Booked(s, kind, amount, c)} ELSE movements
    /\ kind \in {"OUT", "REFUND"} /\ amount > 0 => DrawerCovers(s, amount)

Opens(s) ==
    /\ s \in Sessions /\ OnlyRegister(s) /\ movements' = movements
    /\ register[s].status = "NONE" /\ NoRegisterInTheWay(today)
    /\ register'[s].status = "OPEN" /\ register'[s].day = today
    /\ register'[s].opening \in Nat /\ register'[s].version = 1

Closes(s) ==
    /\ s \in Sessions /\ OnlyRegister(s) /\ movements' = movements
    /\ register[s].status = "OPEN" /\ register'[s].status = "CLOSED"
    /\ register'[s].day = register[s].day /\ register'[s].opening = register[s].opening
    /\ register'[s].version = register[s].version + 1 /\ register'[s].report = Report(s)

\* The books a sale and a refund write in.
Writes(c, payment, new) ==
    LET r == checkout[c].of
    IN /\ c \in Existing /\ r \in Reservations
       /\ reservation' = [reservation EXCEPT ![r].payment = payment]
       /\ entries' = entries \cup new
       /\ totalSpent' = SpentAfter(r, checkout')
       /\ view' = view

Collects(c, s) ==
    /\ Finalizes(c, s) /\ SnapshotCurrent(c)
    /\ Books(s, "SALE", checkout[c].draft.cash, c)
    /\ Writes(c, "PAID", PointsOfSale(c, checkout[c].draft))

GivesBack(c, s) ==
    /\ Reverses(c, s)
    /\ Books(s, "REFUND", checkout[c].draft.cash, c)
    /\ Writes(c, "REFUNDED", PointsOfRefund(c))

RegisterStep ==
    \E s \in Sessions : \/ Opens(s) \/ Closes(s)
                        \/ \E kind \in {"IN", "OUT"}, amount \in Nat : Books(s, kind, amount, NoCheckout)

DeskStep ==
    \/ \E k \in Clerks, c \in Checkouts : Load(k, c)
    \/ \E r \in Reservations : EditReservation(r) \/ ChangeStatus(r)
    \/ UNCHANGED <<reservation, checkout, register, movements, entries, totalSpent, view>>

CashStep ==
    \/ /\ UNCHANGED <<reservation, register, movements, entries, totalSpent, view>>
       /\ \/ \E r \in Reservations, c \in Checkouts : MakesDraft(r, c)
          \/ \E c \in Checkouts : ChangesDraft(c)
    \/ \E c \in Checkouts, s \in Sessions : Collects(c, s) \/ GivesBack(c, s)
    \/ UNCHANGED <<reservation, checkout, entries, totalSpent, view>> /\ RegisterStep
    \/ UNCHANGED <<register, movements>> /\ DeskStep

\* A booking, as the handlers do it, has this shape.
LEMMA RecordIsBooks ==
    ASSUME TypeOK, NEW s \in Sessions, NEW kind \in {"IN", "OUT", "SALE", "REFUND"},
           NEW amount \in Nat, NEW c \in Checkouts \cup {NoCheckout},
           Record(s, kind, amount, c), register[s].status = "OPEN",
           kind \in {"OUT", "REFUND"} /\ amount > 0 => DrawerCovers(s, amount)
    PROVE  Books(s, kind, amount, c)
  BY RecordBooks DEF Books, OnlyRegister

\* A finalization collects the money in its register.
LEMMA FinalizeCollects ==
    ASSUME CashInv, NEW k \in Clerks, NEW s \in Sessions, Finalize(k, s)
    PROVE  view[k].id \in Checkouts /\ Collects(view[k].id, s)
<1> DEFINE c == view[k].id
           amount == checkout[c].draft.cash
<1>1. /\ c \in Existing /\ c \in Checkouts /\ checkout[c].of \in Reservations /\ amount \in Nat
      /\ Usable(s) /\ SnapshotCurrent(c) /\ Record(s, "SALE", amount, c)
      /\ entries' = entries \cup PointsOfSale(c, checkout[c].draft)
      /\ reservation' = [reservation EXCEPT ![checkout[c].of].payment = "PAID"]
      /\ totalSpent' = SpentAfter(checkout[c].of, checkout') /\ view' = view
  BY FinalizeWrites DEF Existing
<1>2. Finalizes(c, s)
  BY FinalizeFinalizes
<1>3. TypeOK /\ register[s].status = "OPEN"
  BY <1>1 DEF Usable, CashInv
<1> HIDE DEF c
<1>4. Books(s, "SALE", amount, c)
  <2> HIDE DEF amount
  <2> QED BY <1>1, <1>3, RecordIsBooks
<1>5. Writes(c, "PAID", PointsOfSale(c, checkout[c].draft))
  BY <1>1 DEF Writes
<1>6. Collects(c, s)
  BY <1>1, <1>2, <1>4, <1>5 DEF Collects
<1> QED
  BY <1>1, <1>6 DEF c

\* A reversal gives it back.
LEMMA ReverseGivesBack ==
    ASSUME CashInv, NEW c \in Checkouts, NEW s \in Sessions, Reverse(c, s)
    PROVE  GivesBack(c, s)
<1> DEFINE amount == checkout[c].draft.cash
<1>1. /\ c \in Existing /\ checkout[c].of \in Reservations /\ amount \in Nat
      /\ Usable(s) /\ Record(s, "REFUND", amount, c)
      /\ amount > 0 => DrawerCovers(s, amount)
      /\ entries' = entries \cup PointsOfRefund(c)
      /\ reservation' = [reservation EXCEPT ![checkout[c].of].payment = "REFUNDED"]
      /\ totalSpent' = SpentAfter(checkout[c].of, checkout') /\ view' = view
  BY ReverseWrites
<1>2. Reverses(c, s)
  BY ReverseReverses
<1>3. TypeOK /\ register[s].status = "OPEN"
  BY <1>1 DEF Usable, CashInv
<1>4. Books(s, "REFUND", amount, c)
  <2> HIDE DEF amount
  <2> QED BY <1>1, <1>3, RecordIsBooks
<1>5. Writes(c, "REFUNDED", PointsOfRefund(c))
  BY <1>1 DEF Writes
<1> QED
  BY <1>2, <1>4, <1>5 DEF GivesBack

\* What the steps of a register alone leave as it is.
LEMMA RegisterShapes ==
    ASSUME CashInv, NEW s \in Sessions, OpenRegister(s) \/ MoveCash(s) \/ CloseRegister(s)
    PROVE  /\ UNCHANGED <<reservation, checkout, entries, totalSpent, view>>
           /\ \/ Opens(s) \/ Closes(s)
              \/ \E kind \in {"IN", "OUT"}, amount \in Nat : Books(s, kind, amount, NoCheckout)
<1>1. TypeOK /\ register \in [Sessions -> Registers] /\ register[s] \in Registers
  BY DEF CashInv, TypeOK
<1>2. CASE OpenRegister(s)
  <2>1. PICK opening \in Openings :
            register' = [register EXCEPT ![s] = [NoRegister EXCEPT !.status = "OPEN",
                            !.day = today, !.opening = opening, !.version = 1]]
    BY <1>2 DEF OpenRegister
  <2> DEFINE row == [NoRegister EXCEPT !.status = "OPEN",
                            !.day = today, !.opening = opening, !.version = 1]
  <2>2. opening \in Nat
    BY CashAssumption
  <2>3. row.status = "OPEN" /\ row.day = today /\ row.opening = opening /\ row.version = 1
    BY DEF NoRegister
  <2> HIDE DEF row
  <2>4. register'[s] = row /\ OnlyRegister(s)
    BY <1>1, <2>1 DEF OnlyRegister, row
  <2>5. Opens(s)
    BY <1>2, <2>2, <2>3, <2>4 DEF Opens, OpenRegister
  <2> QED BY <1>2, <2>5 DEF OpenRegister
<1>3. CASE MoveCash(s)
  <2>1. PICK kind \in {"IN", "OUT"}, amount \in Amounts :
            /\ Record(s, kind, amount, NoCheckout)
            /\ kind = "OUT" => DrawerCovers(s, amount)
    BY <1>3 DEF MoveCash
  <2>2. amount \in Nat /\ register[s].status = "OPEN"
    BY <1>3, CashAssumption DEF MoveCash
  <2>3. Books(s, kind, amount, NoCheckout)
    BY <1>1, <2>1, <2>2, RecordIsBooks
  <2> QED BY <1>3, <2>2, <2>3 DEF MoveCash
<1>4. CASE CloseRegister(s)
  <2> DEFINE old == register[s]
             version == old.version + 1
             report == Report(s)
             row == [old EXCEPT !.status = "CLOSED", !.version = version, !.report = report]
  <2>1. register' = [register EXCEPT ![s].status = "CLOSED", ![s].version = @ + 1,
                                     ![s].report = report]
    BY <1>4 DEF CloseRegister
  <2> HIDE DEF report
  <2>2. register' = [register EXCEPT ![s] = row]
    BY <1>1, <2>1
  <2>3. /\ row.status = "CLOSED" /\ row.version = version /\ row.report = report
        /\ row.day = old.day /\ row.opening = old.opening
    BY <1>1 DEF Registers
  <2> HIDE DEF row, version
  <2>4. register'[s] = row /\ OnlyRegister(s)
    BY <1>1, <2>2 DEF OnlyRegister
  <2>5. Closes(s)
    BY <1>4, <2>3, <2>4 DEF Closes, CloseRegister, report, version
  <2> QED BY <1>4, <2>5 DEF CloseRegister
<1> QED
  BY <1>2, <1>3, <1>4

\* Every step has one of these shapes.
LEMMA StepsAreCashSteps == ASSUME CashInv, [Next]_vars PROVE CashStep
<1>1. ASSUME NEW r \in Reservations, NEW c \in Checkouts, CreateCheckout(r, c) PROVE CashStep
  <2>1. MakesDraft(r, c)
    BY <1>1, CreateMakes
  <2> QED BY <1>1, <2>1 DEF CashStep, CreateCheckout
<1>2. ASSUME NEW k \in Clerks, SaveDraft(k) \/ RefreshDraft(k) PROVE CashStep
  <2> DEFINE c == view[k].id
  <2>1. ChangesDraft(c)
    BY <1>2, SaveChanges, RefreshChanges
  <2>2. UNCHANGED <<reservation, register, movements, entries, totalSpent, view>>
    BY <1>2 DEF SaveDraft, RefreshDraft
  <2> HIDE DEF c
  <2> QED BY <2>1, <2>2 DEF CashStep, ChangesDraft
<1>3. ASSUME NEW k \in Clerks, NEW s \in Sessions, Finalize(k, s) PROVE CashStep
  BY <1>3, FinalizeCollects DEF CashStep
<1>4. ASSUME NEW c \in Checkouts, NEW s \in Sessions, Reverse(c, s) PROVE CashStep
  BY <1>4, ReverseGivesBack DEF CashStep
<1>5. ASSUME NEW k \in Clerks, NEW c \in Checkouts, Load(k, c) PROVE CashStep
  <2>1. UNCHANGED <<register, movements>>
    BY <1>5 DEF Load
  <2> QED BY <1>5, <2>1 DEF CashStep, DeskStep
<1>6. ASSUME NEW s \in Sessions, OpenRegister(s) \/ MoveCash(s) \/ CloseRegister(s) PROVE CashStep
  BY <1>6, RegisterShapes DEF CashStep, RegisterStep
<1>7. ASSUME NEW r \in Reservations, EditReservation(r) \/ ChangeStatus(r) PROVE CashStep
  <2>1. UNCHANGED <<register, movements>>
    BY <1>7 DEF EditReservation, ChangeStatus
  <2> QED BY <1>7, <2>1 DEF CashStep, DeskStep
<1>8. CASE NextDay \/ UNCHANGED vars
  BY <1>8 DEF CashStep, DeskStep, NextDay, vars
<1> QED
  BY <1>1, <1>2, <1>3, <1>4, <1>5, <1>6, <1>7, <1>8 DEF Next

-----------------------------------------------------------------------------
(* The strengthening                                                        *)

\* Registers that were opened stay so, on their day, and their versions grow.
LEMMA RegistersGrow ==
    ASSUME TypeOK, CashStep, NEW s \in Sessions
    PROVE  /\ register[s].status # "NONE" =>
                 register'[s].status # "NONE" /\ register'[s].day = register[s].day
           /\ register[s].status # "NONE" => register'[s].version >= register[s].version
<1>1. register[s].version \in Nat
  BY DEF TypeOK, Registers
<1>2. ASSUME NEW t \in Sessions, NEW kind, NEW amount, NEW c, Books(t, kind, amount, c)
      PROVE  /\ register[s].status # "NONE" =>
                   register'[s].status # "NONE" /\ register'[s].day = register[s].day
             /\ register'[s].version >= register[s].version
  BY <1>1, <1>2 DEF Books, OnlyRegister
<1>3. ASSUME NEW t \in Sessions, Opens(t) \/ Closes(t)
      PROVE  /\ register[s].status # "NONE" =>
                   register'[s].status # "NONE" /\ register'[s].day = register[s].day
             /\ register[s].status # "NONE" => register'[s].version >= register[s].version
  BY <1>1, <1>3 DEF Opens, Closes, OnlyRegister
<1>4. CASE register' = register
  BY <1>1, <1>4
<1> QED
  BY <1>2, <1>3, <1>4 DEF CashStep, Collects, GivesBack, RegisterStep

\* Besides making, changing, finalizing and reversing one, nothing touches a checkout.
LEMMA CashStepRows ==
    ASSUME CashStep
    PROVE  \/ \E r \in Reservations, c \in Checkouts : MakesDraft(r, c)
           \/ \E c \in Checkouts : ChangesDraft(c)
           \/ \E c \in Checkouts, s \in Sessions : Collects(c, s) \/ GivesBack(c, s)
           \/ UNCHANGED checkout
<1>1. ASSUME DeskStep PROVE checkout' = checkout
  BY <1>1 DEF DeskStep, Load, EditReservation, ChangeStatus
<1> QED
  BY <1>1 DEF CashStep

\* A checkout goes on naming registers that were opened.
LEMMA RegistersNamedStep == ASSUME CashInv, CashStep PROVE RegistersNamed'
<1> DEFINE Named(c) ==
        /\ checkout'[c].status = "NONE" => checkout'[c] = NoRow
        /\ checkout'[c].finalizedIn # NoSession <=> checkout'[c].status \in {"FINALIZED", "REVERSED"}
        /\ checkout'[c].reversedIn # NoSession <=> checkout'[c].status = "REVERSED"
        /\ checkout'[c].finalizedIn # NoSession => register'[checkout'[c].finalizedIn].status # "NONE"
        /\ checkout'[c].reversedIn # NoSession => register'[checkout'[c].reversedIn].status # "NONE"
<1>1. TypeOK /\ RegistersNamed
  BY DEF CashInv
<1>2. ASSUME NEW c \in Checkouts
      PROVE  /\ checkout[c].finalizedIn \in Sessions \cup {NoSession}
             /\ checkout[c].reversedIn \in Sessions \cup {NoSession}
  BY <1>1 DEF TypeOK, Rows
<1>3. ASSUME NEW c \in Checkouts, checkout'[c] = checkout[c] PROVE Named(c)
  <2>1. /\ checkout[c].finalizedIn # NoSession =>
               register'[checkout[c].finalizedIn].status # "NONE"
        /\ checkout[c].reversedIn # NoSession =>
               register'[checkout[c].reversedIn].status # "NONE"
    BY <1>1, <1>2, RegistersGrow DEF RegistersNamed
  <2> QED BY <1>1, <1>3, <2>1 DEF RegistersNamed
<1>4. ASSUME NEW r \in Reservations, NEW c \in Checkouts, MakesDraft(r, c)
      PROVE  \A d \in Checkouts : Named(d)
  <2>1. Named(c)
    BY <1>4 DEF MakesDraft
  <2>2. \A d \in Checkouts \ {c} : checkout'[d] = checkout[d]
    BY <1>4 DEF MakesDraft, OnlyRow
  <2> HIDE DEF Named
  <2> QED BY <1>3, <2>1, <2>2
<1>5. ASSUME NEW c \in Checkouts, ChangesDraft(c)
      PROVE  \A d \in Checkouts : Named(d)
  <2>1. Named(c)
    BY <1>1, <1>5 DEF ChangesDraft, RegistersNamed
  <2>2. \A d \in Checkouts \ {c} : checkout'[d] = checkout[d]
    BY <1>5 DEF ChangesDraft, OnlyRow
  <2> HIDE DEF Named
  <2> QED BY <1>3, <2>1, <2>2
<1>6. ASSUME NEW c \in Checkouts, NEW s \in Sessions, Collects(c, s)
      PROVE  \A d \in Checkouts : Named(d)
  <2>1. register'[s].status # "NONE" /\ s # NoSession
    BY <1>6, CashAssumption DEF Collects, Books
  <2>2. Named(c)
    BY <1>1, <1>6, <2>1 DEF Collects, Finalizes, RegistersNamed
  <2>3. \A d \in Checkouts \ {c} : checkout'[d] = checkout[d]
    BY <1>6 DEF Collects, Finalizes, OnlyRow
  <2> HIDE DEF Named
  <2> QED BY <1>3, <2>2, <2>3
<1>7. ASSUME NEW c \in Checkouts, NEW s \in Sessions, GivesBack(c, s)
      PROVE  \A d \in Checkouts : Named(d)
  <2>1. register'[s].status # "NONE" /\ s # NoSession
    BY <1>7, CashAssumption DEF GivesBack, Books
  <2>2. checkout[c].finalizedIn # NoSession =>
               register'[checkout[c].finalizedIn].status # "NONE"
    BY <1>1, <1>2, RegistersGrow DEF RegistersNamed
  <2>3. Named(c)
    BY <1>1, <1>7, <2>1, <2>2 DEF GivesBack, Reverses, RegistersNamed
  <2>4. \A d \in Checkouts \ {c} : checkout'[d] = checkout[d]
    BY <1>7 DEF GivesBack, Reverses, OnlyRow
  <2> HIDE DEF Named
  <2> QED BY <1>3, <2>3, <2>4
<1>8. ASSUME UNCHANGED checkout PROVE \A d \in Checkouts : Named(d)
  <2> HIDE DEF Named
  <2> QED BY <1>3, <1>8
<1>9. \A d \in Checkouts : Named(d)
  <2> HIDE DEF Named
  <2> QED BY <1>4, <1>5, <1>6, <1>7, <1>8, CashStepRows
<1> QED
  BY <1>9 DEF RegistersNamed

\* The checkouts there are: one more when one is made, else the same.
LEMMA ExistingGrows ==
    ASSUME CashStep
    PROVE  /\ \A r \in Reservations, c \in Checkouts : MakesDraft(r, c) =>
                 c \notin Existing /\ Existing' = Existing \cup {c}
           /\ (\A r \in Reservations, c \in Checkouts : ~MakesDraft(r, c)) => Existing' = Existing
<1>1. ASSUME NEW r \in Reservations, NEW c \in Checkouts, MakesDraft(r, c)
      PROVE  c \notin Existing /\ Existing' = Existing \cup {c}
  BY <1>1 DEF MakesDraft, OnlyRow, Existing
<1>2. ASSUME NEW c \in Checkouts, ChangesDraft(c) PROVE Existing' = Existing
  BY <1>2 DEF ChangesDraft, OnlyRow, Existing
<1>3. ASSUME NEW c \in Checkouts, NEW s \in Sessions, Collects(c, s) \/ GivesBack(c, s)
      PROVE  Existing' = Existing
  BY <1>3 DEF Collects, GivesBack, Finalizes, Reverses, OnlyRow, Existing
<1>4. ASSUME UNCHANGED checkout PROVE Existing' = Existing
  BY <1>4 DEF Existing
<1>5. (\A r \in Reservations, c \in Checkouts : ~MakesDraft(r, c)) => Existing' = Existing
  BY <1>2, <1>3, <1>4, CashStepRows
<1> QED
  BY <1>1, <1>5

\* A row that is not the one being made keeps where it comes from.
LEMMA OriginsStay ==
    ASSUME CashStep, NEW c \in Existing
    PROVE  /\ checkout'[c].of = checkout[c].of /\ checkout'[c].previous = checkout[c].previous
           /\ checkout'[c].age = checkout[c].age /\ checkout'[c].createdBy = checkout[c].createdBy
           /\ checkout[c].status = "REVERSED" => checkout'[c].status = "REVERSED"
           /\ checkout[c].status # "NONE" /\ checkout'[c].status # "NONE"
<1>1. c \in Checkouts /\ checkout[c].status # "NONE"
  BY DEF Existing
<1>2. ASSUME NEW r \in Reservations, NEW d \in Checkouts, MakesDraft(r, d)
      PROVE  checkout'[c] = checkout[c]
  BY <1>1, <1>2 DEF MakesDraft, OnlyRow
<1>3. ASSUME NEW d \in Checkouts, ChangesDraft(d)
      PROVE  checkout'[c] = checkout[c] \/ c = d
  BY <1>1, <1>3 DEF ChangesDraft, OnlyRow
<1>4. ASSUME NEW d \in Checkouts, NEW s \in Sessions, Collects(d, s) \/ GivesBack(d, s)
      PROVE  checkout'[c] = checkout[c] \/ c = d
  BY <1>1, <1>4 DEF Collects, GivesBack, Finalizes, Reverses, OnlyRow
<1>5. CASE checkout'[c] = checkout[c]
  BY <1>1, <1>5
<1>6. CASE ChangesDraft(c)
  BY <1>1, <1>6 DEF ChangesDraft, SameOrigin
<1>7. ASSUME NEW s \in Sessions, Collects(c, s) \/ GivesBack(c, s)
      PROVE  /\ SameOrigin(c) /\ checkout[c].status # "REVERSED" /\ checkout'[c].status # "NONE"
  BY <1>7 DEF Collects, GivesBack, Finalizes, Reverses
<1>8. CASE \E s \in Sessions : Collects(c, s) \/ GivesBack(c, s)
  BY <1>1, <1>7, <1>8 DEF SameOrigin
<1> QED
  BY <1>2, <1>3, <1>4, <1>5, <1>6, <1>8, CashStepRows

\* The ages of the checkouts go on counting them.
LEMMA AgesCountStep == ASSUME CashInv, CashStep PROVE AgesCount'
<1>1. TypeOK /\ AgesCount /\ Cardinality(Existing) \in Nat /\ IsFiniteSet(Existing)
  BY AgeTyped DEF CashInv
<1>2. ASSUME NEW c \in Existing PROVE checkout[c].age \in Nat /\ checkout[c].age < Cardinality(Existing)
  BY <1>1 DEF TypeOK, Rows, Existing, AgesCount
<1>3. ASSUME NEW r \in Reservations, NEW c \in Checkouts, MakesDraft(r, c) PROVE AgesCount'
  <2>1. c \notin Existing /\ Existing' = Existing \cup {c}
    BY <1>3, ExistingGrows
  <2>2. Cardinality(Existing') = Cardinality(Existing) + 1
    BY <1>1, <2>1, FS_AddElement
  <2>3. checkout'[c].age = Cardinality(Existing)
    BY <1>3 DEF MakesDraft
  <2>4. \A d \in Existing : checkout'[d].age = checkout[d].age
    BY OriginsStay
  <2> QED BY <1>1, <1>2, <2>1, <2>2, <2>3, <2>4 DEF AgesCount
<1>4. CASE \A r \in Reservations, c \in Checkouts : ~MakesDraft(r, c)
  <2>1. Existing' = Existing
    BY <1>4, ExistingGrows
  <2>2. \A d \in Existing : checkout'[d].age = checkout[d].age
    BY OriginsStay
  <2> QED BY <1>1, <2>1, <2>2 DEF AgesCount
<1> QED
  BY <1>3, <1>4

\* What is booked was booked before, or is the movement of this step.
LEMMA MovementsGrow ==
    ASSUME CashStep
    PROVE  \/ movements' = movements
           \/ \E s \in Sessions, kind \in {"IN", "OUT", "SALE", "REFUND"}, amount \in Nat,
                 c \in Checkouts \cup {NoCheckout} :
                 /\ Books(s, kind, amount, c) /\ amount > 0
                 /\ movements' = movements \cup {Booked(s, kind, amount, c)}
<1>1. ASSUME NEW s \in Sessions, NEW kind \in {"IN", "OUT", "SALE", "REFUND"}, NEW amount,
             NEW c \in Checkouts \cup {NoCheckout}, Books(s, kind, amount, c)
      PROVE  \/ movements' = movements
             \/ amount \in Nat /\ amount > 0 /\ movements' = movements \cup {Booked(s, kind, amount, c)}
  BY <1>1 DEF Books
<1>2. ASSUME NEW s, Opens(s) \/ Closes(s) PROVE movements' = movements
  BY <1>2 DEF Opens, Closes
<1> QED
  BY <1>1, <1>2 DEF CashStep, Collects, GivesBack, RegisterStep

\* A movement goes on having the version that booked it.
LEMMA MovementsNumberedStep == ASSUME CashInv, TypeOK', CashStep PROVE MovementsNumbered'
<1>1. TypeOK /\ MovementsNumbered
  BY DEF CashInv
<1>2. ASSUME NEW m \in movements
      PROVE  m.number < register'[m.session].version /\ register'[m.session].status # "NONE"
  <2>1. m.session \in Sessions /\ m.number \in Nat
    BY <1>1 DEF TypeOK, MovementRows
  <2>2. m.number < register[m.session].version /\ register[m.session].status # "NONE"
    BY <1>1 DEF MovementsNumbered
  <2>3. register'[m.session].status # "NONE" /\ register'[m.session].version >= register[m.session].version
    BY <1>1, <2>1, <2>2, RegistersGrow
  <2>4. register[m.session].version \in Nat
    BY <1>1, <2>1 DEF TypeOK, Registers
  <2>5. register'[m.session].version \in Nat
    BY <2>1 DEF TypeOK, Registers
  <2> QED BY <2>1, <2>2, <2>3, <2>4, <2>5
<1>3. CASE movements' = movements
  BY <1>2, <1>3 DEF MovementsNumbered
<1>4. ASSUME NEW s \in Sessions, NEW kind, NEW amount, NEW c, Books(s, kind, amount, c),
             movements' = movements \cup {Booked(s, kind, amount, c)}
      PROVE  MovementsNumbered'
  <2> DEFINE m == Booked(s, kind, amount, c)
  <2>1. m.number = register[s].version /\ m.session = s
    BY DEF Booked
  <2>2. register'[s].version = register[s].version + 1 /\ register'[s].status # "NONE"
    BY <1>4 DEF Books
  <2>3. register[s].version \in Nat
    BY <1>1 DEF TypeOK, Registers
  <2>4. m.number < register'[m.session].version /\ register'[m.session].status # "NONE"
    BY <2>1, <2>2, <2>3
  <2> HIDE DEF m
  <2> QED BY <1>2, <1>4, <2>4 DEF MovementsNumbered, m
<1> QED
  BY <1>3, <1>4, MovementsGrow

\* One step books one movement and a few entries.
LEMMA BooksFiniteStep == ASSUME CashInv, CashStep PROVE BooksFinite'
<1>1. TypeOK /\ IsFiniteSet(movements) /\ IsFiniteSet(entries)
  BY DEF CashInv, BooksFinite
<1>2. IsFiniteSet(movements')
  BY <1>1, MovementsGrow, FS_AddElement
<1>3. ASSUME NEW c \in Checkouts, NEW s \in Sessions, Collects(c, s) PROVE IsFiniteSet(entries')
  <2>1. c \in Existing /\ entries' = entries \cup PointsOfSale(c, checkout[c].draft)
    BY <1>3 DEF Collects, Writes
  <2>2. IsFiniteSet(PointsOfSale(c, checkout[c].draft))
    BY <1>1, <2>1, SaleTyped
  <2> QED BY <1>1, <2>1, <2>2, FS_Union
<1>4. ASSUME NEW c \in Checkouts, NEW s \in Sessions, GivesBack(c, s) PROVE IsFiniteSet(entries')
  <2>1. /\ c \in Existing /\ checkout[c].status = "FINALIZED"
        /\ entries' = entries \cup PointsOfRefund(c)
    BY <1>4 DEF GivesBack, Writes, Reverses
  <2>2. IsFiniteSet(PointsOfRefund(c))
    BY <1>1, <2>1, SaleTyped, RefundIsSaleUndone
  <2> QED BY <1>1, <2>1, <2>2, FS_Union
<1>5. ASSUME DeskStep PROVE entries' = entries
  BY <1>5 DEF DeskStep, Load, EditReservation, ChangeStatus
<1>6. IsFiniteSet(entries')
  BY <1>1, <1>3, <1>4, <1>5 DEF CashStep
<1> QED
  BY <1>2, <1>6 DEF BooksFinite

\* A new version is a greater version, so a screen that is behind stays behind.
LEMMA ViewsCurrentStep == ASSUME CashInv, CashStep PROVE ViewsCurrent'
<1>1. TypeOK /\ ViewsCurrent
  BY DEF CashInv
<1> DEFINE Current(k) == view[k] # NoView =>
        LET c == view[k].id IN
        /\ c \in Existing
        /\ view[k].row.version <= checkout'[c].version
        /\ view[k].row.version = checkout'[c].version =>
              /\ view[k].row.draft = checkout'[c].draft
              /\ view[k].row.context = checkout'[c].context
<1>2. Existing \subseteq Existing'
  BY OriginsStay DEF Existing
<1>3. ASSUME NEW k \in Clerks, view[k] # NoView
      PROVE  /\ view[k].id \in Existing /\ view[k].id \in Checkouts
             /\ view[k].row.version \in Nat /\ checkout[view[k].id].version \in Nat
             /\ view[k].row.version <= checkout[view[k].id].version
             /\ view[k].row.version = checkout[view[k].id].version =>
                   /\ view[k].row.draft = checkout[view[k].id].draft
                   /\ view[k].row.context = checkout[view[k].id].context
  BY <1>1, <1>3 DEF ViewsCurrent, TypeOK, Rows, Existing
<1>4. ASSUME NEW c \in Checkouts, OnlyRow(c), checkout[c].version \in Nat,
             checkout'[c].version = checkout[c].version + 1, NEW k \in Clerks
      PROVE  Current(k)
  BY <1>3, <1>4 DEF OnlyRow
<1>5. ASSUME NEW r \in Reservations, NEW c \in Checkouts, MakesDraft(r, c), NEW k \in Clerks
      PROVE  Current(k)
  <2>1. c \notin Existing /\ OnlyRow(c)
    BY <1>5, ExistingGrows DEF MakesDraft
  <2> QED BY <1>3, <2>1 DEF OnlyRow
<1>6. \A c \in Checkouts : checkout[c].version \in Nat
  BY <1>1 DEF TypeOK, Rows
<1>7. ASSUME NEW c \in Checkouts, ChangesDraft(c), NEW k \in Clerks PROVE Current(k)
  <2>1. OnlyRow(c) /\ checkout'[c].version = checkout[c].version + 1
    BY <1>7 DEF ChangesDraft, SameOrigin
  <2> HIDE DEF Current
  <2> QED BY <1>4, <1>6, <2>1
<1>8. ASSUME NEW c \in Checkouts, NEW s \in Sessions, Collects(c, s) \/ GivesBack(c, s),
             NEW k \in Clerks
      PROVE  Current(k)
  <2>1. OnlyRow(c) /\ checkout'[c].version = checkout[c].version + 1
    BY <1>8 DEF Collects, GivesBack, Finalizes, Reverses, SameOrigin
  <2> HIDE DEF Current
  <2> QED BY <1>4, <1>6, <2>1
<1>9. ASSUME UNCHANGED checkout, NEW k \in Clerks PROVE Current(k)
  BY <1>3, <1>9
<1>10. \A k \in Clerks : Current(k)
  <2> HIDE DEF Current
  <2> QED BY <1>5, <1>7, <1>8, <1>9, CashStepRows
<1>11. ASSUME NEW l \in Clerks, NEW c \in Checkouts, Load(l, c) PROVE ViewsCurrent'
  <2>1. checkout[c].status # "NONE" /\ checkout' = checkout
    BY <1>11 DEF Load
  <2>2. view' = [view EXCEPT ![l] = [id |-> c, row |-> checkout[c]]]
    BY <1>11 DEF Load
  <2>3. c \in Existing /\ checkout[c].version <= checkout[c].version
    BY <1>6, <2>1 DEF Existing
  <2>4. view'[l] = [id |-> c, row |-> checkout[c]] /\ \A k \in Clerks \ {l} : view'[k] = view[k]
    BY <1>1, <2>2 DEF TypeOK
  <2> DEFINE Right(k) == view'[k] # NoView =>
        LET d == view'[k].id IN
        /\ d \in Existing'
        /\ view'[k].row.version <= checkout'[d].version
        /\ view'[k].row.version = checkout'[d].version =>
              /\ view'[k].row.draft = checkout'[d].draft
              /\ view'[k].row.context = checkout'[d].context
  <2>5. Right(l)
    BY <1>2, <2>1, <2>3, <2>4
  <2>6. ASSUME NEW k \in Clerks \ {l} PROVE Right(k)
    <3>1. view'[k] = view[k] /\ Current(k)
      BY <1>10, <2>4
    <3> QED BY <1>2, <3>1
  <2>7. \A k \in Clerks : Right(k)
    <3> HIDE DEF Right
    <3> QED BY <2>5, <2>6
  <2> QED BY <2>7 DEF ViewsCurrent
<1>12. CASE UNCHANGED view
  BY <1>2, <1>10, <1>12 DEF ViewsCurrent
<1>13. ASSUME DeskStep PROVE ViewsCurrent'
  BY <1>11, <1>12, <1>13 DEF DeskStep, EditReservation, ChangeStatus
<1> QED
  BY <1>12, <1>13 DEF CashStep, Collects, GivesBack, Writes

\* The entries of the other checkouts stay, and those of a draft are none.
LEMMA EntriesKnownStep == ASSUME CashInv, CashStep PROVE EntriesKnown'
<1>1. TypeOK /\ EntriesKnown
  BY DEF CashInv
<1> DEFINE Of(es, c) == {e \in es : e.checkout = c}
           Known(c) ==
             LET mine == Of(entries', c)
                 sold == PointsOfSale(c, checkout'[c].draft)
             IN /\ checkout'[c].status \in {"NONE", "DRAFT"} => mine = {}
                /\ checkout'[c].status = "FINALIZED" => mine = sold
                /\ checkout'[c].status = "REVERSED" => mine = sold \cup Undone(sold)
<1>2. ASSUME NEW c \in Checkouts, Of(entries', c) = Of(entries, c),
             \/ checkout'[c] = checkout[c]
             \/ /\ checkout[c].status \in {"NONE", "DRAFT"}
                /\ checkout'[c].status = "DRAFT"
      PROVE  Known(c)
  BY <1>1, <1>2 DEF EntriesKnown
<1>3. ASSUME NEW c \in Existing, NEW s \in Sessions, Collects(c, s)
      PROVE  \A d \in Checkouts : Known(d)
  <2> DEFINE sold == PointsOfSale(c, checkout[c].draft)
  <2>1. /\ entries' = entries \cup sold /\ checkout[c].status = "DRAFT"
        /\ checkout'[c].status = "FINALIZED" /\ checkout'[c].draft = checkout[c].draft
        /\ \A d \in Checkouts \ {c} : checkout'[d] = checkout[d]
    BY <1>3 DEF Collects, Writes, Finalizes, SameSale, OnlyRow
  <2>2. \A e \in sold : e.checkout = c
    BY <1>1, SaleTyped
  <2>3. Of(entries, c) = {}
    BY <1>1, <2>1 DEF EntriesKnown, Existing
  <2>4. Of(entries', c) = sold /\ \A d \in Checkouts \ {c} : Of(entries', d) = Of(entries, d)
    <3> HIDE DEF sold
    <3> QED BY <2>1, <2>2, <2>3
  <2>5. Known(c)
    BY <2>1, <2>4
  <2> HIDE DEF Known, Of
  <2> QED BY <1>2, <2>1, <2>4, <2>5
<1>4. ASSUME NEW c \in Existing, NEW s \in Sessions, GivesBack(c, s)
      PROVE  \A d \in Checkouts : Known(d)
  <2> DEFINE sold == PointsOfSale(c, checkout[c].draft)
  <2>1. /\ entries' = entries \cup Undone(sold) /\ checkout[c].status = "FINALIZED"
        /\ checkout'[c].status = "REVERSED" /\ checkout'[c].draft = checkout[c].draft
        /\ \A d \in Checkouts \ {c} : checkout'[d] = checkout[d]
    BY <1>4, RefundIsSaleUndone DEF GivesBack, Writes, Reverses, SameSale, OnlyRow
  <2>2. \A e \in Undone(sold) : e.checkout = c
    BY <1>1, SaleTyped
  <2>3. Of(entries, c) = sold
    BY <1>1, <2>1 DEF EntriesKnown, Existing
  <2>4. /\ Of(entries', c) = sold \cup Undone(sold)
        /\ \A d \in Checkouts \ {c} : Of(entries', d) = Of(entries, d)
    <3> DEFINE back == Undone(sold)
    <3> HIDE DEF sold, back
    <3> QED BY <2>1, <2>2, <2>3 DEF back
  <2>5. Known(c)
    BY <2>1, <2>4
  <2> HIDE DEF Known, Of
  <2> QED BY <1>2, <2>1, <2>4, <2>5
<1>5. ASSUME NEW c \in Checkouts, entries' = entries, OnlyRow(c), checkout'[c].status = "DRAFT",
             checkout[c].status \in {"NONE", "DRAFT"}
      PROVE  \A d \in Checkouts : Known(d)
  <2> HIDE DEF Known
  <2> QED BY <1>2, <1>5 DEF OnlyRow
<1>6. ASSUME entries' = entries, UNCHANGED checkout PROVE \A d \in Checkouts : Known(d)
  <2> HIDE DEF Known
  <2> QED BY <1>2, <1>6
<1>7. ASSUME DeskStep PROVE entries' = entries /\ UNCHANGED checkout
  BY <1>7 DEF DeskStep, Load, EditReservation, ChangeStatus
<1>8. \A d \in Checkouts : Known(d)
  <2> HIDE DEF Known
  <2> QED BY <1>3, <1>4, <1>5, <1>6, <1>7
          DEF CashStep, MakesDraft, ChangesDraft, Collects, GivesBack, Writes
<1> QED
  BY <1>8 DEF EntriesKnown

-----------------------------------------------------------------------------
(* The checkouts                                                            *)

\* One request key makes one checkout.
LEMMA OneCheckoutPerRequestStep == ASSUME CashInv, CashStep PROVE OneCheckoutPerRequest'
<1>1. OneCheckoutPerRequest
  BY DEF CashInv, CheckoutsAreSound
<1>2. \A c \in Existing : checkout'[c].createdBy = checkout[c].createdBy
  BY OriginsStay
<1>3. ASSUME NEW r \in Reservations, NEW c \in Checkouts, MakesDraft(r, c)
      PROVE  OneCheckoutPerRequest'
  <2>1. Existing' = Existing \cup {c}
    BY <1>3, ExistingGrows
  <2>2. \A d \in Existing : checkout[d].createdBy # checkout'[c].createdBy
    BY <1>3 DEF MakesDraft, UnseenRequest, Existing
  <2> QED BY <1>1, <1>2, <2>1, <2>2 DEF OneCheckoutPerRequest
<1>4. CASE \A r \in Reservations, c \in Checkouts : ~MakesDraft(r, c)
  <2>1. Existing' = Existing
    BY <1>4, ExistingGrows
  <2> QED BY <1>1, <1>2, <2>1 DEF OneCheckoutPerRequest
<1> QED
  BY <1>3, <1>4

\* A checkout is live or reversed ...
LEMMA LiveIs ==
    ASSUME NEW r, NEW c
    PROVE  /\ c \in LiveOf(r) <=> c \in Existing /\ checkout[c].of = r /\ checkout[c].status # "REVERSED"
           /\ c \in ReversedOf(r) <=> c \in Existing /\ checkout[c].of = r /\ checkout[c].status = "REVERSED"
  BY DEF LiveOf, ReversedOf, CheckoutsOf

\* ... also after the step.
LEMMA LiveIsNext ==
    ASSUME NEW r, NEW c
    PROVE  c \in LiveOf(r)' <=> c \in Existing' /\ checkout'[c].of = r /\ checkout'[c].status # "REVERSED"
  BY DEF LiveOf, ReversedOf, CheckoutsOf

\* A correction supersedes the latest of the reversed checkouts.  If another one did
\* too, that one would be younger, so it would be live: but then none is made.
LEMMA OneLiveCheckoutStep == ASSUME CashInv, CashStep PROVE OneLiveCheckout'
<1>1. TypeOK /\ OneLiveCheckout
  BY DEF CashInv, CheckoutsAreSound
<1> DEFINE Chained(c) == checkout'[c].previous # NoCheckout =>
          LET p == checkout'[c].previous IN
          /\ checkout'[p].status = "REVERSED" /\ checkout'[p].of = checkout'[c].of
          /\ checkout'[p].age < checkout'[c].age
<1>2. ASSUME NEW c \in Existing, checkout[c].previous # NoCheckout
      PROVE  LET p == checkout[c].previous IN
             /\ p \in Existing
             /\ checkout[p].status = "REVERSED" /\ checkout[p].of = checkout[c].of
             /\ checkout[p].age < checkout[c].age
             /\ \A d \in Existing : checkout[d].previous = p => d = c
  BY <1>1, <1>2 DEF OneLiveCheckout, TypeOK, Rows, Existing
<1>3. ASSUME NEW c \in Existing
      PROVE  Chained(c)
  BY <1>2, OriginsStay
<1>4. ASSUME NEW r \in Reservations, NEW c \in Checkouts, MakesDraft(r, c)
      PROVE  OneLiveCheckout'
  <2>1. c \notin Existing /\ Existing' = Existing \cup {c}
    BY <1>4, ExistingGrows
  <2> DEFINE p == checkout'[c].previous
  <2>2. /\ checkout'[c].of = r /\ p \in ReversedOf(r) \cup {NoCheckout}
        /\ \A d \in ReversedOf(r) : checkout[d].age <= checkout[p].age
        /\ LiveOf(r) = {} /\ checkout'[c].age = Cardinality(Existing)
    BY <1>4 DEF MakesDraft, NoLiveCheckout
  <2>3. \A d \in Existing : checkout'[d].of = r => checkout'[d].status = "REVERSED"
    <3>1. ASSUME NEW d \in Existing, checkout'[d].of = r PROVE checkout'[d].status = "REVERSED"
      <4>1. checkout[d].of = r
        BY <3>1, OriginsStay
      <4>2. checkout[d].status = "REVERSED"
        BY <2>2, <4>1, LiveIs
      <4> QED BY <4>2, OriginsStay
    <3> QED BY <3>1
  <2>4. ASSUME NEW q \in Reservations, NEW d \in LiveOf(q)', NEW e \in LiveOf(q)' PROVE d = e
    <3>1. /\ d \in Existing' /\ checkout'[d].of = q /\ checkout'[d].status # "REVERSED"
          /\ e \in Existing' /\ checkout'[e].of = q /\ checkout'[e].status # "REVERSED"
      BY LiveIsNext
    <3>2. CASE q = r
      BY <2>1, <2>3, <3>1, <3>2
    <3>3. CASE q # r
      <4>1. d \in Existing /\ e \in Existing
        BY <2>1, <2>2, <3>1, <3>3
      <4>2. d \in LiveOf(q) /\ e \in LiveOf(q)
        BY <3>1, <4>1, OriginsStay, LiveIs
      <4> QED BY <1>1, <4>2 DEF OneLiveCheckout
    <3> QED BY <3>2, <3>3
  <2>5. ASSUME p # NoCheckout
        PROVE  /\ Chained(c) /\ p \in Existing /\ checkout[p].of = r
               /\ \A d \in Existing : checkout'[d].previous # p
    <3>1. p \in Existing /\ checkout[p].of = r /\ checkout[p].status = "REVERSED"
      BY <2>2, <2>5, LiveIs
    <3>2. checkout[p].age < Cardinality(Existing)
      BY <3>1 DEF CashInv, AgesCount
    <3>3. Chained(c)
      BY <2>2, <3>1, <3>2, OriginsStay
    <3>4. ASSUME NEW d \in Existing, checkout'[d].previous = p PROVE FALSE
      <4>1. checkout[d].previous = p
        BY <3>4, OriginsStay
      <4>2. checkout[p].of = checkout[d].of /\ checkout[p].age < checkout[d].age
        BY <1>2, <2>5, <4>1
      <4>3. d \in ReversedOf(r)
        BY <2>2, <3>1, <4>2, LiveIs
      <4>4. checkout[d].age <= checkout[p].age
        BY <2>2, <4>3
      <4>5. checkout[d].age \in Nat /\ checkout[p].age \in Nat
        BY <1>1, <3>1 DEF TypeOK, Rows, Existing
      <4> QED BY <4>2, <4>4, <4>5
    <3> HIDE DEF p
    <3> QED BY <3>1, <3>3, <3>4
  <2>6. ASSUME NEW d \in Existing', checkout'[d].previous # NoCheckout
        PROVE  /\ Chained(d)
               /\ \A e \in Existing' : checkout'[e].previous = checkout'[d].previous => e = d
    <3>1. CASE d = c
      <4> HIDE DEF Chained
      <4> QED BY <2>1, <2>5, <2>6, <3>1
    <3>2. CASE d # c
      <4>1. d \in Existing /\ Chained(d)
        BY <1>3, <2>1, <3>2
      <4>2. ASSUME NEW e \in Existing, checkout'[e].previous = checkout'[d].previous PROVE e = d
        BY <1>2, <2>6, <4>1, <4>2, OriginsStay
      <4>3. checkout'[c].previous # checkout'[d].previous
        BY <2>5, <2>6, <4>1
      <4> HIDE DEF Chained
      <4> QED BY <2>1, <4>1, <4>2, <4>3
    <3> QED BY <3>1, <3>2
  <2> QED BY <2>4, <2>6 DEF OneLiveCheckout
<1>5. CASE \A r \in Reservations, c \in Checkouts : ~MakesDraft(r, c)
  <2>1. Existing' = Existing
    BY <1>5, ExistingGrows
  <2>2. ASSUME NEW r \in Reservations, NEW c \in LiveOf(r)' PROVE c \in LiveOf(r)
    BY <2>1, <2>2, LiveIs, LiveIsNext, OriginsStay
  <2>3. ASSUME NEW c \in Existing, checkout'[c].previous # NoCheckout,
               NEW d \in Existing, checkout'[d].previous = checkout'[c].previous
        PROVE  d = c
    BY <1>2, <2>3, OriginsStay
  <2>4. \A r \in Reservations : \A c, d \in LiveOf(r)' : c = d
    BY <1>1, <2>2 DEF OneLiveCheckout
  <2> QED BY <1>3, <2>1, <2>3, <2>4 DEF OneLiveCheckout
<1> QED
  BY <1>4, <1>5

\* The reservations with a finalized checkout: one joins with its sale, and leaves with
\* the reversal, there being no other live checkout of it.
LEMMA SettledMoves ==
    ASSUME CashInv, CashStep
    PROVE  /\ \A c \in Checkouts, s \in Sessions : Collects(c, s) =>
                 /\ Finalized' = Finalized \cup {c} /\ Settled' = Settled \cup {checkout[c].of}
                 /\ checkout[c].of \notin Settled
           /\ \A c \in Checkouts, s \in Sessions : GivesBack(c, s) =>
                 /\ Finalized' = Finalized \ {c} /\ Settled' = Settled \ {checkout[c].of}
                 /\ checkout[c].of \in Settled
           /\ (\A c \in Checkouts, s \in Sessions : ~Collects(c, s) /\ ~GivesBack(c, s)) =>
                 Finalized' = Finalized /\ Settled' = Settled
<1>1. TypeOK /\ \A c, d \in Existing : /\ checkout[c].of = checkout[d].of
                                        /\ checkout[c].status # "REVERSED"
                                        /\ checkout[d].status # "REVERSED" => c = d
  <2>1. \A r \in Reservations : \A c, d \in LiveOf(r) : c = d
    BY DEF CashInv, CheckoutsAreSound, OneLiveCheckout
  <2>2. TypeOK
    BY DEF CashInv
  <2>3. ASSUME NEW c \in Existing, NEW d \in Existing, checkout[c].of = checkout[d].of,
               checkout[c].status # "REVERSED", checkout[d].status # "REVERSED"
        PROVE  c = d
    <3>1. checkout[c].of \in Reservations
      BY <2>2, ExistingTyped
    <3>2. c \in LiveOf(checkout[c].of) /\ d \in LiveOf(checkout[c].of)
      BY <2>3, LiveIs
    <3> QED BY <2>1, <3>1, <3>2
  <2> QED BY <2>2, <2>3
<1>2. ASSUME NEW c \in Checkouts, NEW s \in Sessions, Collects(c, s)
      PROVE  /\ Finalized' = Finalized \cup {c} /\ Settled' = Settled \cup {checkout[c].of}
             /\ checkout[c].of \notin Settled
  <2>1. /\ checkout[c].status = "DRAFT" /\ checkout'[c].status = "FINALIZED"
        /\ checkout'[c].of = checkout[c].of /\ OnlyRow(c)
    BY <1>2 DEF Collects, Finalizes, SameOrigin
  <2>2. Finalized' = Finalized \cup {c}
    BY <2>1 DEF Finalized, OnlyRow
  <2>3. \A d \in Checkouts : checkout'[d].of = checkout[d].of
    BY <2>1 DEF OnlyRow
  <2>4. Settled' = Settled \cup {checkout[c].of}
    BY <2>2, <2>3 DEF Settled, Finalized
  <2>5. checkout[c].of \notin Settled
    BY <1>1, <2>1 DEF Settled, Finalized, Existing
  <2> QED BY <2>2, <2>4, <2>5
<1>3. ASSUME NEW c \in Checkouts, NEW s \in Sessions, GivesBack(c, s)
      PROVE  /\ Finalized' = Finalized \ {c} /\ Settled' = Settled \ {checkout[c].of}
             /\ checkout[c].of \in Settled
  <2>1. /\ checkout[c].status = "FINALIZED" /\ checkout'[c].status = "REVERSED"
        /\ checkout'[c].of = checkout[c].of /\ OnlyRow(c)
    BY <1>3 DEF GivesBack, Reverses, SameOrigin
  <2>2. Finalized' = Finalized \ {c} /\ c \in Finalized
    BY <2>1 DEF Finalized, OnlyRow
  <2>3. \A d \in Checkouts : checkout'[d].of = checkout[d].of
    BY <2>1 DEF OnlyRow
  <2>4. \A d \in Finalized \ {c} : checkout[d].of # checkout[c].of
    BY <1>1, <2>1 DEF Finalized, Existing
  <2>5. Settled' = Settled \ {checkout[c].of}
    <3>1. Settled' = {checkout[d].of : d \in Finalized \ {c}}
      BY <2>2, <2>3 DEF Settled, Finalized
    <3> QED BY <2>2, <2>4, <3>1 DEF Settled
  <2>6. checkout[c].of \in Settled
    BY <2>2 DEF Settled
  <2> QED BY <2>2, <2>5, <2>6
<1>4. ASSUME \A c \in Checkouts, s \in Sessions : ~Collects(c, s) /\ ~GivesBack(c, s)
      PROVE  Finalized' = Finalized /\ Settled' = Settled
  <2>1. \A c \in Checkouts : checkout'[c].status = "FINALIZED" <=> checkout[c].status = "FINALIZED"
    BY <1>4, CashStepRows DEF MakesDraft, ChangesDraft, OnlyRow
  <2>2. \A c \in Finalized : checkout'[c].of = checkout[c].of
    BY OriginsStay DEF Finalized, Existing
  <2>3. Finalized' = Finalized
    BY <2>1 DEF Finalized
  <2> QED BY <2>2, <2>3 DEF Settled
<1> QED
  BY <1>2, <1>3, <1>4

\* A reservation goes on being settled by its finalized checkout.
LEMMA SettledMatchesStep == ASSUME CashInv, CashStep PROVE SettledMatchesReservation'
<1>1. /\ TypeOK /\ SettledMatchesReservation
      /\ \A c \in Finalized : c \in Existing /\ checkout[c].of \in Settled
  BY DEF CashInv, CheckoutsAreSound, Settled, Finalized, Existing
<1>2. ASSUME NEW c \in Checkouts, NEW s \in Sessions, Collects(c, s)
      PROVE  SettledMatchesReservation'
  <2> DEFINE r == checkout[c].of
  <2>1. Finalized' = Finalized \cup {c} /\ Settled' = Settled \cup {r}
    BY <1>2, SettledMoves
  <2>2. r \in Reservations /\ reservation' = [reservation EXCEPT ![r].payment = "PAID"]
    BY <1>2 DEF Collects, Writes
  <2>3. /\ reservation'[r].payment = "PAID" /\ reservation'[r].context = reservation[r].context
        /\ \A q \in Reservations \ {r} : reservation'[q] = reservation[q]
    <3> HIDE DEF r
    <3> QED BY <1>1, <2>2 DEF TypeOK
  <2>4. /\ checkout'[c].of = r /\ checkout'[c].context = reservation[r].context
        /\ \A d \in Checkouts \ {c} : checkout'[d] = checkout[d]
    BY <1>2 DEF Collects, Finalizes, SameOrigin, SameSale, SnapshotCurrent, OnlyRow
  <2>5. ASSUME NEW d \in Finalized'
        PROVE  /\ reservation'[checkout'[d].of].payment = "PAID"
               /\ reservation'[checkout'[d].of].context = checkout'[d].context
    <3>1. CASE d = c
      BY <2>3, <2>4, <3>1
    <3>2. CASE d # c
      <4>1. d \in Finalized /\ checkout'[d] = checkout[d] /\ checkout[d].of \in Reservations
        BY <1>1, <2>1, <2>4, <3>2, ExistingTyped DEF Finalized
      <4>2. /\ reservation[checkout[d].of].payment = "PAID"
            /\ reservation[checkout[d].of].context = checkout[d].context
        BY <1>1, <4>1 DEF SettledMatchesReservation
      <4> HIDE DEF r
      <4> QED BY <2>3, <4>1, <4>2
    <3> QED BY <3>1, <3>2
  <2>6. ASSUME NEW q \in Reservations \ LegacyPaid
        PROVE  reservation'[q].payment = "PAID" <=> q \in Settled'
    <3> HIDE DEF r
    <3> QED BY <1>1, <2>1, <2>3 DEF SettledMatchesReservation
  <2> QED BY <2>5, <2>6 DEF SettledMatchesReservation
<1>3. ASSUME NEW c \in Checkouts, NEW s \in Sessions, GivesBack(c, s)
      PROVE  SettledMatchesReservation'
  <2> DEFINE r == checkout[c].of
  <2>1. Finalized' = Finalized \ {c} /\ Settled' = Settled \ {r}
    BY <1>3, SettledMoves
  <2>2. r \in Reservations /\ reservation' = [reservation EXCEPT ![r].payment = "REFUNDED"]
    BY <1>3 DEF GivesBack, Writes
  <2>3. /\ reservation'[r].payment = "REFUNDED"
        /\ \A q \in Reservations \ {r} : reservation'[q] = reservation[q]
    <3> HIDE DEF r
    <3> QED BY <1>1, <2>2 DEF TypeOK
  <2>4. \A d \in Checkouts \ {c} : checkout'[d] = checkout[d]
    BY <1>3 DEF GivesBack, Reverses, OnlyRow
  <2>5. ASSUME NEW d \in Finalized'
        PROVE  /\ reservation'[checkout'[d].of].payment = "PAID"
               /\ reservation'[checkout'[d].of].context = checkout'[d].context
    <3>1. d \in Finalized /\ checkout'[d] = checkout[d] /\ checkout[d].of \in Reservations
      BY <1>1, <2>1, <2>4, ExistingTyped DEF Finalized
    <3>2. checkout[d].of # r
      BY <2>1, <3>1 DEF Settled
    <3>3. /\ reservation[checkout[d].of].payment = "PAID"
          /\ reservation[checkout[d].of].context = checkout[d].context
      BY <1>1, <3>1 DEF SettledMatchesReservation
    <3> HIDE DEF r
    <3> QED BY <2>3, <3>1, <3>2, <3>3
  <2>6. ASSUME NEW q \in Reservations \ LegacyPaid
        PROVE  reservation'[q].payment = "PAID" <=> q \in Settled'
    <3> HIDE DEF r
    <3> QED BY <1>1, <2>1, <2>3 DEF SettledMatchesReservation
  <2> QED BY <2>5, <2>6 DEF SettledMatchesReservation
<1>4. ASSUME \A c \in Checkouts, s \in Sessions : ~Collects(c, s) /\ ~GivesBack(c, s)
      PROVE  SettledMatchesReservation'
  <2>1. Finalized' = Finalized /\ Settled' = Settled
    BY <1>4, SettledMoves
  <2>2. \A c \in Finalized : checkout'[c] = checkout[c]
    BY <1>4, CashStepRows DEF MakesDraft, ChangesDraft, OnlyRow, Finalized
  <2>3. ASSUME NEW r \in Reservations
        PROVE  /\ reservation'[r].payment = reservation[r].payment
               /\ r \in Settled => reservation'[r].context = reservation[r].context
    <3>1. ASSUME NEW q \in Reservations, EditReservation(q)
          PROVE  /\ reservation'[r].payment = reservation[r].payment
                 /\ r \in Settled => reservation'[r].context = reservation[r].context
      <4>1. PICK new \in Contexts : reservation' = [reservation EXCEPT ![q].context = new]
        BY <3>1 DEF EditReservation
      <4>2. q \notin Settled
        BY <3>1 DEF EditReservation
      <4> QED BY <1>1, <4>1, <4>2 DEF TypeOK
    <3>2. ASSUME NEW q \in Reservations, ChangeStatus(q)
          PROVE  /\ reservation'[r].payment = reservation[r].payment
                 /\ reservation'[r].context = reservation[r].context
      BY <1>1, <3>2 DEF TypeOK, ChangeStatus
    <3>3. \/ UNCHANGED reservation
          \/ \E q \in Reservations : EditReservation(q) \/ ChangeStatus(q)
      BY <1>4 DEF CashStep, DeskStep, Load
    <3> QED BY <3>1, <3>2, <3>3
  <2>4. \A c \in Finalized : checkout[c].of \in Reservations /\ checkout[c].of \in Settled
    BY <1>1, ExistingTyped
  <2>5. ASSUME NEW c \in Finalized
        PROVE  /\ reservation'[checkout'[c].of].payment = "PAID"
               /\ reservation'[checkout'[c].of].context = checkout'[c].context
    BY <1>1, <2>2, <2>3, <2>4 DEF SettledMatchesReservation
  <2>6. \A r \in Reservations \ LegacyPaid : reservation'[r].payment = "PAID" <=> r \in Settled
    BY <1>1, <2>3 DEF SettledMatchesReservation
  <2> QED BY <2>1, <2>5, <2>6 DEF SettledMatchesReservation
<1> QED
  BY <1>2, <1>3, <1>4

-----------------------------------------------------------------------------
(* The registers                                                            *)

\* What the step does to the registers and their movements, whoever took it.
LEMMA RegisterSteps ==
    ASSUME CashStep
    PROVE  \/ UNCHANGED <<register, movements>>
           \/ \E s \in Sessions : Opens(s) \/ Closes(s)
           \/ \E s \in Sessions, kind \in {"IN", "OUT", "SALE", "REFUND"}, amount \in Nat,
                 c \in Checkouts \cup {NoCheckout} : Books(s, kind, amount, c)
<1>1. ASSUME NEW s \in Sessions, NEW c \in Checkouts, Collects(c, s) \/ GivesBack(c, s)
      PROVE  \E kind \in {"IN", "OUT", "SALE", "REFUND"}, amount \in Nat :
                 Books(s, kind, amount, c)
  <2>1. CASE Collects(c, s)
    <3> DEFINE amount == checkout[c].draft.cash
    <3>1. Books(s, "SALE", amount, c)
      BY <2>1 DEF Collects
    <3> HIDE DEF amount
    <3>2. amount \in Nat
      BY <3>1 DEF Books
    <3> QED BY <3>1, <3>2
  <2>2. CASE GivesBack(c, s)
    <3> DEFINE amount == checkout[c].draft.cash
    <3>1. Books(s, "REFUND", amount, c)
      BY <2>2 DEF GivesBack
    <3> HIDE DEF amount
    <3>2. amount \in Nat
      BY <3>1 DEF Books
    <3> QED BY <3>1, <3>2
  <2> QED BY <1>1, <2>1, <2>2
<1>2. ASSUME RegisterStep
      PROVE  \/ \E s \in Sessions : Opens(s) \/ Closes(s)
             \/ \E s \in Sessions, kind \in {"IN", "OUT", "SALE", "REFUND"}, amount \in Nat,
                   c \in Checkouts \cup {NoCheckout} : Books(s, kind, amount, c)
  BY <1>2 DEF RegisterStep
<1> QED
  BY <1>1, <1>2 DEF CashStep

\* Opening a register is refused on a day that has one.
LEMMA OneRegisterPerDayStep == ASSUME CashInv, CashStep PROVE OneRegisterPerDay'
<1>1. OneRegisterPerDay
  BY DEF CashInv, RegistersAreTrue
<1>2. ASSUME NEW s \in Sessions, NEW kind, NEW amount, NEW c, Books(s, kind, amount, c)
      PROVE  OneRegisterPerDay'
  BY <1>1, <1>2 DEF Books, OnlyRegister, OneRegisterPerDay
<1>3. ASSUME NEW s \in Sessions, Closes(s) PROVE OneRegisterPerDay'
  BY <1>1, <1>3 DEF Closes, OnlyRegister, OneRegisterPerDay
<1>4. ASSUME NEW s \in Sessions, Opens(s) PROVE OneRegisterPerDay'
  BY <1>1, <1>4 DEF Opens, OnlyRegister, NoRegisterInTheWay, OneRegisterPerDay
<1>5. CASE UNCHANGED <<register, movements>>
  BY <1>1, <1>5 DEF OneRegisterPerDay
<1> QED
  BY <1>2, <1>3, <1>4, <1>5, RegisterSteps

\* What is in a register follows from its opening and its movements.
LEMMA ExpectedCashSame ==
    ASSUME NEW s, register'[s].opening = register[s].opening, MovementsIn(s)' = MovementsIn(s)
    PROVE  ExpectedCash(s)' = ExpectedCash(s)
  BY DEF ExpectedCash, SignedAmount

\* A booking adds to the drawer what it says, ...
LEMMA ExpectedCashBooked ==
    ASSUME CashInv, NEW s \in Sessions, NEW kind \in {"IN", "OUT", "SALE", "REFUND"},
           NEW amount \in Nat, NEW c \in Checkouts \cup {NoCheckout},
           Books(s, kind, amount, c), amount > 0
    PROVE  ExpectedCash(s)' = ExpectedCash(s)
                                + (IF kind \in {"IN", "SALE"} THEN amount ELSE -amount)
<1> DEFINE old == MovementsIn(s)
           m == Booked(s, kind, amount, c)
           f == [x \in old |-> SignedAmount(x)]
           g == [x \in old \cup {m} |-> SignedAmount(x)]
<1>1. TypeOK /\ MovementsNumbered /\ BooksFinite
  BY DEF CashInv
<1>2. m.session = s /\ m.number = register[s].version /\ m.kind = kind /\ m.amount = amount
  BY DEF Booked
<1>3. old \subseteq MovementRows /\ \A x \in old : x.number < register[s].version
  BY <1>1 DEF MovementsIn, TypeOK, MovementsNumbered
<1>4. register[s].version \in Nat /\ register[s].opening \in Nat
  BY <1>1 DEF TypeOK, Registers
<1>5. SignedAmount(m) = (IF kind \in {"IN", "SALE"} THEN amount ELSE -amount)
  BY <1>2 DEF SignedAmount
<1>6. SignedAmount(m) \in Int
  BY <1>5
<1>7. MovementsIn(s)' = old \cup {m}
  BY <1>2, amount > 0 DEF Books, MovementsIn
<1>8. IsFiniteSet(old)
  BY <1>1, ReportTyped
<1> HIDE DEF old, m
<1>9. m \notin old
  BY <1>2, <1>3, <1>4
<1>10. /\ DOMAIN f = old /\ DOMAIN g = old \cup {m}
       /\ \A y \in old : f[y] \in Int /\ g[y] = f[y]
       /\ g[m] \in Int /\ g[m] = SignedAmount(m)
  BY <1>3, <1>6, SignedTyped
<1>11. SumFunction(g) = SumFunction(f) + SignedAmount(m) /\ SumFunction(f) \in Int
  <2> HIDE DEF f, g
  <2>1. SumFunction(g) = SumFunction(f) + g[m]
    BY <1>8, <1>9, <1>10, SumOfOneMore
  <2>2. SumFunction(f) \in Int
    BY <1>8, <1>10, SumOfInts
  <2> QED BY <1>10, <2>1, <2>2
<1>12. ExpectedCash(s) = register[s].opening + SumFunction(f)
  BY DEF ExpectedCash, old
<1>13. ExpectedCash(s)' = register[s].opening + SumFunction(g)
  <2>1. ExpectedCash(s)' = register'[s].opening + SumFunction([x \in MovementsIn(s)' |-> SignedAmount(x)])
    BY DEF ExpectedCash, SignedAmount
  <2>2. register'[s].opening = register[s].opening
    BY DEF Books
  <2> QED BY <1>7, <2>1, <2>2
<1> HIDE DEF f, g
<1> QED
  BY <1>4, <1>5, <1>6, <1>11, <1>12, <1>13

\* ... and nothing to the others.
LEMMA ExpectedCashElsewhere ==
    ASSUME NEW s, NEW kind, NEW amount, NEW c, Books(s, kind, amount, c),
           NEW t \in Sessions, t # s \/ amount = 0
    PROVE  register'[t].opening = register[t].opening /\ MovementsIn(t)' = MovementsIn(t)
<1>1. register'[t].opening = register[t].opening
  BY DEF Books, OnlyRegister
<1>2. Booked(s, kind, amount, c).session = s
  BY DEF Booked
<1>3. MovementsIn(t)' = MovementsIn(t)
  BY <1>2 DEF Books, MovementsIn
<1> QED
  BY <1>1, <1>3

\* No register pays out what it does not hold.
LEMMA DrawerNeverShortStep == ASSUME CashInv, CashStep PROVE DrawerNeverShort'
<1>1. /\ TypeOK /\ MovementsNumbered /\ BooksFinite
      /\ \A s \in Sessions : ExpectedCash(s) >= 0 /\ ExpectedCash(s) \in Int
  BY ReportTyped DEF CashInv, RegistersAreTrue, DrawerNeverShort
<1>2. ASSUME NEW t \in Sessions, register'[t].opening = register[t].opening,
             MovementsIn(t)' = MovementsIn(t)
      PROVE  ExpectedCash(t)' >= 0
  <2>1. ExpectedCash(t)' = ExpectedCash(t)
    BY <1>2, ExpectedCashSame
  <2> QED BY <1>1, <2>1
<1>3. ASSUME NEW s \in Sessions, NEW kind \in {"IN", "OUT", "SALE", "REFUND"},
             NEW amount \in Nat, NEW c \in Checkouts \cup {NoCheckout}, Books(s, kind, amount, c),
             NEW t \in Sessions
      PROVE  ExpectedCash(t)' >= 0
  <2>1. CASE t # s \/ amount = 0
    BY <1>2, <1>3, <2>1, ExpectedCashElsewhere
  <2>2. CASE t = s /\ amount > 0
    <3>1. ExpectedCash(s)' = ExpectedCash(s)
                               + (IF kind \in {"IN", "SALE"} THEN amount ELSE -amount)
      BY <1>3, <2>2, ExpectedCashBooked
    <3>2. kind \in {"OUT", "REFUND"} => ExpectedCash(s) >= amount
      BY <1>3, <2>2 DEF Books, DrawerCovers
    <3> QED BY <1>1, <2>2, <3>1, <3>2
  <2> QED BY <2>1, <2>2
<1>4. ASSUME NEW s \in Sessions, Opens(s), NEW t \in Sessions PROVE ExpectedCash(t)' >= 0
  <2>1. MovementsIn(t)' = MovementsIn(t)
    BY <1>4 DEF Opens, MovementsIn
  <2>2. CASE t # s
    BY <1>2, <1>4, <2>1, <2>2 DEF Opens, OnlyRegister
  <2>3. CASE t = s
    <3> DEFINE f == [m \in MovementsIn(s)' |-> SignedAmount(m)]
    <3>1. MovementsIn(s) = {}
      BY <1>1, <1>4 DEF Opens, MovementsIn, MovementsNumbered
    <3>2. DOMAIN f = {}
      BY <2>1, <2>3, <3>1
    <3>3. SumFunction(f) = 0
      <4> HIDE DEF f
      <4> QED BY <3>2, SumOfNothing
    <3>4. ExpectedCash(s)' = register'[s].opening + SumFunction(f)
      BY DEF ExpectedCash, SignedAmount
    <3>5. register'[s].opening \in Nat
      BY <1>4 DEF Opens
    <3> QED BY <2>3, <3>3, <3>4, <3>5
  <2> QED BY <2>2, <2>3
<1>5. ASSUME NEW s \in Sessions, Closes(s), NEW t \in Sessions PROVE ExpectedCash(t)' >= 0
  <2>1. MovementsIn(t)' = MovementsIn(t) /\ register'[t].opening = register[t].opening
    BY <1>5 DEF Closes, MovementsIn, OnlyRegister
  <2> QED BY <1>2, <2>1
<1>6. ASSUME UNCHANGED <<register, movements>>, NEW t \in Sessions PROVE ExpectedCash(t)' >= 0
  BY <1>2, <1>6 DEF MovementsIn
<1>7. \A t \in Sessions : ExpectedCash(t)' >= 0
  BY <1>3, <1>4, <1>5, <1>6, RegisterSteps
<1> QED
  BY <1>7 DEF DrawerNeverShort

\* What names a register stays as it is unless the register sells or refunds it now.
LEMMA NamedRowsStay ==
    ASSUME CashInv, CashStep, NEW t \in Sessions,
           \A c \in Checkouts : ~Collects(c, t) /\ ~GivesBack(c, t)
    PROVE  /\ SalesIn(t)' = SalesIn(t) /\ RefundsIn(t)' = RefundsIn(t)
           /\ \A c \in SalesIn(t) \cup RefundsIn(t) : checkout'[c].draft = checkout[c].draft
<1>1. TypeOK /\ RegistersNamed /\ t # NoSession
  BY CashAssumption DEF CashInv
<1> DEFINE Stays(c) == /\ checkout'[c].finalizedIn = t <=> checkout[c].finalizedIn = t
                       /\ checkout'[c].reversedIn = t <=> checkout[c].reversedIn = t
                       /\ checkout[c].finalizedIn = t \/ checkout[c].reversedIn = t =>
                             checkout'[c].draft = checkout[c].draft
<1>2. ASSUME NEW c \in Checkouts, checkout'[c] = checkout[c] PROVE Stays(c)
  BY <1>2
<1>3. ASSUME NEW r \in Reservations, NEW c \in Checkouts, MakesDraft(r, c)
      PROVE  \A d \in Checkouts : Stays(d)
  <2>1. checkout[c].finalizedIn = NoSession /\ checkout[c].reversedIn = NoSession
    BY <1>1, <1>3 DEF MakesDraft, RegistersNamed
  <2>2. checkout'[c].finalizedIn = NoSession /\ checkout'[c].reversedIn = NoSession
    BY <1>3 DEF MakesDraft
  <2>3. Stays(c)
    BY <1>1, <2>1, <2>2
  <2> HIDE DEF Stays
  <2> QED BY <1>2, <1>3, <2>3 DEF MakesDraft, OnlyRow
<1>4. ASSUME NEW c \in Checkouts, ChangesDraft(c) PROVE \A d \in Checkouts : Stays(d)
  <2>1. checkout[c].finalizedIn = NoSession /\ checkout[c].reversedIn = NoSession
    BY <1>1, <1>4 DEF ChangesDraft, RegistersNamed
  <2>2. Stays(c)
    BY <1>1, <1>4, <2>1 DEF ChangesDraft
  <2> HIDE DEF Stays
  <2> QED BY <1>2, <1>4, <2>2 DEF ChangesDraft, OnlyRow
<1>5. ASSUME NEW c \in Checkouts, NEW s \in Sessions, Collects(c, s)
      PROVE  \A d \in Checkouts : Stays(d)
  <2>1. s # t /\ checkout[c].finalizedIn = NoSession
    BY <1>1, <1>5 DEF Collects, Finalizes, RegistersNamed
  <2>2. Stays(c)
    BY <1>1, <1>5, <2>1 DEF Collects, Finalizes, SameSale
  <2> HIDE DEF Stays
  <2> QED BY <1>2, <1>5, <2>2 DEF Collects, Finalizes, OnlyRow
<1>6. ASSUME NEW c \in Checkouts, NEW s \in Sessions, GivesBack(c, s)
      PROVE  \A d \in Checkouts : Stays(d)
  <2>1. s # t /\ checkout[c].reversedIn = NoSession
    BY <1>1, <1>6 DEF GivesBack, Reverses, RegistersNamed
  <2>2. Stays(c)
    BY <1>1, <1>6, <2>1 DEF GivesBack, Reverses, SameSale
  <2> HIDE DEF Stays
  <2> QED BY <1>2, <1>6, <2>2 DEF GivesBack, Reverses, OnlyRow
<1>7. ASSUME UNCHANGED checkout PROVE \A d \in Checkouts : Stays(d)
  <2> HIDE DEF Stays
  <2> QED BY <1>2, <1>7
<1>8. \A d \in Checkouts : Stays(d)
  <2> HIDE DEF Stays
  <2> QED BY <1>3, <1>4, <1>5, <1>6, <1>7, CashStepRows
<1> QED
  BY <1>8 DEF SalesIn, RefundsIn

\* The report is about nothing else.
LEMMA ReportSame ==
    ASSUME NEW t, ExpectedCash(t)' = ExpectedCash(t), MovementsIn(t)' = MovementsIn(t),
           SalesIn(t)' = SalesIn(t), RefundsIn(t)' = RefundsIn(t),
           \A c \in SalesIn(t) \cup RefundsIn(t) : checkout'[c].draft = checkout[c].draft
    PROVE  Report(t)' = Report(t)
<1>1. ASSUME NEW cs, \A c \in cs : checkout'[c].draft = checkout[c].draft
      PROVE  [c \in cs |-> Total(checkout'[c].draft)] = [c \in cs |-> Total(checkout[c].draft)]
  BY <1>1
<1>2. /\ [c \in SalesIn(t) |-> Total(checkout'[c].draft)]
           = [c \in SalesIn(t) |-> Total(checkout[c].draft)]
      /\ [c \in RefundsIn(t) |-> Total(checkout'[c].draft)]
           = [c \in RefundsIn(t) |-> Total(checkout[c].draft)]
  BY <1>1
<1>3. /\ TotalsOf(SalesIn(t))' = SumFunction([c \in SalesIn(t)' |-> Total(checkout'[c].draft)])
      /\ TotalsOf(RefundsIn(t))' = SumFunction([c \in RefundsIn(t)' |-> Total(checkout'[c].draft)])
  BY DEF TotalsOf, Total
<1>4. TotalsOf(SalesIn(t))' = TotalsOf(SalesIn(t)) /\ TotalsOf(RefundsIn(t))' = TotalsOf(RefundsIn(t))
  BY <1>2, <1>3 DEF TotalsOf
<1> QED
  BY <1>4 DEF Report

\* Only the open register of the day sells and refunds: the closed ones are left alone.
LEMMA ReportsStayTrueStep == ASSUME CashInv, CashStep PROVE ReportsStayTrue'
<1>1. TypeOK /\ ReportsStayTrue
  BY DEF CashInv, RegistersAreTrue
<1>2. ASSUME NEW t \in Sessions, register[t].status # "OPEN"
      PROVE  \A c \in Checkouts : ~Collects(c, t) /\ ~GivesBack(c, t)
  BY <1>2 DEF Collects, GivesBack, Books
<1>3. ASSUME NEW t \in Sessions, \A c \in Checkouts : ~Collects(c, t) /\ ~GivesBack(c, t),
             register'[t].opening = register[t].opening, MovementsIn(t)' = MovementsIn(t)
      PROVE  Report(t)' = Report(t)
  BY <1>3, ExpectedCashSame, NamedRowsStay, ReportSame
<1>4. ASSUME NEW t \in Sessions, register[t].status = "CLOSED", register'[t] = register[t],
             MovementsIn(t)' = MovementsIn(t)
      PROVE  register'[t].report = Report(t)'
  BY <1>1, <1>2, <1>3, <1>4 DEF ReportsStayTrue
<1>5. ASSUME NEW t \in Sessions, register'[t].status = "CLOSED"
      PROVE  register'[t].report = Report(t)'
  <2>1. ASSUME NEW s \in Sessions, NEW kind \in {"IN", "OUT", "SALE", "REFUND"},
               NEW amount \in Nat, NEW c \in Checkouts \cup {NoCheckout}, Books(s, kind, amount, c)
        PROVE  register'[t].report = Report(t)'
    <3>1. t # s /\ register'[t] = register[t]
      BY <1>5, <2>1 DEF Books, OnlyRegister
    <3>2. MovementsIn(t)' = MovementsIn(t)
      BY <2>1, <3>1, ExpectedCashElsewhere
    <3> QED BY <1>4, <1>5, <3>1, <3>2
  <2>2. ASSUME NEW s \in Sessions, Opens(s) PROVE register'[t].report = Report(t)'
    <3>1. t # s /\ register'[t] = register[t]
      BY <1>5, <2>2 DEF Opens, OnlyRegister
    <3>2. MovementsIn(t)' = MovementsIn(t)
      BY <2>2 DEF Opens, MovementsIn
    <3> QED BY <1>4, <1>5, <3>1, <3>2
  <2>3. ASSUME NEW s \in Sessions, Closes(s) PROVE register'[t].report = Report(t)'
    <3>1. MovementsIn(t)' = MovementsIn(t)
      BY <2>3 DEF Closes, MovementsIn
    <3>2. CASE t # s
      BY <1>4, <1>5, <2>3, <3>1, <3>2 DEF Closes, OnlyRegister
    <3>3. CASE t = s
      <4>1. register'[t].opening = register[t].opening /\ register'[t].report = Report(t)
        BY <2>3, <3>3 DEF Closes
      <4>2. \A c \in Checkouts : ~Collects(c, t) /\ ~GivesBack(c, t)
        BY <2>3, <3>3 DEF Closes, Collects, GivesBack, Books
      <4> QED BY <1>3, <3>1, <4>1, <4>2
    <3> QED BY <3>2, <3>3
  <2>4. ASSUME UNCHANGED <<register, movements>> PROVE register'[t].report = Report(t)'
    BY <1>4, <1>5, <2>4 DEF MovementsIn
  <2> QED BY <2>1, <2>2, <2>3, <2>4, RegisterSteps
<1> QED
  BY <1>5 DEF ReportsStayTrue

\* A sale books its cash in the register that finalized, a refund in the one that
\* reversed, and nobody else books for the checkout.
LEMMA MovementsMatchStep == ASSUME CashInv, CashStep PROVE MovementsMatchCheckouts'
<1>1. TypeOK /\ MovementsMatchCheckouts /\ RegistersNamed
  BY DEF CashInv, RegistersAreTrue
<1> DEFINE Mine(ms, c, kind) == {m \in ms : m.kind = kind /\ m.checkout = c}
           In(row, kind) == IF kind = "SALE" THEN row.finalizedIn ELSE row.reversedIn
           Match(ms, row, c, kind) ==
             LET mine == Mine(ms, c, kind)
                 s == In(row, kind)
             IN /\ \A m \in mine : m.session = s /\ m.amount = row.draft.cash
                /\ \A m, n \in mine : m = n
                /\ mine # {} <=> s # NoSession /\ row.draft.cash > 0
           Right(c) == /\ Match(movements', checkout'[c], c, "SALE")
                       /\ Match(movements', checkout'[c], c, "REFUND")
           Ours(ms) == \A m \in ms : m.kind \in {"IN", "OUT"} <=> m.checkout = NoCheckout
<1>2. \A c \in Checkouts : /\ Match(movements, checkout[c], c, "SALE")
                           /\ Match(movements, checkout[c], c, "REFUND")
  BY <1>1 DEF MovementsMatchCheckouts
<1>3. Ours(movements)
  BY <1>1 DEF MovementsMatchCheckouts
<1>4. (\A c \in Checkouts : Right(c)) /\ Ours(movements') => MovementsMatchCheckouts'
  BY DEF MovementsMatchCheckouts
<1>5. ASSUME NEW c \in Checkouts, NEW kind \in {"SALE", "REFUND"},
             Mine(movements', c, kind) = Mine(movements, c, kind),
             checkout'[c] = checkout[c]
      PROVE  Match(movements', checkout'[c], c, kind)
  <2> HIDE DEF Mine
  <2> QED BY <1>2, <1>5
<1>6. ASSUME NEW c \in Checkouts, NEW kind \in {"SALE", "REFUND"},
             Mine(movements', c, kind) = Mine(movements, c, kind),
             In(checkout[c], kind) = NoSession, In(checkout'[c], kind) = NoSession
      PROVE  Match(movements', checkout'[c], c, kind)
  <2> HIDE DEF Mine
  <2> QED BY <1>2, <1>6
<1>7. ASSUME NEW s \in Sessions, NEW kind \in {"IN", "OUT"}, NEW amount \in Nat,
             Books(s, kind, amount, NoCheckout)
      PROVE  /\ Ours(movements')
             /\ \A c \in Checkouts, k \in {"SALE", "REFUND"} :
                    Mine(movements', c, k) = Mine(movements, c, k)
  <2>1. /\ Booked(s, kind, amount, NoCheckout).kind = kind
        /\ Booked(s, kind, amount, NoCheckout).checkout = NoCheckout
    BY DEF Booked
  <2> QED BY <1>3, <1>7, <2>1 DEF Books
<1>8. ASSUME NEW s \in Sessions, NEW kind \in {"SALE", "REFUND"}, NEW c \in Checkouts,
             Books(s, kind, checkout[c].draft.cash, c), Mine(movements, c, kind) = {},
             In(checkout'[c], kind) = s, checkout'[c].draft = checkout[c].draft
      PROVE  /\ Ours(movements') /\ Match(movements', checkout'[c], c, kind)
             /\ \A d \in Checkouts, k \in {"SALE", "REFUND"} :
                    d # c \/ k # kind => Mine(movements', d, k) = Mine(movements, d, k)
  <2> DEFINE amount == checkout[c].draft.cash
             m == Booked(s, kind, amount, c)
  <2>1. m.kind = kind /\ m.checkout = c /\ m.session = s /\ m.amount = amount
    BY DEF Booked
  <2>2. movements' = (IF amount > 0 THEN movements \cup {m} ELSE movements) /\ amount \in Nat
    BY <1>8 DEF Books
  <2>3. c # NoCheckout /\ s # NoSession /\ checkout'[c].draft.cash = amount
    BY <1>8, CashAssumption
  <2> HIDE DEF amount, m
  <2>4. Ours(movements')
    BY <1>3, <2>1, <2>2, <2>3
  <2>5. \A d \in Checkouts, k \in {"SALE", "REFUND"} :
            d # c \/ k # kind => Mine(movements', d, k) = Mine(movements, d, k)
    BY <2>1, <2>2
  <2>6. Mine(movements', c, kind) = IF amount > 0 THEN {m} ELSE {}
    BY <1>8, <2>1, <2>2
  <2>7. Match(movements', checkout'[c], c, kind)
    <3> HIDE DEF Mine, In
    <3> QED BY <1>8, <2>1, <2>2, <2>3, <2>6
  <2> QED BY <2>4, <2>5, <2>7
<1>9. ASSUME NEW r \in Reservations, NEW c \in Checkouts, MakesDraft(r, c), UNCHANGED movements
      PROVE  MovementsMatchCheckouts'
  <2>1. /\ checkout[c].finalizedIn = NoSession /\ checkout[c].reversedIn = NoSession
        /\ checkout'[c].finalizedIn = NoSession /\ checkout'[c].reversedIn = NoSession
        /\ \A d \in Checkouts \ {c} : checkout'[d] = checkout[d]
    BY <1>1, <1>9 DEF MakesDraft, RegistersNamed, OnlyRow
  <2>2. \A d \in Checkouts, k \in {"SALE", "REFUND"} : Mine(movements', d, k) = Mine(movements, d, k)
    BY <1>9
  <2>3. /\ In(checkout[c], "SALE") = NoSession /\ In(checkout'[c], "SALE") = NoSession
        /\ In(checkout[c], "REFUND") = NoSession /\ In(checkout'[c], "REFUND") = NoSession
    BY <2>1
  <2>4. \A d \in Checkouts : Right(d)
    <3> HIDE DEF Mine, In, Match
    <3> QED BY <1>5, <1>6, <2>1, <2>2, <2>3
  <2> QED BY <1>3, <1>4, <1>9, <2>4
<1>10. ASSUME NEW c \in Checkouts, ChangesDraft(c), UNCHANGED movements
       PROVE  MovementsMatchCheckouts'
  <2>1. /\ checkout[c].finalizedIn = NoSession /\ checkout[c].reversedIn = NoSession
        /\ checkout'[c].finalizedIn = NoSession /\ checkout'[c].reversedIn = NoSession
        /\ \A d \in Checkouts \ {c} : checkout'[d] = checkout[d]
    BY <1>1, <1>10 DEF ChangesDraft, RegistersNamed, OnlyRow
  <2>2. \A d \in Checkouts, k \in {"SALE", "REFUND"} : Mine(movements', d, k) = Mine(movements, d, k)
    BY <1>10
  <2>3. /\ In(checkout[c], "SALE") = NoSession /\ In(checkout'[c], "SALE") = NoSession
        /\ In(checkout[c], "REFUND") = NoSession /\ In(checkout'[c], "REFUND") = NoSession
    BY <2>1
  <2>4. \A d \in Checkouts : Right(d)
    <3> HIDE DEF Mine, In, Match
    <3> QED BY <1>5, <1>6, <2>1, <2>2, <2>3
  <2> QED BY <1>3, <1>4, <1>10, <2>4
<1>11. ASSUME NEW c \in Checkouts, NEW s \in Sessions, Collects(c, s)
       PROVE  MovementsMatchCheckouts'
  <2>1. /\ checkout[c].finalizedIn = NoSession /\ checkout[c].reversedIn = NoSession
        /\ checkout'[c].finalizedIn = s /\ checkout'[c].reversedIn = NoSession
        /\ checkout'[c].draft = checkout[c].draft
        /\ Books(s, "SALE", checkout[c].draft.cash, c)
        /\ \A d \in Checkouts \ {c} : checkout'[d] = checkout[d]
    BY <1>1, <1>11 DEF Collects, Finalizes, SameSale, RegistersNamed, OnlyRow
  <2>2. /\ In(checkout[c], "SALE") = NoSession /\ In(checkout'[c], "SALE") = s
        /\ In(checkout[c], "REFUND") = NoSession /\ In(checkout'[c], "REFUND") = NoSession
    BY <2>1
  <2>3. Mine(movements, c, "SALE") = {}
    <3> HIDE DEF Mine, In
    <3> QED BY <1>2, <2>2
  <2>4. /\ Ours(movements') /\ Match(movements', checkout'[c], c, "SALE")
        /\ \A d \in Checkouts, k \in {"SALE", "REFUND"} :
               d # c \/ k # "SALE" => Mine(movements', d, k) = Mine(movements, d, k)
    <3> HIDE DEF Mine, In, Match, Ours
    <3> QED BY <1>8, <2>1, <2>2, <2>3
  <2>5. \A d \in Checkouts : Right(d)
    <3> HIDE DEF Mine, In, Match
    <3> QED BY <1>5, <1>6, <2>1, <2>2, <2>4
  <2> QED BY <1>4, <2>4, <2>5
<1>12. ASSUME NEW c \in Checkouts, NEW s \in Sessions, GivesBack(c, s)
       PROVE  MovementsMatchCheckouts'
  <2>1. /\ checkout'[c].finalizedIn = checkout[c].finalizedIn
        /\ checkout[c].reversedIn = NoSession /\ checkout'[c].reversedIn = s
        /\ checkout'[c].draft = checkout[c].draft
        /\ Books(s, "REFUND", checkout[c].draft.cash, c)
        /\ \A d \in Checkouts \ {c} : checkout'[d] = checkout[d]
    BY <1>1, <1>12 DEF GivesBack, Reverses, SameSale, RegistersNamed, OnlyRow
  <2>2. /\ In(checkout'[c], "SALE") = In(checkout[c], "SALE")
        /\ In(checkout[c], "REFUND") = NoSession /\ In(checkout'[c], "REFUND") = s
    BY <2>1
  <2>3. Mine(movements, c, "REFUND") = {}
    <3> HIDE DEF Mine, In
    <3> QED BY <1>2, <2>2
  <2>4. /\ Ours(movements') /\ Match(movements', checkout'[c], c, "REFUND")
        /\ \A d \in Checkouts, k \in {"SALE", "REFUND"} :
               d # c \/ k # "REFUND" => Mine(movements', d, k) = Mine(movements, d, k)
    <3> HIDE DEF Mine, In, Match, Ours
    <3> QED BY <1>8, <2>1, <2>2, <2>3
  <2>5. Match(movements', checkout'[c], c, "SALE")
    <3>1. Mine(movements', c, "SALE") = Mine(movements, c, "SALE")
      <4> HIDE DEF Mine, In, Match, Ours
      <4> QED BY <2>4
    <3> HIDE DEF Mine, In
    <3> QED BY <1>2, <2>1, <2>2, <3>1
  <2>6. \A d \in Checkouts : Right(d)
    <3> HIDE DEF Mine, In, Match
    <3> QED BY <1>5, <2>1, <2>4, <2>5
  <2> QED BY <1>4, <2>4, <2>6
<1>13. ASSUME UNCHANGED checkout, RegisterStep PROVE MovementsMatchCheckouts'
  <2>1. Ours(movements') /\ \A c \in Checkouts, k \in {"SALE", "REFUND"} :
                                Mine(movements', c, k) = Mine(movements, c, k)
    <3>1. ASSUME UNCHANGED movements
          PROVE  Ours(movements') /\ \A c \in Checkouts, k \in {"SALE", "REFUND"} :
                                Mine(movements', c, k) = Mine(movements, c, k)
      BY <1>3, <3>1
    <3>2. ASSUME NEW s \in Sessions, Opens(s) \/ Closes(s) PROVE UNCHANGED movements
      BY <3>2 DEF Opens, Closes
    <3> HIDE DEF Mine, Ours
    <3> QED BY <1>7, <1>13, <3>1, <3>2 DEF RegisterStep
  <2>2. \A d \in Checkouts : Right(d)
    <3> HIDE DEF Mine, In, Match
    <3> QED BY <1>5, <1>13, <2>1
  <2> QED BY <1>4, <2>1, <2>2
<1>14. ASSUME UNCHANGED <<checkout, movements>> PROVE MovementsMatchCheckouts'
  BY <1>1, <1>14 DEF MovementsMatchCheckouts
<1>15. ASSUME DeskStep PROVE UNCHANGED checkout
  BY <1>15 DEF DeskStep, Load, EditReservation, ChangeStatus
<1> HIDE DEF Mine, In, Match, Ours
<1> QED
  BY <1>9, <1>10, <1>11, <1>12, <1>13, <1>14, <1>15 DEF CashStep

-----------------------------------------------------------------------------
(* What customers spent                                                     *)

MineIn(c, desks, book) ==
    {k \in Checkouts : book[k].status = "FINALIZED" /\ CustomerOf[desks[book[k].of].context] = c}

\* The sum is about the finalized checkouts of the customer and what they sold for.
LEMMA SpentAgrees ==
    ASSUME NEW c, NEW desks, NEW book, NEW desksBefore, NEW before,
           MineIn(c, desks, book) = MineIn(c, desksBefore, before),
           \A k \in MineIn(c, desks, book) : book[k].draft = before[k].draft
    PROVE  SumFunction([k \in MineIn(c, desks, book) |-> Total(book[k].draft)])
             = SumFunction([k \in MineIn(c, desksBefore, before) |-> Total(before[k].draft)])
<1>1. [k \in MineIn(c, desks, book) |-> Total(book[k].draft)]
        = [k \in MineIn(c, desksBefore, before) |-> Total(before[k].draft)]
  OBVIOUS
<1> QED
  BY <1>1

\* What a customer spent is the sum over the finalized checkouts.
LEMMA SpentByIs ==
    ASSUME NEW c
    PROVE  /\ \A book : SpentBy(c, book) =
                  SumFunction([k \in MineIn(c, reservation, book) |-> Total(book[k].draft)])
           /\ SpentBy(c, checkout)' =
                  SumFunction([k \in MineIn(c, reservation', checkout') |-> Total(checkout'[k].draft)])
  BY DEF SpentBy, MineIn, Total

\* refreshCustomerAccounting writes the total of the one customer whose checkouts changed;
\* a reservation that changes hands has no finalized checkout.
LEMMA TotalSpentStep == ASSUME CashInv, CashStep PROVE TotalSpentIsExact'
<1>1. /\ TypeOK /\ \A c \in Customers : totalSpent[c] = SpentBy(c, checkout)
      /\ DOMAIN totalSpent = Customers
  BY DEF CashInv, TotalSpentIsExact, TypeOK
<1>2. ASSUME NEW c \in Customers,
             MineIn(c, reservation', checkout') = MineIn(c, reservation, checkout),
             \A k \in MineIn(c, reservation, checkout) : checkout'[k].draft = checkout[k].draft
      PROVE  SpentBy(c, checkout)' = SpentBy(c, checkout)
  <2> DEFINE now == MineIn(c, reservation', checkout')
             then == MineIn(c, reservation, checkout)
  <2>1. SumFunction([k \in now |-> Total(checkout'[k].draft)])
          = SumFunction([k \in then |-> Total(checkout[k].draft)])
    BY <1>2, SpentAgrees
  <2> QED BY <2>1, SpentByIs
<1>3. \A k \in Finalized : k \in Existing /\ checkout[k].of \in Reservations
  BY <1>1, ExistingTyped DEF Finalized, Existing
<1>4. ASSUME NEW d \in Checkouts, NEW payment, NEW new, Writes(d, payment, new),
             checkout'[d].of = checkout[d].of,
             \A k \in Checkouts \ {d} : checkout'[k] = checkout[k],
             checkout[d].status \in {"DRAFT", "FINALIZED"}
      PROVE  TotalSpentIsExact'
  <2> DEFINE r == checkout[d].of
             spender == CustomerOf[reservation[r].context]
  <2>1. r \in Reservations /\ \A q \in Reservations : reservation'[q].context = reservation[q].context
    BY <1>1, <1>4 DEF Writes, TypeOK
  <2>2. totalSpent' = [totalSpent EXCEPT ![spender] = SpentBy(spender, checkout')]
    BY <1>4 DEF Writes, SpentAfter
  <2>3. \A k \in Checkouts : checkout'[k].status = "FINALIZED" => checkout'[k].of \in Reservations
    BY <1>3, <1>4, <2>1 DEF Finalized
  <2>4. \A c : MineIn(c, reservation', checkout') = MineIn(c, reservation, checkout')
    BY <2>1, <2>3 DEF MineIn
  <2>5. ASSUME NEW c \in Customers, c = spender PROVE totalSpent'[c] = SpentBy(c, checkout)'
    <3>1. totalSpent'[c] = SpentBy(c, checkout')
      BY <1>1, <2>2, <2>5
    <3>2. SpentBy(c, checkout') = SpentBy(c, checkout)'
      <4> DEFINE mine == MineIn(c, reservation, checkout')
                 f == SumFunction([k \in mine |-> Total(checkout'[k].draft)])
      <4>1. SpentBy(c, checkout') = f
        BY DEF SpentBy, MineIn
      <4>2. SpentBy(c, checkout)' = f
        BY <2>4, SpentByIs
      <4> QED BY <4>1, <4>2
    <3> QED BY <3>1, <3>2
  <2>6. ASSUME NEW c \in Customers, c # spender PROVE totalSpent'[c] = SpentBy(c, checkout)'
    <3>1. totalSpent'[c] = SpentBy(c, checkout)
      BY <1>1, <2>2, <2>6
    <3>2. d \notin MineIn(c, reservation, checkout) /\ d \notin MineIn(c, reservation, checkout')
      BY <1>4, <2>6 DEF MineIn
    <3>3. MineIn(c, reservation, checkout') = MineIn(c, reservation, checkout)
      BY <1>4, <3>2 DEF MineIn
    <3>4. \A k \in MineIn(c, reservation, checkout) : checkout'[k].draft = checkout[k].draft
      BY <1>4, <3>2 DEF MineIn
    <3>5. SpentBy(c, checkout)' = SpentBy(c, checkout)
      BY <1>2, <2>4, <3>3, <3>4
    <3> QED BY <3>1, <3>5
  <2> QED BY <2>5, <2>6 DEF TotalSpentIsExact
<1>5. ASSUME UNCHANGED totalSpent, Finalized' = Finalized,
             \A k \in Finalized : /\ checkout'[k] = checkout[k]
                                  /\ reservation'[checkout[k].of].context = reservation[checkout[k].of].context
      PROVE  TotalSpentIsExact'
  <2>1. ASSUME NEW c \in Customers PROVE totalSpent'[c] = SpentBy(c, checkout)'
    <3>1. MineIn(c, reservation', checkout') = MineIn(c, reservation, checkout)
      BY <1>5 DEF MineIn, Finalized
    <3>2. \A k \in MineIn(c, reservation, checkout) : checkout'[k].draft = checkout[k].draft
      BY <1>5 DEF MineIn, Finalized
    <3> QED BY <1>1, <1>2, <1>5, <3>1, <3>2
  <2> QED BY <2>1 DEF TotalSpentIsExact
<1>6. ASSUME NEW c \in Checkouts, NEW s \in Sessions, Collects(c, s) PROVE TotalSpentIsExact'
  BY <1>4, <1>6 DEF Collects, Finalizes, SameOrigin, OnlyRow
<1>7. ASSUME NEW c \in Checkouts, NEW s \in Sessions, GivesBack(c, s) PROVE TotalSpentIsExact'
  BY <1>4, <1>7 DEF GivesBack, Reverses, SameOrigin, OnlyRow
<1>8. ASSUME \A c \in Checkouts, s \in Sessions : ~Collects(c, s) /\ ~GivesBack(c, s)
      PROVE  TotalSpentIsExact'
  <2>1. Finalized' = Finalized
    BY <1>8, SettledMoves
  <2>2. \A k \in Finalized : checkout'[k] = checkout[k]
    BY <1>8, CashStepRows DEF MakesDraft, ChangesDraft, OnlyRow, Finalized
  <2>3. /\ UNCHANGED totalSpent
        /\ \/ UNCHANGED reservation
           \/ \E q \in Reservations : EditReservation(q) \/ ChangeStatus(q)
    BY <1>8 DEF CashStep, DeskStep, Load, EditReservation, ChangeStatus
  <2>4. ASSUME NEW r \in Settled, r \in Reservations
        PROVE  reservation'[r].context = reservation[r].context
    <3>1. ASSUME NEW q \in Reservations, EditReservation(q)
          PROVE  reservation'[r].context = reservation[r].context
      <4>1. PICK new \in Contexts : reservation' = [reservation EXCEPT ![q].context = new]
        BY <3>1 DEF EditReservation
      <4> QED BY <1>1, <2>4, <3>1, <4>1 DEF TypeOK, EditReservation
    <3>2. ASSUME NEW q \in Reservations, ChangeStatus(q)
          PROVE  reservation'[r].context = reservation[r].context
      BY <1>1, <2>4, <3>2 DEF TypeOK, ChangeStatus
    <3> QED BY <2>3, <3>1, <3>2
  <2>5. \A k \in Finalized : reservation'[checkout[k].of].context = reservation[checkout[k].of].context
    BY <1>3, <2>4 DEF Settled
  <2> QED BY <1>5, <2>1, <2>2, <2>3, <2>5
<1> QED
  BY <1>6, <1>7, <1>8

-----------------------------------------------------------------------------
(* The inductive invariant                                                  *)

\* Nothing is sold at the start.
LEMMA InitCashInv == ASSUME Init PROVE CashInv
<1>1. PICK context \in [Reservations -> Contexts], paid \in SUBSET LegacyPaid :
          reservation = [r \in Reservations |->
              [context |-> context[r], released |-> FALSE,
               payment |-> IF r \in paid THEN "PAID" ELSE "UNPAID"]]
  BY DEF Init
<1>2. /\ checkout = [c \in Checkouts |-> NoRow]
      /\ register = [s \in Sessions |-> NoRegister]
      /\ movements = {} /\ entries = {} /\ mails = {}
      /\ totalSpent = [c \in Customers |-> 0] /\ today = 0
      /\ view = [k \in Clerks |-> NoView]
  BY DEF Init
<1>3. Existing = {} /\ Finalized = {} /\ Settled = {}
  BY <1>2, BlankTyped DEF Existing, Finalized, Settled
<1>4. TypeOK
  <2>1. reservation \in [Reservations -> [context: Contexts, released: BOOLEAN,
                                         payment: {"UNPAID", "PAID", "REFUNDED"}]]
    BY <1>1
  <2>2. checkout \in [Checkouts -> Rows]
    BY <1>2, BlankTyped
  <2>3. register \in [Sessions -> Registers]
    BY <1>2, NoRegisterTyped
  <2>4. view \in [Clerks -> [id: Checkouts \cup {NoCheckout}, row: Rows]]
    BY <1>2, BlankTyped DEF NoView
  <2> QED BY <1>2, <1>3, <2>1, <2>2, <2>3, <2>4 DEF TypeOK
<1>5. RegistersNamed
  BY <1>2, BlankTyped DEF RegistersNamed
<1>6. AgesCount /\ MovementsNumbered /\ ViewsCurrent
  BY <1>2, <1>3 DEF AgesCount, MovementsNumbered, ViewsCurrent
<1>7. BooksFinite /\ EntriesKnown
  BY <1>2, BlankTyped, FS_EmptySet DEF BooksFinite, EntriesKnown
<1>8. CheckoutsAreSound
  <2>1. \A r \in Reservations : LiveOf(r) = {}
    BY <1>3 DEF LiveOf, CheckoutsOf
  <2>2. \A r \in Reservations \ LegacyPaid : reservation[r].payment # "PAID"
    BY <1>1
  <2> QED BY <1>3, <2>1, <2>2 DEF CheckoutsAreSound, OneLiveCheckout, OneCheckoutPerRequest,
                                  SettledMatchesReservation
<1>9. RegistersAreTrue
  <2>1. MovementsMatchCheckouts
    BY <1>2, BlankTyped DEF MovementsMatchCheckouts
  <2>2. OneRegisterPerDay /\ ReportsStayTrue
    BY <1>2 DEF OneRegisterPerDay, ReportsStayTrue, NoRegister
  <2>3. ASSUME NEW s \in Sessions PROVE ExpectedCash(s) >= 0
    <3> DEFINE f == [m \in MovementsIn(s) |-> SignedAmount(m)]
    <3>1. DOMAIN f = {}
      BY <1>2 DEF MovementsIn
    <3>2. SumFunction(f) = 0
      <4> HIDE DEF f
      <4> QED BY <3>1, SumOfNothing
    <3>3. register[s].opening = 0
      BY <1>2 DEF NoRegister
    <3> QED BY <3>2, <3>3 DEF ExpectedCash
  <2> QED BY <2>1, <2>2, <2>3 DEF RegistersAreTrue, DrawerNeverShort
<1>10. TotalSpentIsExact
  <2>1. ASSUME NEW c \in Customers PROVE SpentBy(c, checkout) = 0
    <3> DEFINE f == [k \in MineIn(c, reservation, checkout) |-> Total(checkout[k].draft)]
    <3>1. DOMAIN f = {}
      BY <1>3 DEF MineIn, Finalized
    <3>2. SumFunction(f) = 0
      <4> HIDE DEF f
      <4> QED BY <3>1, SumOfNothing
    <3> QED BY <3>2, SpentByIs
  <2> QED BY <1>2, <2>1 DEF TotalSpentIsExact
<1> QED
  BY <1>4, <1>5, <1>6, <1>7, <1>8, <1>9, <1>10 DEF CashInv

\* Every step keeps the invariant.
LEMMA CashInvStep == ASSUME CashInv, [Next]_vars PROVE CashInv'
<1>1. TypeOK' /\ CashStep
  BY TypeStep, StepsAreCashSteps
<1>2. RegistersNamed' /\ AgesCount' /\ MovementsNumbered' /\ ViewsCurrent' /\ BooksFinite' /\ EntriesKnown'
  BY <1>1, RegistersNamedStep, AgesCountStep, MovementsNumberedStep, ViewsCurrentStep,
     BooksFiniteStep, EntriesKnownStep
<1>3. CheckoutsAreSound'
  BY <1>1, OneLiveCheckoutStep, OneCheckoutPerRequestStep, SettledMatchesStep DEF CheckoutsAreSound
<1>4. RegistersAreTrue'
  BY <1>1, MovementsMatchStep, OneRegisterPerDayStep, ReportsStayTrueStep, DrawerNeverShortStep
     DEF RegistersAreTrue
<1>5. TotalSpentIsExact'
  BY <1>1, TotalSpentStep
<1> QED
  BY <1>1, <1>2, <1>3, <1>4, <1>5 DEF CashInv

\* The inductive invariant of accounting.
THEOREM CashSafe == Spec => []CashInv
<1>1. Init => CashInv
  BY InitCashInv
<1>2. CashInv /\ [Next]_vars => CashInv'
  BY CashInvStep
<1> QED
  BY <1>1, <1>2, PTL DEF Spec

\* Every variable stays in its domain.
THEOREM CashTyped == Spec => []TypeOK
<1>1. CashInv => TypeOK
  BY DEF CashInv
<1> QED
  BY <1>1, CashSafe, PTL

\* However requests repeat and clerks meet, a reservation has one live checkout in one
\* chain of corrections, each request made one, and what is settled is what was sold.
THEOREM ReservationsHaveOneCheckout == Spec => []CheckoutsAreSound
<1>1. CashInv => CheckoutsAreSound
  BY DEF CashInv
<1> QED
  BY <1>1, CashSafe, PTL

\* Cash is booked once in and at most once out, no drawer is short, a day has one
\* register, and the report of a closed register is the truth for good.
THEOREM RegistersStayTrue == Spec => []RegistersAreTrue
<1>1. CashInv => RegistersAreTrue
  BY DEF CashInv
<1> QED
  BY <1>1, CashSafe, PTL

\* Customer.totalSpent is the sum of the customer's finalized checkouts in every state.
THEOREM TotalsAreExact == Spec => []TotalSpentIsExact
<1>1. CashInv => TotalSpentIsExact
  BY DEF CashInv
<1> QED
  BY <1>1, CashSafe, PTL

-----------------------------------------------------------------------------
(* Points                                                                   *)

\* An entry of nothing is not written.
Counted(e) == {x \in {e} : x.delta # 0}

\* Written or not, an entry counts with what it is about.
LEMMA PointsAdd ==
    ASSUME NEW es, es \subseteq EntryRows, IsFiniteSet(es), NEW e \in EntryRows, e \notin es
    PROVE  /\ PointsOf(es \cup Counted(e)) = PointsOf(es) + e.delta
           /\ PointsOf(es) \in Int /\ e.delta \in Int
<1>1. \A x \in es : x.delta \in Int
  BY DEF EntryRows
<1>2. e.delta \in Int
  BY DEF EntryRows
<1> DEFINE f == [x \in es |-> x.delta]
           g == [x \in es \cup {e} |-> x.delta]
<1>3. /\ DOMAIN f = es /\ DOMAIN g = es \cup {e}
      /\ \A x \in es : f[x] \in Int /\ g[x] = f[x]
      /\ g[e] = e.delta
  BY <1>1
<1>4. SumFunction(g) = SumFunction(f) + e.delta /\ SumFunction(f) \in Int
  <2> HIDE DEF f, g
  <2>1. SumFunction(g) = SumFunction(f) + g[e]
    BY <1>2, <1>3, SumOfOneMore
  <2>2. SumFunction(f) \in Int
    BY <1>3, SumOfInts
  <2> QED BY <1>3, <2>1, <2>2
<1>5. PointsOf(es) = SumFunction(f) /\ PointsOf(es \cup {e}) = SumFunction(g)
  BY DEF PointsOf
<1> HIDE DEF f, g
<1>6. CASE e.delta # 0
  <2>1. Counted(e) = {e}
    BY <1>6 DEF Counted
  <2> QED BY <1>2, <1>4, <1>5, <2>1
<1>7. CASE e.delta = 0
  <2>1. es \cup Counted(e) = es
    BY <1>7 DEF Counted
  <2> QED BY <1>2, <1>4, <1>5, <1>7, <2>1
<1> QED
  BY <1>2, <1>6, <1>7

\* No entries, no points.
LEMMA PointsOfNothing == PointsOf({}) = 0
<1> DEFINE f == [e \in {} |-> e.delta]
<1>1. DOMAIN f = {}
  OBVIOUS
<1>2. SumFunction(f) = 0
  <2> HIDE DEF f
  <2> QED BY <1>1, SumOfNothing
<1> QED
  BY <1>2 DEF PointsOf

\* A sale draws the points used and gives those earned; undone, it comes to nothing.
LEMMA PointsOfSaleSum ==
    ASSUME TypeOK, NEW c \in Existing
    PROVE  LET draft == checkout[c].draft
               sold == PointsOfSale(c, draft)
           IN /\ PointsOf(sold) = IF draft.account = NoAccount THEN 0
                                  ELSE Earned(Total(draft)) - draft.points
              /\ PointsOf(sold \cup Undone(sold)) = 0
<1> DEFINE draft == checkout[c].draft
           sold == PointsOfSale(c, draft)
           drawn == Drawn(c, draft)
           earned == EarnedBy(c, draft)
           back == [drawn EXCEPT !.kind = "REFUND", !.delta = -drawn.delta]
           taken == [earned EXCEPT !.kind = "EARN_REVERSAL", !.delta = -earned.delta]
<1>1. c \in Checkouts /\ draft \in DraftRows /\ Total(draft) \in Nat
  BY ExistingTyped
<1>2. draft.points \in Nat /\ Earned(Total(draft)) \in Nat
  BY <1>1, EarnedTyped DEF DraftRows
<1>3. sold = {e \in {drawn, earned} : draft.account # NoAccount /\ e.delta # 0}
  BY DEF PointsOfSale, Drawn, EarnedBy
<1>4. CASE draft.account = NoAccount
  <2>1. sold = {} /\ Undone(sold) = {}
    BY <1>3, <1>4 DEF Undone
  <2> HIDE DEF sold
  <2> QED BY <1>4, <2>1, PointsOfNothing DEF sold
<1>5. CASE draft.account # NoAccount
  <2>1. draft.account \in Accounts
    BY <1>1, <1>5 DEF DraftRows
  <2>2. drawn.delta = -draft.points /\ earned.delta = Earned(Total(draft))
    BY DEF Drawn, EarnedBy
  <2>3. drawn \in EntryRows /\ earned \in EntryRows
    BY <1>1, <1>2, <2>1 DEF Drawn, EarnedBy, EntryRows
  <2>4. -drawn.delta \in Int /\ -earned.delta \in Int
    BY <1>2, <2>2
  <2>5. back \in EntryRows /\ taken \in EntryRows
    BY <1>1, <2>1, <2>4 DEF Drawn, EarnedBy, EntryRows
  <2>6. /\ drawn.kind = "REDEEM" /\ earned.kind = "EARN"
        /\ back.kind = "REFUND" /\ taken.kind = "EARN_REVERSAL"
        /\ back.delta = -drawn.delta /\ taken.delta = -earned.delta
    BY DEF Drawn, EarnedBy
  <2>7. drawn # earned /\ drawn # back /\ drawn # taken /\ earned # back /\ earned # taken /\ back # taken
    BY <2>6
  <2>8. back = [drawn EXCEPT !.kind = IF drawn.kind = "REDEEM" THEN "REFUND" ELSE "EARN_REVERSAL",
                             !.delta = -drawn.delta]
    BY <2>6
  <2>9. taken = [earned EXCEPT !.kind = IF earned.kind = "REDEEM" THEN "REFUND" ELSE "EARN_REVERSAL",
                               !.delta = -earned.delta]
    BY <2>6
  <2> HIDE DEF drawn, earned, back, taken
  <2>10. sold = Counted(drawn) \cup Counted(earned)
    BY <1>3, <1>5 DEF Counted
  <2>11. Undone(sold) = Counted(back) \cup Counted(taken)
    <3>1. ASSUME NEW x PROVE x \in Undone(sold) <=> \E e \in sold :
               x = [e EXCEPT !.kind = IF e.kind = "REDEEM" THEN "REFUND" ELSE "EARN_REVERSAL",
                             !.delta = -e.delta]
      BY DEF Undone
    <3>2. ASSUME NEW x PROVE x \in sold <=> \/ x = drawn /\ drawn.delta # 0
                                            \/ x = earned /\ earned.delta # 0
      BY <2>10 DEF Counted
    <3>3. drawn.delta # 0 <=> back.delta # 0
      BY <2>4, <2>6, <1>2, <2>2
    <3>4. earned.delta # 0 <=> taken.delta # 0
      BY <2>4, <2>6, <1>2, <2>2
    <3>5. ASSUME NEW x PROVE x \in Undone(sold) <=> \/ x = back /\ back.delta # 0
                                                    \/ x = taken /\ taken.delta # 0
      <4> DEFINE Turned(e) ==
            [e EXCEPT !.kind = IF e.kind = "REDEEM" THEN "REFUND" ELSE "EARN_REVERSAL",
                      !.delta = -e.delta]
      <4>1. x \in Undone(sold) <=> \E e \in sold : x = Turned(e)
        BY <3>1
      <4>2. Turned(drawn) = back /\ Turned(earned) = taken
        BY <2>8, <2>9
      <4> HIDE DEF sold, Turned
      <4> QED BY <3>2, <3>3, <3>4, <4>1, <4>2
    <3> HIDE DEF sold
    <3> QED BY <3>5 DEF Counted
  <2> DEFINE one == {} \cup Counted(drawn)
             two == one \cup Counted(earned)
             three == two \cup Counted(back)
             four == three \cup Counted(taken)
  <2>12. \A e : IsFiniteSet(Counted(e)) /\ Counted(e) \subseteq {e}
    <3>1. ASSUME NEW e PROVE IsFiniteSet(Counted(e)) /\ Counted(e) \subseteq {e}
      <4>1. Counted(e) \in SUBSET {e} /\ IsFiniteSet({e})
        BY FS_Singleton DEF Counted
      <4> QED BY <4>1, FS_Subset
    <3> QED BY <3>1
  <2>13. /\ one \subseteq {drawn} /\ two \subseteq {drawn, earned}
         /\ three \subseteq {drawn, earned, back}
    BY <2>12
  <2>14. IsFiniteSet(one) /\ IsFiniteSet(two) /\ IsFiniteSet(three)
    BY <2>12, FS_EmptySet, FS_Union
  <2>15. PointsOf(one) = drawn.delta
    <3>1. PointsOf(one) = PointsOf({}) + drawn.delta
      BY <2>3, FS_EmptySet, PointsAdd
    <3> HIDE DEF one
    <3> QED BY <1>2, <2>2, <3>1, PointsOfNothing
  <2> HIDE DEF one
  <2>16. PointsOf(two) = drawn.delta + earned.delta
    <3>1. one \subseteq EntryRows /\ earned \notin one
      BY <2>3, <2>7, <2>13
    <3> QED BY <2>3, <2>14, <2>15, <3>1, PointsAdd
  <2> HIDE DEF two
  <2>17. PointsOf(three) = PointsOf(two) + back.delta
    <3>1. two \subseteq EntryRows /\ back \notin two
      BY <2>3, <2>7, <2>13
    <3> QED BY <2>5, <2>14, <3>1, PointsAdd
  <2> HIDE DEF three
  <2>18. PointsOf(four) = PointsOf(three) + taken.delta
    <3>1. three \subseteq EntryRows /\ taken \notin three
      BY <2>3, <2>5, <2>7, <2>13
    <3> QED BY <2>5, <2>14, <3>1, PointsAdd
  <2>19. PointsOf(four) = 0
    BY <1>2, <2>2, <2>6, <2>16, <2>17, <2>18
  <2>20. sold = two /\ sold \cup Undone(sold) = four
    BY <2>10, <2>11 DEF one, two, three
  <2> HIDE DEF four, sold
  <2>21. PointsOf(sold) = Earned(Total(draft)) - draft.points
    BY <1>2, <2>2, <2>16, <2>20
  <2> QED BY <1>5, <2>19, <2>20, <2>21 DEF sold
<1> QED
  BY <1>4, <1>5

\* The points follow the money in every state of the invariant.
LEMMA PointsFollow == ASSUME CashInv PROVE PointsFollowTheMoney
<1>1. ASSUME NEW c \in Checkouts
      PROVE  LET sum == PointsOf({e \in entries : e.checkout = c})
                 draft == checkout[c].draft
             IN /\ checkout[c].status = "FINALIZED" =>
                     sum = IF draft.account = NoAccount THEN 0 ELSE Earned(Total(draft)) - draft.points
                /\ checkout[c].status = "REVERSED" => sum = 0
  <2>1. TypeOK /\ EntriesKnown
    BY DEF CashInv
  <2>2. CASE checkout[c].status \in {"FINALIZED", "REVERSED"}
    <3>1. c \in Existing
      BY <2>2 DEF Existing
    <3> QED BY <2>1, <3>1, PointsOfSaleSum DEF EntriesKnown
  <2> QED BY <2>2
<1>2. \A c \in Checkouts : checkout[c].status \in {"NONE", "DRAFT"} =>
                              {e \in entries : e.checkout = c} = {}
  BY DEF CashInv, EntriesKnown
<1> QED
  BY <1>1, <1>2 DEF PointsFollowTheMoney

\* The points of a checkout are those of its sale while its money is held, and nothing
\* before and after.
THEOREM PointsFollowMoney == Spec => []PointsFollowTheMoney
<1>1. CashInv => PointsFollowTheMoney
  BY PointsFollow
<1> QED
  BY <1>1, CashSafe, PTL

-----------------------------------------------------------------------------
(* Accounting implements the book of settlements                            *)

\* A step of the desk is a step of the abstract book, or none of it.
LEMMA StepsAreBookSteps ==
    ASSUME CashInv, [Next]_vars
    PROVE  [Book!Next]_(Book!bookVars)
<1> DEFINE context == [r \in Reservations |-> reservation[r].context]
           payment == [r \in Reservations |-> reservation[r].payment]
<1>1. CashStep /\ TypeOK
  BY StepsAreCashSteps DEF CashInv
<1>2. ASSUME NEW c \in Checkouts, NEW s \in Sessions, Collects(c, s) PROVE Book!Next
  <2>1. PICK r \in Reservations :
            r = checkout[c].of /\ reservation' = [reservation EXCEPT ![r].payment = "PAID"]
    BY <1>2 DEF Collects, Writes
  <2>2. r \notin Settled /\ Settled' = Settled \cup {r}
    BY <1>1, <1>2, <2>1, SettledMoves
  <2>3. context' = context /\ payment' = [payment EXCEPT ![r] = "PAID"]
    BY <1>1, <2>1 DEF TypeOK
  <2>4. Book!Collect(r)
    BY <2>2, <2>3 DEF Book!Collect
  <2> QED BY <2>1, <2>4 DEF Book!Next
<1>3. ASSUME NEW c \in Checkouts, NEW s \in Sessions, GivesBack(c, s) PROVE Book!Next
  <2>1. PICK r \in Reservations :
            r = checkout[c].of /\ reservation' = [reservation EXCEPT ![r].payment = "REFUNDED"]
    BY <1>3 DEF GivesBack, Writes
  <2>2. r \in Settled /\ Settled' = Settled \ {r}
    BY <1>1, <1>3, <2>1, SettledMoves
  <2>3. context' = context /\ payment' = [payment EXCEPT ![r] = "REFUNDED"]
    BY <1>1, <2>1 DEF TypeOK
  <2>4. Book!GiveBack(r)
    BY <2>2, <2>3 DEF Book!GiveBack
  <2> QED BY <2>1, <2>4 DEF Book!Next
<1>4. ASSUME NEW r \in Reservations, EditReservation(r), Settled' = Settled PROVE Book!Next
  <2>1. PICK new \in Contexts : reservation' = [reservation EXCEPT ![r].context = new]
    BY <1>4 DEF EditReservation
  <2>2. /\ context' \in [Reservations -> Contexts] /\ payment' = payment
        /\ \A other \in Reservations \ {r} : context'[other] = context[other]
    BY <1>1, <2>1 DEF TypeOK
  <2>3. Book!Rebook(r)
    BY <1>4, <2>2 DEF Book!Rebook, EditReservation
  <2> QED BY <2>3 DEF Book!Next
<1>5. ASSUME NEW r \in Reservations, ChangeStatus(r), Settled' = Settled
      PROVE  UNCHANGED Book!bookVars
  <2>1. context' = context /\ payment' = payment
    BY <1>1, <1>5 DEF TypeOK, ChangeStatus
  <2> QED BY <1>5, <2>1 DEF Book!bookVars
<1>6. ASSUME UNCHANGED reservation, Settled' = Settled PROVE UNCHANGED Book!bookVars
  <2>1. context' = context /\ payment' = payment
    BY <1>6
  <2> QED BY <1>6, <2>1 DEF Book!bookVars
<1>7. CASE \A c \in Checkouts, s \in Sessions : ~Collects(c, s) /\ ~GivesBack(c, s)
  <2>1. Settled' = Settled
    BY <1>1, <1>7, SettledMoves
  <2>2. \/ UNCHANGED reservation
        \/ \E q \in Reservations : EditReservation(q) \/ ChangeStatus(q)
    BY <1>1, <1>7 DEF CashStep, DeskStep, Load
  <2> QED BY <1>4, <1>5, <1>6, <2>1, <2>2
<1> QED
  BY <1>2, <1>3, <1>7

\* Accounting implements the book: money is collected for a reservation when none is
\* held, given back only when it is, and what was sold stays in between.
THEOREM CashImplementsBook == Spec => ImplementsBook
<1>1. ASSUME Init PROVE Book!Init
  <2>1. PICK context \in [Reservations -> Contexts], paid \in SUBSET LegacyPaid :
            reservation = [r \in Reservations |->
                [context |-> context[r], released |-> FALSE,
                 payment |-> IF r \in paid THEN "PAID" ELSE "UNPAID"]]
    BY <1>1 DEF Init
  <2>2. checkout = [c \in Checkouts |-> NoRow]
    BY <1>1 DEF Init
  <2>3. Settled = {}
    BY <2>2, BlankTyped DEF Settled, Finalized
  <2>4. /\ [r \in Reservations |-> reservation[r].context] \in [Reservations -> Contexts]
        /\ [r \in Reservations |-> reservation[r].payment] \in [Reservations -> {"UNPAID", "PAID"}]
    BY <2>1
  <2> QED BY <2>3, <2>4 DEF Book!Init
<1>2. CashInv /\ [Next]_vars => [Book!Next]_(Book!bookVars)
  BY StepsAreBookSteps
<1> QED
  BY <1>1, <1>2, CashSafe, PTL DEF Spec, ImplementsBook, Book!Spec
=============================================================================
