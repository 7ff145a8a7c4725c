--------------------------------- MODULE Cash ---------------------------------
(***************************************************************************)
(* Checkouts and the cash register of one salon: cash-routes.ts, the rules *)
(* of cash-domain.ts, the point entries of membership-domain.ts and the    *)
(* totals of accounting-stats.ts.                                          *)
(*                                                                         *)
(* Every handler takes lockOperation first and reads everything after it,  *)
(* so a handler is one step.  What interleaves is the clerks: a clerk      *)
(* works on the checkout as it was when it was loaded (view), and the desk *)
(* (module Booking) goes on editing and cancelling reservations.           *)
(***************************************************************************)
EXTENDS Integers, FiniteSets, Functions

CONSTANTS
    Reservations, Customers, Accounts, Checkouts, Sessions, Clerks,
    CreateRequests,     \* requestIds of POST /api/cash/checkouts
    NoAccount, NoCheckout, NoSession, NoRequest,
    Contexts,           \* what a reservation sells: interval, staff, customer, service
    CustomerOf,         \* the customer of a context
    PriceOf,            \* the price of its service
    AccountOf,          \* the member account a customer is linked to
    LegacyPaid,         \* reservations that may be marked paid before there were checkouts
    Drafts,             \* the drafts clerks save
    Openings, Amounts,  \* yen a register is opened with, is given and loses by hand
    PointChoices,       \* points members ask to use
    InitialPoints,      \* what each account starts with
    EarnYenUnit, EarnPoints,    \* MEMBERSHIP_POLICY
    LastDay,            \* bound on the business dates
    MaxVersion,         \* bound on the changes of a draft
    MaxEntries          \* bound on the changes of a register

DraftRows == [price: Nat, points: Nat, account: Accounts \cup {NoAccount},
              cash: Nat, external: Nat, other: Nat, ack: BOOLEAN]

ASSUME CashAssumption ==
    /\ IsFiniteSet(Checkouts)
    /\ NoAccount \notin Accounts /\ NoCheckout \notin Checkouts
    /\ NoSession \notin Sessions /\ NoRequest \notin CreateRequests
    /\ CustomerOf \in [Contexts -> Customers] /\ PriceOf \in [Contexts -> Nat]
    /\ AccountOf \in [Customers -> Accounts \cup {NoAccount}]
    /\ LegacyPaid \subseteq Reservations
    /\ Drafts \subseteq DraftRows
    /\ \A d \in Drafts : d.points <= d.price /\ (d.account = NoAccount => d.points = 0)
    /\ Openings \subseteq Nat /\ Amounts \subseteq Nat /\ PointChoices \subseteq Nat
    /\ InitialPoints \in Nat /\ EarnYenUnit \in Nat \ {0} /\ EarnPoints \in Nat
    /\ LastDay \in Nat /\ MaxVersion \in Nat /\ MaxEntries \in Nat

VARIABLES
    reservation,    \* the Reservation rows, as far as accounting reads them
    checkout,       \* the CashCheckout rows
    register,       \* the CashRegisterSession rows
    movements,      \* the CashRegisterMovement rows
    entries,        \* the MembershipPointEntry rows
    totalSpent,     \* Customer.totalSpent
    mails,          \* the notifications put into the outbox
    today,          \* the business date
    view            \* the checkout each clerk has on the screen

vars == <<reservation, checkout, register, movements, entries, totalSpent, mails,
          today, view>>

EmptyDraft == [price |-> 0, points |-> 0, account |-> NoAccount,
               cash |-> 0, external |-> 0, other |-> 0, ack |-> FALSE]
NoRow == [status |-> "NONE", version |-> 0, of |-> NoCheckout, context |-> NoCheckout,
          draft |-> EmptyDraft, previous |-> NoCheckout, age |-> 0,
          createdBy |-> NoRequest, finalizedIn |-> NoSession, reversedIn |-> NoSession]
NoReport == [expected |-> 0, sales |-> {}, refunds |-> {}, net |-> 0, movements |-> {}]
NoRegister == [status |-> "NONE", day |-> 0, opening |-> 0, version |-> 0,
               report |-> NoReport]
NoView == [id |-> NoCheckout, row |-> NoRow]

-----------------------------------------------------------------------------
Existing == {c \in Checkouts : checkout[c].status # "NONE"}
Finalized == {c \in Checkouts : checkout[c].status = "FINALIZED"}
CheckoutsOf(r) == {c \in Existing : checkout[c].of = r}
ReversedOf(r) == {c \in CheckoutsOf(r) : checkout[c].status = "REVERSED"}
LiveOf(r) == CheckoutsOf(r) \ ReversedOf(r)
Settled == {checkout[c].of : c \in Finalized}

Total(draft) == draft.price - draft.points
Allocated(draft) == draft.cash + draft.external + draft.other

\* expectedCash
SignedAmount(m) == IF m.kind \in {"IN", "SALE"} THEN m.amount ELSE -m.amount
MovementsIn(s) == {m \in movements : m.session = s}
ExpectedCash(s) == register[s].opening + SumFunction([m \in MovementsIn(s) |-> SignedAmount(m)])

\* membershipBalance; reversals may leave a debt, which is not spendable
PointsOf(es) == SumFunction([e \in es |-> e.delta])
Balance(a) == InitialPoints + PointsOf({e \in entries : e.account = a})
Available(a) == IF Balance(a) > 0 THEN Balance(a) ELSE 0
Earned(total) == (total \div EarnYenUnit) * EarnPoints

\* customerAccountingTotals: finalized checkouts, by the customer the reservation has now
SpentBy(c, book) ==
    LET mine == {k \in Checkouts : /\ book[k].status = "FINALIZED"
                                   /\ CustomerOf[reservation[book[k].of].context] = c}
    IN SumFunction([k \in mine |-> Total(book[k].draft)])

Released(r) == reservation[r].released      \* CANCELLED or NO_SHOW

\* prepareMembership and assertMembershipPrepayment
MembershipAccepts(r, draft) ==
    draft.account # NoAccount =>
        /\ draft.account = AccountOf[CustomerOf[reservation[r].context]]
        /\ draft.points <= Available(draft.account)
        /\ draft.points > 0 => reservation[r].payment # "PAID"

\* assertCashSettlement
SettlementAccepts(row) ==
    LET draft == row.draft
        payment == reservation[row.of].payment
    IN /\ Allocated(draft) = Total(draft)
       /\ draft.external > 0 \/ payment = "PAID" => draft.ack
       /\ payment = "PAID" => draft.cash = 0 /\ draft.other = 0
       /\ payment = "REFUNDED" =>
             row.previous # NoCheckout /\ checkout[row.previous].status = "REVERSED"

\* variant: a closed register is as good as an open one
UsableClosed(s) == register[s].status # "NONE" /\ register[s].day = today

\* openRegister
Usable(s) == register[s].status = "OPEN" /\ register[s].day = today

-----------------------------------------------------------------------------
Init ==
    /\ \E context \in [Reservations -> Contexts], paid \in SUBSET LegacyPaid :
          reservation = [r \in Reservations |->
              [context |-> context[r], released |-> FALSE,
               payment |-> IF r \in paid THEN "PAID" ELSE "UNPAID"]]
    /\ checkout = [c \in Checkouts |-> NoRow]
    /\ register = [s \in Sessions |-> NoRegister]
    /\ movements = {} /\ entries = {} /\ mails = {}
    /\ totalSpent = [c \in Customers |-> 0]
    /\ today = 0
    /\ view = [k \in Clerks |-> NoView]

-----------------------------------------------------------------------------
(* Checkouts                                                               *)

\* variant: only a finalized checkout is in the way
NoLiveCheckoutFinalized(r) == \A c \in CheckoutsOf(r) : checkout[c].status # "FINALIZED"

\* Otherwise the live one is returned as it is.
NoLiveCheckout(r) == LiveOf(r) = {}

\* A request that made a checkout before gets that one, whatever became of it.
UnseenRequest(q) == \A c \in Checkouts : checkout[c].createdBy # q

\* POST /api/cash/checkouts
CreateCheckout(r, c) ==
    /\ checkout[c].status = "NONE"
    /\ NoLiveCheckout(r)
    /\ ~Released(r)
    /\ reservation[r].payment = "REFUNDED" => ReversedOf(r) # {}
    /\ \E q \in CreateRequests, points \in PointChoices, a \in Accounts \cup {NoAccount},
          previous \in ReversedOf(r) \cup {NoCheckout} :
         LET draft == [EmptyDraft EXCEPT !.price = PriceOf[reservation[r].context],
                                         !.points = points, !.account = a]
         IN /\ UnseenRequest(q)
            /\ a = NoAccount => points = 0
            /\ points <= draft.price
            /\ MembershipAccepts(r, draft)
            /\ previous = NoCheckout => ReversedOf(r) = {}
            /\ \A other \in ReversedOf(r) : checkout[other].age <= checkout[previous].age
            /\ checkout' = [checkout EXCEPT ![c] =
                  [NoRow EXCEPT !.status = "DRAFT", !.version = 1, !.of = r, !.draft = draft,
                     !.context = reservation[r].context, !.previous = previous,
                     !.age = Cardinality(Existing), !.createdBy = q]]
    /\ UNCHANGED <<reservation, register, movements, entries, totalSpent, mails, today, view>>

\* A clerk opens a checkout; what follows is about the row as it was then.
Load(k, c) ==
    /\ checkout[c].status # "NONE"
    /\ view' = [view EXCEPT ![k] = [id |-> c, row |-> checkout[c]]]
    /\ UNCHANGED <<reservation, checkout, register, movements, entries, totalSpent, mails, today>>

\* assertCashVersion(..., "DRAFT")
CurrentDraft(k) ==
    /\ view[k] # NoView
    /\ checkout[view[k].id].status = "DRAFT"
    /\ checkout[view[k].id].version = view[k].row.version

\* PUT /api/cash/checkouts/:id, which leaves the reservation snapshot alone
SaveDraft(k) ==
    LET c == view[k].id IN
    /\ CurrentDraft(k) /\ checkout[c].version < MaxVersion
    /\ \E draft \in Drafts :
          /\ MembershipAccepts(checkout[c].of, draft)
          /\ checkout' = [checkout EXCEPT ![c].draft = draft, ![c].version = @ + 1]
    /\ UNCHANGED <<reservation, register, movements, entries, totalSpent, mails, today, view>>

\* POST /api/cash/checkouts/:id/refresh-reservation
RefreshDraft(k) ==
    LET c == view[k].id
        context == reservation[checkout[c].of].context
    IN /\ CurrentDraft(k) /\ checkout[c].version < MaxVersion
       /\ ~Released(checkout[c].of)
       /\ checkout' = [checkout EXCEPT ![c].version = @ + 1, ![c].context = context,
                          ![c].draft = [EmptyDraft EXCEPT !.price = PriceOf[context]]]
       /\ UNCHANGED <<reservation, register, movements, entries, totalSpent, mails, today, view>>

\* finalizeMembershipPoints; entries of nothing are not written
PointsOfSale(c, draft) ==
    LET drawn == [checkout |-> c, kind |-> "REDEEM", account |-> draft.account,
                  delta |-> -draft.points]
        earned == [checkout |-> c, kind |-> "EARN", account |-> draft.account,
                   delta |-> Earned(Total(draft))]
    IN {e \in {drawn, earned} : draft.account # NoAccount /\ e.delta # 0}

\* variant: the points earned are left with the member
PointsOfRefundDrawn(c) ==
    {[e EXCEPT !.kind = "REFUND", !.delta = -e.delta] :
        e \in {e \in entries : e.checkout = c /\ e.kind = "REDEEM"}}

\* the other way round
Undone(es) ==
    {[e EXCEPT !.kind = IF e.kind = "REDEEM" THEN "REFUND" ELSE "EARN_REVERSAL",
               !.delta = -e.delta] : e \in es}

\* reverseMembershipPoints: what was written for the checkout is undone
PointsOfRefund(c) == Undone({e \in entries : e.checkout = c /\ e.kind \in {"REDEEM", "EARN"}})

\* variant: the amount is booked whether or not it was cash
RecordZero(s, kind, amount, c) ==
    /\ movements' = movements \cup
          {[session |-> s, number |-> register[s].version, kind |-> kind,
            amount |-> amount, checkout |-> c]}
    /\ register' = [register EXCEPT ![s].version = @ + 1]

\* addCheckoutMovement and the new version of the session
Record(s, kind, amount, c) ==
    LET m == [session |-> s, number |-> register[s].version, kind |-> kind,
              amount |-> amount, checkout |-> c]
    IN /\ movements' = IF amount > 0 THEN movements \cup {m} ELSE movements
       /\ register' = [register EXCEPT ![s].version = @ + 1]

\* variant: the snapshot is not compared with the reservation
SnapshotCurrentAny(c) == TRUE

\* CASH_RESERVATION_CHANGED otherwise
SnapshotCurrent(c) == checkout[c].context = reservation[checkout[c].of].context

\* variant: only the checkouts finalized before count
SpentAfterBefore(r, book) ==
    LET c == CustomerOf[reservation[r].context]
    IN [totalSpent EXCEPT ![c] = SpentBy(c, checkout)]

\* refreshCustomerAccounting
SpentAfter(r, book) ==
    LET c == CustomerOf[reservation[r].context]
    IN [totalSpent EXCEPT ![c] = SpentBy(c, book)]

\* POST /api/cash/checkouts/:id/finalize
Finalize(k, s) ==
    LET c == view[k].id
        r == checkout[c].of
        draft == checkout[c].draft
        book == [checkout EXCEPT ![c].status = "FINALIZED", ![c].version = @ + 1,
                                 ![c].finalizedIn = s]
    IN /\ CurrentDraft(k) /\ register[s].version < MaxEntries
       /\ ~Released(r)
       /\ SnapshotCurrent(c)
       /\ SettlementAccepts(checkout[c])
       /\ Usable(s)
       /\ MembershipAccepts(r, draft)
       /\ checkout' = book
       /\ Record(s, "SALE", draft.cash, c)
       /\ entries' = entries \cup PointsOfSale(c, draft)
       /\ reservation' = [reservation EXCEPT ![r].payment = "PAID"]
       /\ totalSpent' = SpentAfter(r, book)
       /\ mails' = mails \cup {<<"checkout.finalized", c>>}
       /\ UNCHANGED <<today, view>>

\* REGISTER_CASH_SHORTAGE otherwise
DrawerCovers(s, amount) == ExpectedCash(s) >= amount

\* POST /api/cash/checkouts/:id/reverse: the register open today pays, whichever it
\* was that took the money; points spent since leave a debt; no version is asked for
Reverse(c, s) ==
    LET r == checkout[c].of
        book == [checkout EXCEPT ![c].status = "REVERSED", ![c].version = @ + 1,
                                 ![c].reversedIn = s]
    IN /\ checkout[c].status = "FINALIZED" /\ register[s].version < MaxEntries
       /\ Usable(s)
       /\ checkout[c].draft.cash > 0 => DrawerCovers(s, checkout[c].draft.cash)
       /\ checkout' = book
       /\ Record(s, "REFUND", checkout[c].draft.cash, c)
       /\ entries' = entries \cup PointsOfRefund(c)
       /\ reservation' = [reservation EXCEPT ![r].payment = "REFUNDED"]
       /\ totalSpent' = SpentAfter(r, book)
       /\ mails' = mails \cup {<<"checkout.reversed", c>>}
       /\ UNCHANGED <<today, view>>

-----------------------------------------------------------------------------
(* The register                                                            *)

\* REGISTER_ALREADY_EXISTS otherwise
NoRegisterInTheWay(day) ==
    \A s \in Sessions : /\ register[s].status # "OPEN"
                        /\ register[s].status # "NONE" => register[s].day # day

\* POST /api/cash/register-sessions
OpenRegister(s) ==
    /\ register[s].status = "NONE"
    /\ NoRegisterInTheWay(today)
    /\ \E opening \in Openings :
          register' = [register EXCEPT ![s] = [NoRegister EXCEPT !.status = "OPEN",
                          !.day = today, !.opening = opening, !.version = 1]]
    /\ UNCHANGED <<reservation, checkout, movements, entries, totalSpent, mails, today, view>>

\* POST /api/cash/register-sessions/:id/movements, also on the days after
MoveCash(s) ==
    /\ register[s].status = "OPEN" /\ register[s].version < MaxEntries
    /\ \E kind \in {"IN", "OUT"}, amount \in Amounts :
          /\ amount > 0
          /\ kind = "OUT" => DrawerCovers(s, amount)
          /\ Record(s, kind, amount, NoCheckout)
    /\ UNCHANGED <<reservation, checkout, entries, totalSpent, mails, today, view>>

SalesIn(s) == {c \in Checkouts : checkout[c].finalizedIn = s}
RefundsIn(s) == {c \in Checkouts : checkout[c].reversedIn = s}
TotalsOf(cs) == SumFunction([c \in cs |-> Total(checkout[c].draft)])

\* closeSnapshot
Report(s) ==
    [expected |-> ExpectedCash(s), sales |-> SalesIn(s), refunds |-> RefundsIn(s),
     net |-> TotalsOf(SalesIn(s)) - TotalsOf(RefundsIn(s)), movements |-> MovementsIn(s)]

\* POST /api/cash/register-sessions/:id/close, also on the days after
CloseRegister(s) ==
    /\ register[s].status = "OPEN"
    /\ register' = [register EXCEPT ![s].status = "CLOSED", ![s].version = @ + 1,
                                    ![s].report = Report(s)]
    /\ UNCHANGED <<reservation, checkout, movements, entries, totalSpent, mails, today, view>>

-----------------------------------------------------------------------------
(* What the desk does meanwhile (module Booking has the handlers)          *)

\* A reservation with a finalized checkout keeps what it sold.
EditReservation(r) ==
    /\ r \notin Settled
    /\ \E new \in Contexts :
          /\ new # reservation[r].context
          /\ reservation' = [reservation EXCEPT ![r].context = new]
    /\ UNCHANGED <<checkout, register, movements, entries, totalSpent, mails, today, view>>

\* Staff may cancel, and take up again, a reservation at any time.
ChangeStatus(r) ==
    /\ reservation' = [reservation EXCEPT ![r].released = ~@]
    /\ UNCHANGED <<checkout, register, movements, entries, totalSpent, mails, today, view>>

NextDay ==
    /\ today < LastDay
    /\ today' = today + 1
    /\ UNCHANGED <<reservation, checkout, register, movements, entries, totalSpent, mails, view>>

Next ==
    \/ \E r \in Reservations, c \in Checkouts : CreateCheckout(r, c)
    \/ \E k \in Clerks : \/ \E c \in Checkouts : Load(k, c)
                         \/ SaveDraft(k) \/ RefreshDraft(k)
                         \/ \E s \in Sessions : Finalize(k, s)
    \/ \E c \in Checkouts, s \in Sessions : Reverse(c, s)
    \/ \E s \in Sessions : OpenRegister(s) \/ MoveCash(s) \/ CloseRegister(s)
    \/ \E r \in Reservations : EditReservation(r) \/ ChangeStatus(r)
    \/ NextDay

Spec == Init /\ [][Next]_vars
-----------------------------------------------------------------------------
(* What accounting promises                                                *)

Rows == [status: {"NONE", "DRAFT", "FINALIZED", "REVERSED"}, version: Nat,
         of: Reservations \cup {NoCheckout}, context: Contexts \cup {NoCheckout},
         draft: DraftRows, previous: Checkouts \cup {NoCheckout}, age: Nat,
         createdBy: CreateRequests \cup {NoRequest},
         finalizedIn: Sessions \cup {NoSession}, reversedIn: Sessions \cup {NoSession}]

MovementRows == [session: Sessions, number: Nat, amount: Nat \ {0},
                 kind: {"IN", "OUT", "SALE", "REFUND"}, checkout: Checkouts \cup {NoCheckout}]
EntryRows == [checkout: Checkouts, account: Accounts, delta: Int,
              kind: {"REDEEM", "EARN", "REFUND", "EARN_REVERSAL"}]
Registers == [status: {"NONE", "OPEN", "CLOSED"}, day: Nat, opening: Nat, version: Nat,
              report: [expected: Int, sales: SUBSET Checkouts, refunds: SUBSET Checkouts,
                       net: Int, movements: SUBSET MovementRows]]

\* Every variable stays in its domain.
TypeOK ==
    /\ reservation \in [Reservations -> [context: Contexts, released: BOOLEAN,
                                         payment: {"UNPAID", "PAID", "REFUNDED"}]]
    /\ checkout \in [Checkouts -> Rows]
    /\ \A c \in Existing : /\ checkout[c].of \in Reservations
                           /\ checkout[c].context \in Contexts
                           /\ checkout[c].draft.points <= checkout[c].draft.price
    /\ register \in [Sessions -> Registers]
    /\ movements \subseteq MovementRows /\ entries \subseteq EntryRows
    /\ DOMAIN totalSpent = Customers /\ today \in Nat
    /\ mails \subseteq {"checkout.finalized", "checkout.reversed"} \X Checkouts
    /\ view \in [Clerks -> [id: Checkouts \cup {NoCheckout}, row: Rows]]

\* A reservation has at most one checkout that is not taken back, and its
\* corrections form a chain: each supersedes a reversed one that no other supersedes.
OneLiveCheckout ==
    /\ \A r \in Reservations : \A c, d \in LiveOf(r) : c = d
    /\ \A c \in Existing : checkout[c].previous # NoCheckout =>
          LET p == checkout[c].previous IN
          /\ checkout[p].status = "REVERSED" /\ checkout[p].of = checkout[c].of
          /\ checkout[p].age < checkout[c].age
          /\ \A d \in Existing : checkout[d].previous = p => d = c

\* While the money of a reservation is held the reservation is what was sold, is
\* marked paid, and no other reservation without money is (but for legacy rows).
SettledMatchesReservation ==
    /\ \A c \in Finalized : /\ reservation[checkout[c].of].payment = "PAID"
                            /\ reservation[checkout[c].of].context = checkout[c].context
    /\ \A r \in Reservations \ LegacyPaid :
          reservation[r].payment = "PAID" <=> r \in Settled

\* Cash of a checkout enters the drawer once, on finalize, in the register that
\* finalized it, and leaves it once, on reversal; nothing else is booked as sale or refund.
MovementsMatchCheckouts ==
    /\ \A c \in Checkouts, kind \in {"SALE", "REFUND"} :
          LET mine == {m \in movements : m.kind = kind /\ m.checkout = c}
              s == IF kind = "SALE" THEN checkout[c].finalizedIn ELSE checkout[c].reversedIn
          IN /\ \A m \in mine : m.session = s /\ m.amount = checkout[c].draft.cash
             /\ \A m, n \in mine : m = n
             /\ mine # {} <=> s # NoSession /\ checkout[c].draft.cash > 0
    /\ \A m \in movements : m.kind \in {"IN", "OUT"} <=> m.checkout = NoCheckout

\* At most one register is open, and no business day has two.
OneRegisterPerDay ==
    \A s, t \in Sessions : s # t =>
        /\ ~(register[s].status = "OPEN" /\ register[t].status = "OPEN")
        /\ register[s].status # "NONE" /\ register[t].status # "NONE" =>
              register[s].day # register[t].day

\* The report of a closed register stays the whole truth about it: what happens to
\* its checkouts on later days changes neither its sales nor its cash.
ReportsStayTrue ==
    \A s \in Sessions : register[s].status = "CLOSED" => register[s].report = Report(s)

\* There is never less than nothing in a drawer.
DrawerNeverShort == \A s \in Sessions : ExpectedCash(s) >= 0

\* What the registers say holds on every later day: the cash of each checkout once in
\* and at most once out, one register a day, no drawer that paid out what it did not
\* hold, and reports that no later refund makes untrue.
RegistersAreTrue ==
    MovementsMatchCheckouts /\ OneRegisterPerDay /\ ReportsStayTrue /\ DrawerNeverShort

\* A customer's total spending is what is collected and not given back for the
\* customer's reservations, also after reservations changed hands.
TotalSpentIsExact == \A c \in Customers : totalSpent[c] = SpentBy(c, checkout)

\* Points are drawn and earned with the sale, given back with the refund, and
\* otherwise untouched: drafts have no entries, reversed checkouts come to nothing.
PointsFollowTheMoney ==
    \A c \in Checkouts :
        LET mine == {e \in entries : e.checkout = c}
            draft == checkout[c].draft
            sum == PointsOf(mine)
        IN /\ checkout[c].status \in {"NONE", "DRAFT"} => mine = {}
           /\ checkout[c].status = "FINALIZED" =>
                 sum = IF draft.account = NoAccount THEN 0
                       ELSE Earned(Total(draft)) - draft.points
           /\ checkout[c].status = "REVERSED" => sum = 0

\* A creation request makes one checkout however often it arrives, also when that
\* checkout has been taken back since.
OneCheckoutPerRequest ==
    \A c, d \in Existing : checkout[c].createdBy = checkout[d].createdBy => c = d

\* However requests repeat and clerks meet, a reservation has one live checkout, one
\* for each request, and is what that checkout sold.
CheckoutsAreSound == OneLiveCheckout /\ OneCheckoutPerRequest /\ SettledMatchesReservation

\* To the outside, accounting is the book of module SettlementBook: money is held
\* for a reservation once, is given back once, and what was sold stays meanwhile.
Book == INSTANCE SettlementBook WITH
            context <- [r \in Reservations |-> reservation[r].context],
            payment <- [r \in Reservations |-> reservation[r].payment],
            settled <- Settled
ImplementsBook == Book!Spec
-----------------------------------------------------------------------------
(* The inductive invariant behind them                                   *)

\* Which registers a checkout names follows from its status; a row not made yet is blank.
RegistersNamed ==
    \A c \in Checkouts :
        /\ checkout[c].status = "NONE" => checkout[c] = NoRow
        /\ checkout[c].finalizedIn # NoSession <=> checkout[c].status \in {"FINALIZED", "REVERSED"}
        /\ checkout[c].reversedIn # NoSession <=> checkout[c].status = "REVERSED"
        /\ checkout[c].finalizedIn # NoSession => register[checkout[c].finalizedIn].status # "NONE"
        /\ checkout[c].reversedIn # NoSession => register[checkout[c].reversedIn].status # "NONE"

\* Ages number the checkouts in the order they were made.
AgesCount == \A c \in Existing : checkout[c].age < Cardinality(Existing)

\* Movements are numbered by the versions of their register.
MovementsNumbered ==
    \A m \in movements : /\ m.number < register[m.session].version
                         /\ register[m.session].status # "NONE"

\* A screen that shows the current version shows the current draft and snapshot.
ViewsCurrent ==
    \A k \in Clerks : view[k] # NoView =>
        LET c == view[k].id IN
        /\ c \in Existing
        /\ view[k].row.version <= checkout[c].version
        /\ view[k].row.version = checkout[c].version =>
              /\ view[k].row.draft = checkout[c].draft
              /\ view[k].row.context = checkout[c].context

\* Only finitely much has been booked.
BooksFinite == IsFiniteSet(movements) /\ IsFiniteSet(entries)

\* The entries of a checkout follow from its status and its draft: those of the sale,
\* and once it is reversed the same again the other way round.
EntriesKnown ==
    \A c \in Checkouts :
        LET mine == {e \in entries : e.checkout = c}
            sold == PointsOfSale(c, checkout[c].draft)
        IN /\ checkout[c].status \in {"NONE", "DRAFT"} => mine = {}
           /\ checkout[c].status = "FINALIZED" => mine = sold
           /\ checkout[c].status = "REVERSED" => mine = sold \cup Undone(sold)

CashInv == /\ TypeOK /\ RegistersNamed /\ AgesCount /\ MovementsNumbered /\ ViewsCurrent
           /\ BooksFinite /\ EntriesKnown
           /\ CheckoutsAreSound /\ RegistersAreTrue /\ TotalSpentIsExact
=============================================================================
