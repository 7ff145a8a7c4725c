---------------------------- MODULE RequestsProofs ----------------------------
(***************************************************************************)
(* What is proved of requests that are made again, part by part: the       *)
(* transactions that wait for each other's locks, the forms whose          *)
(* connection breaks, and the imports whose chunks are sent again.  Each   *)
(* part has an inductive invariant, one lemma per action and the           *)
(* properties that follow.                                                 *)
(***************************************************************************)
EXTENDS Requests, Sums

-----------------------------------------------------------------------------
(* Locks: why the transactions of staff, members and accounting never wait *)
(* for each other in a circle: whatever they lock comes in one order       *)
(* (class of the row, then its first id), so of finitely many that wait    *)
(* the one that wants the highest row waits for none of them.  Nothing is  *)
(* said of how many requests, tenants or users there are.                  *)

\* the order in which rows are locked
Before(v, w) == v[1] < w[1] \/ (v[1] = w[1] /\ v[2] < w[2])

Lock == [row : Nat \X Nat \X Nat, share : BOOLEAN]

InOrder(want) ==
    /\ want \in Seq(Lock)
    /\ \A i, j \in 1 .. Len(want) : i < j => Before(want[i].row, want[j].row)

Transactions ==
    [stage : {"free", "running", "waiting", "done", "failed"},
     plan : Plans \cup {Plan("none", <<>>)}, next : Nat \ {0}, repeats : Nat, rounds : Nat]

\* Every transaction that is started follows a plan, and finitely many are running.
LocksInv ==
    /\ tx \in [Requests -> Transactions]
    /\ \A q \in Requests : Started(q) => tx[q].plan \in Plans
    /\ IsFiniteSet({q \in Requests : Running(q)})

-----------------------------------------------------------------------------
(* The order of the locks                                                  *)

\* Each row is <<class, first id, second id>>.
LEMMA RowOf ==
    ASSUME NEW class, NEW a, NEW b
    PROVE  /\ Update(class, a, b).row[1] = class /\ Update(class, a, b).row[2] = a
           /\ Share(class, a, b).row[1] = class /\ Share(class, a, b).row[2] = a
BY DEF Update, Share

\* lockTenant and currentActor: the tenant, the caller, the caller's membership.
LEMMA AccessInOrder ==
    ASSUME NEW t \in Nat, NEW u \in Nat
    PROVE  InOrder(AccessChange(t, u))
<1>1. AccessChange(t, u) \in Seq(Lock)
  BY DEF AccessChange, Lock, Update, Tenant, AppUser, TenantMembership
<1>2. \A i, j \in 1 .. 3 : i < j =>
         Before(AccessChange(t, u)[i].row, AccessChange(t, u)[j].row)
  BY RowOf DEF AccessChange, Before, Tenant, AppUser, TenantMembership
<1>3. Len(AccessChange(t, u)) = 3
  BY DEF AccessChange
<1> QED BY <1>1, <1>2, <1>3 DEF InOrder

\* One lock more keeps the order if its row comes after those locked already.
LEMMA AppendInOrder ==
    ASSUME NEW want \in Seq(Lock), NEW w \in Lock, InOrder(want),
           \A i \in 1 .. Len(want) : Before(want[i].row, w.row)
    PROVE  InOrder(Append(want, w)) /\ Append(want, w) \in Seq(Lock)
<1>1. /\ Len(Append(want, w)) = Len(want) + 1 /\ Append(want, w)[Len(want) + 1] = w
      /\ \A i \in 1 .. Len(want) : Append(want, w)[i] = want[i]
  OBVIOUS
<1>2. ASSUME NEW i \in 1 .. Len(Append(want, w)), NEW j \in 1 .. Len(Append(want, w)), i < j
      PROVE  Before(Append(want, w)[i].row, Append(want, w)[j].row)
  <2>1. CASE j = Len(want) + 1
    BY <1>1, <1>2, <2>1
  <2>2. CASE j # Len(want) + 1
    BY <1>1, <1>2, <2>2 DEF InOrder
  <2> QED BY <2>1, <2>2
<1> QED BY <1>2 DEF InOrder

\* Where the entries of two lists are, put one after the other.
LEMMA ConcatEntries ==
    ASSUME NEW S, NEW first \in Seq(S), NEW then \in Seq(S)
    PROVE  /\ Len(first \o then) = Len(first) + Len(then)
           /\ \A i \in 1 .. Len(first) : (first \o then)[i] = first[i]
           /\ \A i \in Len(first) + 1 .. Len(first \o then) :
                 (first \o then)[i] = then[i - Len(first)]
OBVIOUS

\* So do two lists of locks, one after the other.
LEMMA ConcatInOrder ==
    ASSUME NEW first \in Seq(Lock), NEW then \in Seq(Lock), InOrder(first), InOrder(then),
           \A i \in 1 .. Len(first), j \in 1 .. Len(then) : Before(first[i].row, then[j].row)
    PROVE  InOrder(first \o then) /\ first \o then \in Seq(Lock)
<1> DEFINE both == first \o then
<1>1. /\ Len(both) = Len(first) + Len(then)
      /\ \A i \in 1 .. Len(first) : both[i] = first[i]
      /\ \A i \in Len(first) + 1 .. Len(both) : both[i] = then[i - Len(first)]
  BY ConcatEntries
<1>2. ASSUME NEW i \in 1 .. Len(both), NEW j \in 1 .. Len(both), i < j
      PROVE  Before(both[i].row, both[j].row)
  <2>1. CASE j <= Len(first)
    BY <1>1, <1>2, <2>1 DEF InOrder
  <2>2. CASE i <= Len(first) /\ j > Len(first)
    <3>1. i \in 1 .. Len(first) /\ j \in Len(first) + 1 .. Len(both)
          /\ j - Len(first) \in 1 .. Len(then)
      BY <1>1, <2>2
    <3> QED BY <1>1, <3>1
  <2>3. CASE i > Len(first)
    <3> DEFINE k == i - Len(first)
               l == j - Len(first)
    <3>1. k \in 1 .. Len(then) /\ l \in 1 .. Len(then) /\ k < l
          /\ i \in Len(first) + 1 .. Len(both) /\ j \in Len(first) + 1 .. Len(both)
      BY <1>1, <1>2, <2>3
    <3>2. both[i] = then[k] /\ both[j] = then[l]
      BY <1>1, <3>1
    <3> HIDE DEF k, l, both
    <3> QED BY <3>1, <3>2 DEF InOrder
  <2> QED BY <2>1, <2>2, <2>3
<1> QED BY <1>2 DEF InOrder

\* the rows of want are of class top or before it
UpTo(want, top) == \A i \in 1 .. Len(want) : want[i].row[1] \in 1 .. top

\* The classes of the rows of two lists put together.
LEMMA ConcatUpTo ==
    ASSUME NEW S, NEW first \in Seq(S), NEW then \in Seq(S), NEW top,
           UpTo(first, top), UpTo(then, top)
    PROVE  UpTo(first \o then, top)
<1> SUFFICES ASSUME NEW i \in 1 .. Len(first \o then)
             PROVE  (first \o then)[i].row[1] \in 1 .. top
  BY DEF UpTo
<1>1. CASE i <= Len(first)
  BY <1>1, ConcatEntries DEF UpTo
<1>2. CASE i > Len(first)
  <2>1. i \in Len(first) + 1 .. Len(first \o then) /\ i - Len(first) \in 1 .. Len(then)
    BY <1>2, ConcatEntries
  <2>2. (first \o then)[i] = then[i - Len(first)]
    BY <2>1, ConcatEntries
  <2> QED BY <2>1, <2>2 DEF UpTo
<1> QED BY <1>1, <1>2

\* After rows of lower classes any row keeps the order.
LEMMA OneMoreInOrder ==
    ASSUME NEW want \in Seq(Lock), NEW w \in Lock, NEW top \in Nat, InOrder(want),
           UpTo(want, top), w.row[1] > top
    PROVE  /\ InOrder(Append(want, w)) /\ Append(want, w) \in Seq(Lock)
           /\ UpTo(Append(want, w), w.row[1])
<1>1. w.row[1] \in Nat /\ w.row[1] > top
  BY DEF Lock
<1>2. \A i \in 1 .. Len(want) : Before(want[i].row, w.row)
  BY <1>1 DEF UpTo, Before
<1>3. \A i \in 1 .. Len(want) : want[i].row[1] \in 1 .. w.row[1]
  BY <1>1 DEF UpTo
<1>4. /\ Len(Append(want, w)) = Len(want) + 1 /\ Append(want, w)[Len(want) + 1] = w
      /\ \A i \in 1 .. Len(want) : Append(want, w)[i] = want[i]
  OBVIOUS
<1>5. UpTo(Append(want, w), w.row[1])
  BY <1>1, <1>3, <1>4 DEF UpTo
<1> QED BY <1>2, <1>5, AppendInOrder

\* lockTenant and currentActor, and lockOperation, which goes on to the salon.
LEMMA OperationInOrder ==
    ASSUME NEW t \in Nat, NEW u \in Nat
    PROVE  /\ InOrder(AccessChange(t, u))
           /\ InOrder(Operation(t, u)) /\ Operation(t, u) \in Seq(Lock)
           /\ UpTo(Operation(t, u), Salon)
<1> DEFINE first == AccessChange(t, u)
           last == Update(Salon, t, 0)
<1>1. first \in Seq(Lock) /\ last \in Lock /\ last.row[1] = Salon
  BY DEF AccessChange, Lock, Update, Tenant, AppUser, TenantMembership, Salon
<1>2. UpTo(first, TenantMembership)
  BY RowOf DEF UpTo, AccessChange, Tenant, AppUser, TenantMembership
<1>3. InOrder(first)
  BY AccessInOrder
<1>4. TenantMembership \in Nat /\ Salon > TenantMembership
  BY DEF TenantMembership, Salon
<1> HIDE DEF first, last
<1>5. InOrder(Append(first, last)) /\ Append(first, last) \in Seq(Lock)
      /\ UpTo(Append(first, last), Salon)
  BY <1>1, <1>2, <1>3, <1>4, OneMoreInOrder
<1> QED BY <1>3, <1>5 DEF Operation, first, last

\* Accounting: the reservation and the account after the salon.
LEMMA SettleInOrder ==
    ASSUME NEW t \in Nat, NEW u \in Nat
    PROVE  InOrder(Settle(t, u)) /\ InOrder(Link(t, u))
<1> DEFINE first == Operation(t, u)
           last == Update(Account, t, 0)
           rest == <<Update(Reservation, t, 0), last>>
<1>1. first \in Seq(Lock) /\ InOrder(first) /\ UpTo(first, Salon)
  BY OperationInOrder
<1>2. last \in Lock /\ last.row[1] = Account /\ rest \in Seq(Lock) /\ Len(rest) = 2
      /\ rest[1].row[1] = Reservation /\ rest[2].row[1] = Account
  BY DEF Lock, Update, Reservation, Account
<1>3. Salon \in Nat /\ Account > Salon /\ Reservation > Salon /\ Account > Reservation
  BY DEF Account, Reservation, Salon
<1> HIDE DEF first, last, rest
<1>4. InOrder(Append(first, last))
  BY <1>1, <1>2, <1>3, OneMoreInOrder
<1>5. InOrder(rest)
  BY <1>2, <1>3 DEF InOrder, Before
<1>6. \A i \in 1 .. Len(first), j \in 1 .. Len(rest) : Before(first[i].row, rest[j].row)
  BY <1>1, <1>2, <1>3 DEF UpTo, Before, Salon, Reservation, Account
<1>7. InOrder(first \o rest)
  BY <1>1, <1>2, <1>5, <1>6, ConcatInOrder
<1> QED BY <1>4, <1>7 DEF Settle, Link, first, last, rest

\* Two locks are a list of locks.
LEMMA TwoLocks ==
    ASSUME NEW v \in Lock, NEW w \in Lock
    PROVE  /\ <<v, w>> \in Seq(Lock) /\ Len(<<v, w>>) = 2
           /\ <<v, w>>[1] = v /\ <<v, w>>[2] = w
OBVIOUS

\* Accepting an invitation locks the two users by their ids.
LEMMA AcceptInOrder ==
    ASSUME NEW t \in Nat, NEW u \in Nat, NEW v \in Nat
    PROVE  InOrder(Accept(t, u, v))
<1> DEFINE tenant == <<Update(Tenant, t, 0)>>
           users == SortedUsers(u, v)
           last == <<Update(TenantMembership, t, v)>>
<1>1. /\ tenant \in Seq(Lock) /\ InOrder(tenant) /\ Len(tenant) = 1
      /\ tenant[1].row[1] = Tenant
      /\ last \in Seq(Lock) /\ InOrder(last) /\ Len(last) = 1
      /\ last[1].row[1] = TenantMembership
  BY DEF Lock, Update, InOrder, Tenant, TenantMembership
<1>2. /\ users \in Seq(Lock)
      /\ \A i \in 1 .. Len(users) : users[i].row[1] = AppUser
  <2>1. CASE u = v
    BY <2>1 DEF SortedUsers, Lock, Update, AppUser
  <2>2. CASE u < v
    <3>1. users = <<Update(AppUser, u, 0), Update(AppUser, v, 0)>>
      BY <2>2 DEF SortedUsers
    <3>2. Update(AppUser, u, 0) \in Lock /\ Update(AppUser, v, 0) \in Lock
      BY DEF Update, Lock, AppUser
    <3> HIDE DEF users
    <3> QED BY <3>1, <3>2, TwoLocks, RowOf
  <2>3. CASE v < u
    <3>1. users = <<Update(AppUser, v, 0), Update(AppUser, u, 0)>>
      BY <2>3 DEF SortedUsers
    <3>2. Update(AppUser, u, 0) \in Lock /\ Update(AppUser, v, 0) \in Lock
      BY DEF Update, Lock, AppUser
    <3> HIDE DEF users
    <3> QED BY <3>1, <3>2, TwoLocks, RowOf
  <2> QED BY <2>1, <2>2, <2>3
<1>3. InOrder(users)
  <2>1. Update(AppUser, u, 0) \in Lock /\ Update(AppUser, v, 0) \in Lock
    BY DEF Update, Lock, AppUser
  <2>2. CASE u = v
    <3>1. users = <<Update(AppUser, u, 0)>>
      BY <2>2 DEF SortedUsers
    <3> QED BY <2>1, <3>1 DEF InOrder
  <2>3. CASE u < v
    <3>1. users = <<Update(AppUser, u, 0), Update(AppUser, v, 0)>>
      BY <2>3 DEF SortedUsers
    <3>2. Before(Update(AppUser, u, 0).row, Update(AppUser, v, 0).row)
      BY <2>3, RowOf DEF Before
    <3> HIDE DEF users
    <3> QED BY <2>1, <3>1, <3>2, TwoLocks DEF InOrder
  <2>4. CASE v < u
    <3>1. users = <<Update(AppUser, v, 0), Update(AppUser, u, 0)>>
      BY <2>4 DEF SortedUsers
    <3>2. Before(Update(AppUser, v, 0).row, Update(AppUser, u, 0).row)
      BY <2>4, RowOf DEF Before
    <3> HIDE DEF users
    <3> QED BY <2>1, <3>1, <3>2, TwoLocks DEF InOrder
  <2> QED BY <2>2, <2>3, <2>4
<1> HIDE DEF tenant, users, last
<1>4. \A i \in 1 .. Len(tenant), j \in 1 .. Len(users) : Before(tenant[i].row, users[j].row)
  BY <1>1, <1>2 DEF Before, Tenant, AppUser
<1>5. InOrder(tenant \o users) /\ tenant \o users \in Seq(Lock)
  BY <1>1, <1>2, <1>3, <1>4, ConcatInOrder
<1>6. \A i \in 1 .. Len(tenant \o users), j \in 1 .. Len(last) :
         Before((tenant \o users)[i].row, last[j].row)
  <2>1. UpTo(tenant, AppUser) /\ UpTo(users, AppUser)
    BY <1>1, <1>2 DEF UpTo, Tenant, AppUser
  <2>2. UpTo(tenant \o users, AppUser)
    BY <1>1, <1>2, <2>1, ConcatUpTo
  <2> QED BY <1>1, <2>2 DEF UpTo, Before, AppUser, TenantMembership
<1>7. InOrder((tenant \o users) \o last)
  BY <1>1, <1>5, <1>6, ConcatInOrder
<1> QED BY <1>7 DEF Accept, tenant, users, last
\* A member books behind a key of the member's; cancelling and counting take the salon.
LEMMA MemberInOrder ==
    ASSUME NEW t \in Nat
    PROVE  /\ \A m \in Nat : InOrder(MemberBook(m, t))
           /\ InOrder(MemberCancel(t)) /\ InOrder(Recount(t))
<1> SUFFICES ASSUME NEW m \in Nat
             PROVE  InOrder(MemberBook(m, t)) /\ InOrder(MemberCancel(t)) /\ InOrder(Recount(t))
  OBVIOUS
<1> DEFINE key == <<Update(MemberKey, m, 0)>>
           salon == MemberCancel(t)
<1>1. /\ key \in Seq(Lock) /\ Len(key) = 1 /\ key[1].row[1] = MemberKey
      /\ salon \in Seq(Lock) /\ Len(salon) = 2
      /\ salon[1].row[1] = Tenant /\ salon[2].row[1] = Salon
  BY DEF MemberCancel, Lock, Update, MemberKey, Tenant, Salon
<1>2. InOrder(Recount(t))
  BY DEF Recount, InOrder, Lock, Update, Salon
<1> HIDE DEF key, salon
<1>3. InOrder(key) /\ InOrder(salon)
  BY <1>1 DEF InOrder, Before, Tenant, Salon
<1>4. \A i \in 1 .. Len(key), j \in 1 .. Len(salon) : Before(key[i].row, salon[j].row)
  BY <1>1 DEF Before, MemberKey, Tenant, Salon
<1>5. InOrder(key \o salon)
  BY <1>1, <1>3, <1>4, ConcatInOrder
<1> QED BY <1>2, <1>3, <1>5 DEF MemberBook, key, salon

\* Enrolment shares the tenant and the program.
LEMMA EnrolInOrder == ASSUME NEW t \in Nat PROVE InOrder(Enrol(t))
<1>1. Share(Tenant, t, 0) \in Lock /\ Share(Program, t, 0) \in Lock
  BY DEF Lock, Share, Tenant, Program
<1>2. Before(Share(Tenant, t, 0).row, Share(Program, t, 0).row)
  BY RowOf DEF Before, Tenant, Program
<1> QED BY <1>1, <1>2, TwoLocks DEF Enrol, InOrder

\* Every handler but the provisioning locks its rows in order.
LEMMA PlansAreInOrder ==
    ASSUME NEW plan \in Plans, plan.kind # "provision"
    PROVE  InOrder(plan.want)
<1>1. Tenants \subseteq Nat /\ Users \subseteq Nat /\ Members \subseteq Nat
  BY LocksAssumption
<1>2. CASE \E t \in Tenants, u \in Users : plan = Plan("access", AccessChange(t, u))
  <2>1. PICK t \in Tenants, u \in Users : plan.want = AccessChange(t, u)
    BY <1>2 DEF Plan
  <2> QED BY <1>1, <2>1, OperationInOrder
<1>3. CASE \E t \in Tenants, u \in Users, v \in Users : plan = Plan("access", Accept(t, u, v))
  <2>1. PICK t \in Tenants, u \in Users, v \in Users : plan.want = Accept(t, u, v)
    BY <1>3 DEF Plan
  <2> QED BY <1>1, <2>1, AcceptInOrder
<1>4. CASE \E t \in Tenants, u \in Users : plan = Plan("operation", Operation(t, u))
  <2>1. PICK t \in Tenants, u \in Users : plan.want = Operation(t, u)
    BY <1>4 DEF Plan
  <2> QED BY <1>1, <2>1, OperationInOrder
<1>12. CASE \E t \in Tenants, u \in Users : plan = Plan("cash", Operation(t, u))
  <2>1. PICK t \in Tenants, u \in Users : plan.want = Operation(t, u)
    BY <1>12 DEF Plan
  <2> QED BY <1>1, <2>1, OperationInOrder
<1>5. CASE \E t \in Tenants, u \in Users : plan = Plan("cash", Settle(t, u))
  <2>1. PICK t \in Tenants, u \in Users : plan.want = Settle(t, u)
    BY <1>5 DEF Plan
  <2> QED BY <1>1, <2>1, SettleInOrder
<1>6. CASE \E t \in Tenants : plan = Plan("operation", Recount(t))
  <2>1. PICK t \in Tenants : plan.want = Recount(t)
    BY <1>6 DEF Plan
  <2> QED BY <1>1, <2>1, MemberInOrder
<1>7. CASE \E m \in Members, t \in Tenants : plan = Plan("operation", MemberBook(m, t))
  <2>1. PICK m \in Members, t \in Tenants : plan.want = MemberBook(m, t)
    BY <1>7 DEF Plan
  <2> QED BY <1>1, <2>1, MemberInOrder
<1>8. CASE \E t \in Tenants : plan = Plan("operation", MemberCancel(t))
  <2>1. PICK t \in Tenants : plan.want = MemberCancel(t)
    BY <1>8 DEF Plan
  <2> QED BY <1>1, <2>1, MemberInOrder
<1>9. CASE \E t \in Tenants : plan = Plan("membership", Enrol(t))
  <2>1. PICK t \in Tenants : plan.want = Enrol(t)
    BY <1>9 DEF Plan
  <2> QED BY <1>1, <2>1, EnrolInOrder
<1>10. CASE \E t \in Tenants, u \in Users : plan = Plan("membership", Link(t, u))
  <2>1. PICK t \in Tenants, u \in Users : plan.want = Link(t, u)
    BY <1>10 DEF Plan
  <2> QED BY <1>1, <2>1, SettleInOrder
<1>11. CASE \E t \in Tenants, u \in Users : plan = Plan("provision", Provision(t, u))
  BY <1>11 DEF Plan
<1> QED
  BY <1>2, <1>3, <1>4, <1>5, <1>6, <1>7, <1>8, <1>9, <1>10, <1>11, <1>12
     DEF Plans

-----------------------------------------------------------------------------
(* The running transactions                                                *)

\* At the start nothing runs.
LEMMA InitLocksInv == Init => LocksInv
<1> SUFFICES ASSUME Init PROVE LocksInv
  OBVIOUS
<1>1. NotStarted \in Transactions /\ NotStarted.stage # "running"
  BY DEF NotStarted, Transactions
<1>2. {q \in Requests : Running(q)} = {}
  BY <1>1 DEF Init, Running
<1>3. \A q \in Requests : ~Started(q)
  <2>1. NotStarted.stage = "free"
    BY DEF NotStarted
  <2>2. \A q \in Requests : tx[q].stage = "free"
    BY <2>1 DEF Init
  <2> QED BY <2>2 DEF Started, Running
<1>4. tx \in [Requests -> Transactions]
  BY <1>1 DEF Init
<1> HIDE DEF Init
<1> QED BY <1>2, <1>3, <1>4, FS_EmptySet DEF LocksInv

\* A transaction started again is the one it was, with one repeat more.
LEMMA AgainRestarts ==
    ASSUME NEW x \in Transactions
    PROVE  Again(x) \in Transactions /\ Again(x).plan = x.plan
<1> DEFINE n == x.repeats + 1
           stage == IF x.plan.kind = "membership" THEN "waiting" ELSE x.stage
<1>1. n \in Nat /\ stage \in {"free", "running", "waiting", "done", "failed"}
  BY DEF Transactions
<1>2. Again(x) = [x EXCEPT !.next = 1, !.repeats = n, !.stage = stage]
  BY DEF Again
<1> HIDE DEF n, stage
<1> DEFINE first == [x EXCEPT !.next = 1]
           counted == [first EXCEPT !.repeats = n]
<1>3. first \in Transactions /\ first.plan = x.plan
  BY DEF Transactions
<1> HIDE DEF first
<1>4. counted \in Transactions /\ counted.plan = x.plan
  BY <1>1, <1>3 DEF Transactions
<1> HIDE DEF counted
<1>5. /\ [counted EXCEPT !.stage = stage] \in Transactions
      /\ [counted EXCEPT !.stage = stage].plan = x.plan
  BY <1>1, <1>4 DEF Transactions
<1>6. Again(x) = [counted EXCEPT !.stage = stage]
  BY <1>2 DEF counted, first
<1> QED BY <1>5, <1>6

\* So it is in the next round, whose repeats are counted anew.
LEMMA NextRoundRestarts ==
    ASSUME NEW x \in Transactions
    PROVE  NextRound(x) \in Transactions /\ NextRound(x).plan = x.plan
<1> DEFINE n == x.rounds + 1
<1>1. n \in Nat
  BY DEF Transactions
<1>2. NextRound(x) = [x EXCEPT !.next = 1, !.repeats = 0, !.rounds = n, !.stage = "waiting"]
  BY DEF NextRound
<1> HIDE DEF n
<1> DEFINE first == [x EXCEPT !.next = 1]
           cleared == [first EXCEPT !.repeats = 0]
           counted == [cleared EXCEPT !.rounds = n]
<1>3. first \in Transactions /\ first.plan = x.plan
  BY DEF Transactions
<1> HIDE DEF first
<1>4. cleared \in Transactions /\ cleared.plan = x.plan
  BY <1>3 DEF Transactions
<1> HIDE DEF cleared
<1>5. counted \in Transactions /\ counted.plan = x.plan
  BY <1>1, <1>4 DEF Transactions
<1> HIDE DEF counted
<1>6. /\ [counted EXCEPT !.stage = "waiting"] \in Transactions
      /\ [counted EXCEPT !.stage = "waiting"].plan = x.plan
  BY <1>5 DEF Transactions
<1>7. NextRound(x) = [counted EXCEPT !.stage = "waiting"]
  BY <1>2 DEF counted, cleared, first
<1> QED BY <1>6, <1>7

\* what one request does
StepOf(q) ==
    \/ \E plan \in Plans : Start(q, plan)
    \/ Take(q) \/ Finish(q) \/ Refuse(q) \/ Victim(q) \/ Conflicted(q) \/ Resume(q)

\* A step changes one transaction, and one that was started follows its plan.
LEMMA StepChangesOne ==
    ASSUME LocksInv, NEW q \in Requests, StepOf(q)
    PROVE  \E state \in Transactions :
              /\ tx' = [tx EXCEPT ![q] = state]
              /\ state.stage \in {"running", "waiting"} => state.plan \in Plans
<1>1. tx[q] \in Transactions /\ (Started(q) => tx[q].plan \in Plans)
  BY DEF LocksInv
<1>2. NotStarted \in Transactions
  BY DEF NotStarted, Transactions
<1>3. CASE \E plan \in Plans : Start(q, plan)
  <2>1. PICK plan \in Plans : Start(q, plan)
    BY <1>3
  <2> DEFINE state == [NotStarted EXCEPT !.stage = "running", !.plan = plan]
  <2>2. tx' = [tx EXCEPT ![q] = state] /\ state \in Transactions /\ state.plan = plan
    BY <2>1, <1>2 DEF Start, Transactions, NotStarted
  <2> HIDE DEF state
  <2> QED BY <2>2
<1>4. CASE Take(q)
  <2> DEFINE state == [tx[q] EXCEPT !.next = @ + 1]
  <2>1. tx' = [tx EXCEPT ![q] = state]
    BY <1>4 DEF Take
  <2>2. state \in Transactions /\ state.plan = tx[q].plan /\ Started(q)
    BY <1>1, <1>4 DEF Transactions, Take, Wants, Started
  <2> QED BY <1>1, <2>1, <2>2
<1>5. CASE Finish(q) \/ Refuse(q)
  <2> DEFINE state == [NotStarted EXCEPT !.stage = "done"]
  <2>1. tx' = [tx EXCEPT ![q] = state] /\ state \in Transactions /\ state.stage = "done"
    BY <1>2, <1>5 DEF Finish, Refuse, Transactions, NotStarted
  <2> QED BY <2>1
<1>6. CASE Victim(q) \/ Conflicted(q)
  <2> DEFINE failed == [NotStarted EXCEPT !.stage = "failed"]
             x == tx[q]
             state == IF x.repeats < Repeats(x.plan.kind) THEN Again(x)
                      ELSE IF x.rounds < Rounds(x.plan.kind) THEN NextRound(x) ELSE failed
  <2>1. tx' = [tx EXCEPT ![q] = state]
    BY <1>6 DEF Victim, Conflicted, Aborted
  <2>2. failed \in Transactions /\ failed.stage = "failed"
    BY <1>2 DEF Transactions, NotStarted
  <2>3. /\ Again(x) \in Transactions /\ Again(x).plan = x.plan
        /\ NextRound(x) \in Transactions /\ NextRound(x).plan = x.plan
    BY <1>1, AgainRestarts, NextRoundRestarts
  <2>4. x.plan \in Plans
    BY <1>1, <1>6 DEF Started, Victim, Stuck, Waits, Wants, Conflicted
  <2> HIDE DEF failed, x
  <2>5. state \in Transactions
    BY <2>2, <2>3
  <2>6. state.stage \in {"running", "waiting"} => state.plan \in Plans
    <3>1. CASE state = failed
      BY <2>2, <3>1
    <3>2. CASE state = Again(x) \/ state = NextRound(x)
      BY <2>3, <2>4, <3>2
    <3> QED BY <3>1, <3>2
  <2> HIDE DEF state
  <2> QED BY <2>1, <2>5, <2>6
<1>7. CASE Resume(q)
  <2> DEFINE state == [tx[q] EXCEPT !.stage = "running"]
  <2>1. tx' = [tx EXCEPT ![q] = state]
    BY <1>7 DEF Resume
  <2>2. state \in Transactions /\ state.plan = tx[q].plan /\ Started(q)
    BY <1>1, <1>7 DEF Transactions, Resume, Started
  <2> QED BY <1>1, <2>1, <2>2
<1> QED BY <1>3, <1>4, <1>5, <1>6, <1>7 DEF StepOf

\* Every step keeps the plans and leaves finitely many transactions running.
LEMMA StepKeepsLocksInv == LocksInv /\ [Next]_vars => LocksInv'
<1> SUFFICES ASSUME LocksInv, [Next]_vars PROVE LocksInv'
  OBVIOUS
<1>1. CASE UNCHANGED vars
  BY <1>1 DEF vars, LocksInv, Running, Started
<1>2. CASE Next
  <2>1. PICK q \in Requests : StepOf(q)
    BY <1>2 DEF Next, StepOf
  <2>2. PICK state \in Transactions :
          /\ tx' = [tx EXCEPT ![q] = state]
          /\ state.stage \in {"running", "waiting"} => state.plan \in Plans
    BY <2>1, StepChangesOne
  <2>3. /\ tx' \in [Requests -> Transactions]
        /\ tx'[q] = state /\ \A r \in Requests \ {q} : tx'[r] = tx[r]
    BY <2>2 DEF LocksInv
  <2>4. \A r \in Requests : Started(r)' => tx'[r].plan \in Plans
    BY <2>2, <2>3 DEF LocksInv, Running, Started
  <2>5. {r \in Requests : Running(r)'} \subseteq {r \in Requests : Running(r)} \cup {q}
    BY <2>3 DEF Running
  <2>6. IsFiniteSet({r \in Requests : Running(r)} \cup {q})
    BY FS_AddElement DEF LocksInv
  <2>7. IsFiniteSet({r \in Requests : Running(r)'})
    BY <2>5, <2>6, FS_Subset
  <2> QED BY <2>3, <2>4, <2>7 DEF LocksInv
<1> QED BY <1>1, <1>2

\* Every transaction that is started follows a plan, and finitely many are running.
THEOREM PlansAreFollowed == Spec => []LocksInv
<1> QED BY InitLocksInv, StepKeepsLocksInv, PTL DEF Spec

-----------------------------------------------------------------------------
(* Deadlocks                                                               *)


\* A lock that a plan wants is one of a row.
LEMMA NextHasRow ==
    ASSUME LocksInv, NEW q \in Requests, Wants(q), tx[q].plan.kind # "provision"
    PROVE  Next1(q) \in Lock /\ Next1(q).row[1] \in Nat /\ Next1(q).row[2] \in Nat
<1>1. tx[q].plan.want \in Seq(Lock)
  BY PlansAreInOrder DEF LocksInv, Wants, Started, InOrder
<1>2. tx[q].next \in 1 .. Len(tx[q].plan.want)
  BY <1>1 DEF LocksInv, Transactions, Wants
<1>3. Next1(q) \in Lock
  BY <1>1, <1>2 DEF Next1
<1> QED BY <1>3 DEF Lock

\* Who waits for a transaction wants a row before the one that transaction waits for.
LEMMA WaitsUpwards ==
    ASSUME LocksInv, NEW q \in Requests, NEW r \in Requests, Waits(q, r), Wants(r),
           tx[r].plan.kind # "provision"
    PROVE  Before(Next1(q).row, Next1(r).row)
<1> DEFINE want == tx[r].plan.want
<1>1. tx[r].plan \in Plans /\ InOrder(want)
  BY PlansAreInOrder DEF LocksInv, Wants, Started
<1>2. tx[r].next \in Nat \ {0} /\ tx[r].next <= Len(want)
  BY DEF LocksInv, Transactions, Wants
<1>3. PICK v \in Held(r) : Next1(q).row = v.row
  BY DEF Waits, Conflict
<1>4. PICK i \in 1 .. (tx[r].next - 1) : v = want[i]
  BY DEF Held
<1>5. i \in 1 .. Len(want) /\ tx[r].next \in 1 .. Len(want) /\ i < tx[r].next
  <2> HIDE DEF want
  <2> QED BY <1>2, <1>4
<1> QED BY <1>1, <1>3, <1>4, <1>5 DEF InOrder, Next1

\* Of finitely many requests that wait for each other one is a provisioning: otherwise the
\* one that wants the last row would wait for none of them.
THEOREM DeadlocksNeedProvisioning == Spec => []DeadlockNeedsProvisioning
<1>1. LocksInv => DeadlockNeedsProvisioning
  <2> SUFFICES ASSUME LocksInv, NEW D \in SUBSET Requests, Stuck(D),
                      \A q \in D : tx[q].plan.kind # "provision"
               PROVE  FALSE
    BY DEF DeadlockNeedsProvisioning
  <2> DEFINE R == {w \in D \X D : Before(Next1(w[1]).row, Next1(w[2]).row)}
  <2>1. D # {} /\ \A q \in D : \E r \in D : Waits(q, r)
    BY DEF Stuck
  <2>2. \A q \in D : Wants(q) /\ Running(q)
    BY <2>1 DEF Waits, Wants
  <2>3. IsFiniteSet(D)
    <3>1. D \subseteq {q \in Requests : Running(q)}
      BY <2>2
    <3> QED BY <3>1, FS_Subset DEF LocksInv
  <2>4. \A q \in D : Next1(q).row[1] \in Nat /\ Next1(q).row[2] \in Nat
    <3> SUFFICES ASSUME NEW q \in D PROVE Next1(q).row[1] \in Nat /\ Next1(q).row[2] \in Nat
      OBVIOUS
    <3>1. q \in Requests /\ Wants(q) /\ tx[q].plan.kind # "provision"
      BY <2>2
    <3> QED BY <3>1, NextHasRow
  <2>5. /\ \A q \in D : <<q, q>> \notin R
        /\ \A p, q, r \in D : <<p, q>> \in R /\ <<q, r>> \in R => <<p, r>> \in R
    BY <2>4 DEF Before
  <2>6. PICK q \in D : \A r \in D : <<q, r>> \notin R
    <3> HIDE DEF R
    <3> QED BY <2>1, <2>3, <2>5, LastOne
  <2>7. PICK r \in D : Waits(q, r)
    BY <2>1
  <2>8. Before(Next1(q).row, Next1(r).row)
    BY <2>2, <2>7, WaitsUpwards
  <2> QED BY <2>6, <2>8
<1> QED BY <1>1, PlansAreFollowed, PTL

-----------------------------------------------------------------------------
(* Forms: why a form saves what was changed in it and nothing nobody saw:  *)
(* what a request carries differs from what its page showed, the answer    *)
(* that is shown is that of the last request, and a request creates once,  *)
(* however often it arrives.                                               *)

FormKinds == {"edit", "drawer", "new", "settings", "customer", "master"}

\* The page is a record.
PageIsRecord ==
    page = [kind |-> page.kind, creates |-> page.creates, mayMemo |-> page.mayMemo,
            open |-> page.open, shown |-> page.shown, base |-> page.base, form |-> page.form,
            waits |-> page.waits, requests |-> page.requests, pressed |-> page.pressed,
            said |-> page.said]

\* What the page is about never changes, and the settings show all fields.
FormTypeOK ==
    /\ PageIsRecord
    /\ page.kind \in FormKinds /\ page.requests \in Nat /\ page.waits \in {0, page.requests}
    /\ page.kind \in {"edit", "settings"} => ~page.creates
    /\ page.kind # "customer" => page.mayMemo
    /\ row = [f \in F!RowOf(page.kind) |-> row[f]]
    /\ page.form = [f \in F!FieldsOf(page.kind) |-> page.form[f]]
    /\ page.shown = [f \in F!RowOf(page.kind) |-> page.shown[f]]
    /\ page.base = [f \in F!RowOf(page.kind) |-> page.base[f]]

\* A request is a record numbered by the page; an answer tells what the row was before
\* and after.
FormNetOK ==
    \A m \in net :
        /\ m = [no |-> m.no, what |-> m.what, fields |-> m.fields, shown |-> m.shown,
                form |-> m.form, pressed |-> m.pressed, state |-> m.state,
                before |-> m.before, after |-> m.after]
        /\ m.no \in 1 .. page.requests /\ m.what \in {"save", "status"}
        /\ m.what = "status" => page.kind = "edit"
        /\ DOMAIN m.form = F!FieldsOf(page.kind)
        /\ m.after = [f \in F!RowOf(page.kind) |-> m.after[f]]
        /\ m.state = "done" /\ page.creates => m.no \in made
        /\ m.state = "done" /\ ~page.creates =>
              m.after = [f \in F!RowOf(page.kind) |->
                            IF f \in DOMAIN m.fields THEN m.fields[f] ELSE m.before[f]]

\* Until a status button is pressed, the page compares staff and menu with what it shows.
ComparedWithShown ==
    ~page.pressed => /\ \A m \in net : m.what = "save"
                     /\ \A f \in {"staff", "menu"} \cap F!RowOf(page.kind) :
                           page.base[f] = page.shown[f]

\* Without chart.write the memo stays as it was.
MemoStays ==
    "memo" \in F!FieldsOf(page.kind) /\ ~page.mayMemo => page.form["memo"] = page.shown["memo"]

\* A save names what was entered, and of what was not entered only what forms send anyway.
SavesNameWhatWasEntered ==
    \A m \in net : m.what = "save" =>
        /\ DOMAIN m.fields \subseteq DOMAIN m.form
        /\ \A f \in DOMAIN m.fields : m.fields[f] = m.form[f] /\ (f = "memo" => page.mayMemo)
        /\ \A f \in DOMAIN m.form : F!Entered(m, f) /\ F!Promised(m, f) => f \in DOMAIN m.fields
        /\ \A f \in DOMAIN m.fields :
              page.kind = "edit" /\ f \in {"staff", "menu"} /\ F!Promised(m, f)
               => F!Entered(m, f)

\* A page that says it has saved has its last request done.
SaidIsDone == page.said = "saved" /\ page.creates => page.requests \in made

FormInv ==
    /\ FormTypeOK /\ FormNetOK /\ ComparedWithShown /\ MemoStays
    /\ SavesNameWhatWasEntered /\ SaidIsDone

\* The fields of a form are fields of its row, and only the page of a reservation has one more.
LEMMA FormFields ==
    ASSUME NEW k \in FormKinds
    PROVE  /\ F!FieldsOf(k) \subseteq F!RowOf(k) /\ (k # "edit" => F!RowOf(k) = F!FieldsOf(k))
           /\ ("memo" \in F!FieldsOf(k) => k = "customer")
           /\ k = "edit" => /\ "status" \notin F!FieldsOf(k)
                            /\ {"staff", "menu", "rest", "length"} \subseteq F!FieldsOf(k)
BY DEF FormKinds, F!FieldsOf, F!RowOf, F!OfReservation, F!OfBoard, F!OfCustomer, F!OfEntry

\* The page at first shows the row.
LEMMA FormBegins == F!Init => FormInv
<1> SUFFICES ASSUME F!Init PROVE FormInv
  OBVIOUS
<1>1. PICK k \in FormKinds, creates \in BOOLEAN, mayMemo \in BOOLEAN :
        /\ k = "new" => creates
        /\ k \in {"edit", "settings"} => ~creates
        /\ k # "customer" => mayMemo
        /\ \E f \in F!RowOf(k), v \in Values :
              /\ (creates \/ f \notin {"staff", "menu"}) => v = 1
              /\ row = [g \in F!RowOf(k) |-> IF g = f THEN v ELSE 1]
        /\ page = [kind |-> k, creates |-> creates, mayMemo |-> mayMemo, open |-> TRUE,
                   shown |-> row, base |-> row, form |-> F!Restrict(row, F!FieldsOf(k)),
                   waits |-> 0, requests |-> 0, pressed |-> FALSE, said |-> "nothing"]
  BY DEF F!Init, FormKinds
<1>2. /\ page.kind = k /\ page.shown = row /\ page.base = row /\ page.waits = 0 /\ page.requests = 0
      /\ page.said = "nothing" /\ PageIsRecord /\ page.creates = creates /\ page.mayMemo = mayMemo
      /\ page.form = [g \in F!FieldsOf(k) |-> row[g]] /\ net = {}
  BY <1>1, FormFields DEF F!Restrict, PageIsRecord, F!Init
<1>3. row = [g \in F!RowOf(k) |-> row[g]]
  BY <1>1
<1>4. FormTypeOK
  BY <1>1, <1>2, <1>3 DEF FormTypeOK
<1> QED
  BY <1>2, <1>4 DEF FormInv, FormNetOK, ComparedWithShown, MemoStays, SavesNameWhatWasEntered,
                    SaidIsDone

\* A step that sends nothing leaves the requests and answers there are.
LEMMA NothingSent ==
    ASSUME FormInv, page'.kind = page.kind, page'.creates = page.creates,
           page'.mayMemo = page.mayMemo, page'.requests = page.requests, net' \subseteq net,
           made' = made
    PROVE  FormNetOK' /\ SavesNameWhatWasEntered'
BY DEF FormInv, FormNetOK, SavesNameWhatWasEntered, F!Entered, F!Promised

\* Others write a field.
LEMMA OthersKeepForm ==
    ASSUME FormInv, NEW f \in DOMAIN row, NEW v \in Values, F!Others(f, v) PROVE FormInv'
<1>1. row' = [row EXCEPT ![f] = v] /\ UNCHANGED <<made, page, net>>
  BY DEF F!Others
<1>2. FormTypeOK'
  BY <1>1 DEF FormInv, FormTypeOK, PageIsRecord
<1> QED BY <1>1, <1>2, NothingSent DEF FormInv, ComparedWithShown, MemoStays, SaidIsDone

\* A field is entered, with what its choice brings along.
LEMMA TouchKeepsForm ==
    ASSUME FormInv, NEW f \in DOMAIN page.form, NEW v \in Values, F!Touch(f, v) PROVE FormInv'
<1> DEFINE entered == [g \in DOMAIN page.form |-> IF g \in F!Brings(f) THEN v ELSE page.form[g]]
<1>1. page' = [page EXCEPT !.form = entered] /\ UNCHANGED <<row, made, net>>
  BY DEF F!Touch, FormInv, FormTypeOK, PageIsRecord
<1>2. DOMAIN entered = DOMAIN page.form
  OBVIOUS
<1>3. ("memo" \in DOMAIN page.form /\ ~page.mayMemo) => entered["memo"] = page.form["memo"]
  BY DEF F!Touch, F!Offered, F!Brings
<1> HIDE DEF entered
<1>4. /\ PageIsRecord' /\ page'.form = entered
      /\ page'.kind = page.kind /\ page'.creates = page.creates /\ page'.mayMemo = page.mayMemo
      /\ page'.requests = page.requests /\ page'.waits = page.waits /\ page'.pressed = page.pressed
      /\ page'.base = page.base /\ page'.shown = page.shown /\ page'.said = page.said
  BY <1>1 DEF FormInv, FormTypeOK, PageIsRecord
<1>5. entered = [g \in F!FieldsOf(page.kind) |-> entered[g]]
  BY <1>2 DEF entered, FormInv, FormTypeOK
<1>6. FormTypeOK'
  BY <1>1, <1>4, <1>5 DEF FormInv, FormTypeOK
<1>7. FormNetOK' /\ SavesNameWhatWasEntered'
  BY <1>1, <1>4, NothingSent
<1>8. ComparedWithShown' /\ MemoStays' /\ SaidIsDone'
  BY <1>1, <1>3, <1>4 DEF FormInv, FormTypeOK, ComparedWithShown, MemoStays, SaidIsDone
<1> QED BY <1>6, <1>7, <1>8 DEF FormInv

\* A request is sent: it names what was entered.
LEMMA RequestKeepsForm ==
    ASSUME FormInv, NEW what \in {"save", "status"}, NEW fields, F!Request(what, fields),
           what = "save" => fields = F!Sent, what = "status" => page.kind = "edit",
           UNCHANGED <<row, made>>
    PROVE  FormInv'
<1> DEFINE m == [no |-> page.requests + 1, what |-> what, fields |-> fields, shown |-> page.shown,
                 form |-> page.form, pressed |-> page.pressed, state |-> "sent",
                 before |-> page.shown, after |-> page.shown]
           last == page.requests + 1
<1>1. /\ net' = net \cup {m}
      /\ page' = [page EXCEPT !.waits = last, !.requests = last, !.said = "nothing",
                              !.pressed = @ \/ what = "status"]
  BY DEF F!Request, F!Last
<1>2. /\ m.no = last /\ m.what = what /\ m.fields = fields /\ m.shown = page.shown
      /\ m.form = page.form /\ m.pressed = page.pressed /\ m.state = "sent"
      /\ m.before = page.shown /\ m.after = page.shown
      /\ m = [no |-> m.no, what |-> m.what, fields |-> m.fields, shown |-> m.shown,
              form |-> m.form, pressed |-> m.pressed, state |-> m.state,
              before |-> m.before, after |-> m.after]
  OBVIOUS
<1>3. last \in Nat /\ page.requests \in Nat /\ last > page.requests /\ last # 0
  BY DEF FormInv, FormTypeOK
<1> HIDE DEF m, last
<1>4. /\ PageIsRecord' /\ page'.form = page.form
      /\ page'.kind = page.kind /\ page'.creates = page.creates /\ page'.mayMemo = page.mayMemo
      /\ page'.requests = last /\ page'.waits = last /\ page'.said = "nothing"
      /\ page'.base = page.base /\ page'.shown = page.shown
      /\ (~page'.pressed => ~page.pressed /\ what # "status")
  BY <1>1 DEF FormInv, FormTypeOK, PageIsRecord
<1>5. FormTypeOK'
  BY <1>3, <1>4 DEF FormInv, FormTypeOK
<1>6. FormNetOK'
  <2>1. ASSUME NEW n \in net PROVE n.no \in 1 .. last
    <3>1. n.no \in 1 .. page.requests
      BY DEF FormInv, FormNetOK
    <3> QED BY <1>3, <3>1
  <2>2. m.no \in 1 .. last
    BY <1>2, <1>3
  <2> QED BY <1>1, <1>2, <1>4, <2>1, <2>2 DEF FormInv, FormTypeOK, FormNetOK
<1>7. ComparedWithShown' /\ MemoStays' /\ SaidIsDone'
  BY <1>1, <1>2, <1>4 DEF FormInv, ComparedWithShown, MemoStays, SaidIsDone
<1>8. what = "save" =>
        /\ DOMAIN fields \subseteq DOMAIN page.form
        /\ \A f \in DOMAIN fields : fields[f] = page.form[f] /\ (f = "memo" => page.mayMemo)
        /\ \A f \in DOMAIN fields : page.kind = "edit" /\ f \in {"staff", "menu"} =>
              page.form[f] # page.base[f]
        /\ \A f \in DOMAIN page.form :
              /\ (page.kind = "edit" /\ f \in {"staff", "menu"} => page.form[f] # page.base[f])
              /\ (f = "memo" => page.mayMemo)
              => f \in DOMAIN fields
  BY DEF F!Sent, F!Restrict
<1>9. SavesNameWhatWasEntered'
  <2>1. ASSUME what = "save"
        PROVE  /\ DOMAIN m.fields \subseteq DOMAIN m.form
               /\ \A f \in DOMAIN m.fields : m.fields[f] = m.form[f] /\ (f = "memo" => page.mayMemo)
               /\ \A f \in DOMAIN m.form :
                     F!Entered(m, f) /\ F!Promised(m, f) => f \in DOMAIN m.fields
               /\ \A f \in DOMAIN m.fields :
                     page.kind = "edit" /\ f \in {"staff", "menu"} /\ F!Promised(m, f) =>
                        F!Entered(m, f)
    <3>1. /\ DOMAIN page.form = F!FieldsOf(page.kind)
          /\ F!FieldsOf(page.kind) \subseteq F!RowOf(page.kind)
      BY FormFields DEF FormInv, FormTypeOK
    <3>2. \A f \in DOMAIN m.form : F!Entered(m, f) /\ F!Promised(m, f) => f \in DOMAIN m.fields
      BY <1>2, <1>8, <2>1, <3>1 DEF F!Entered, F!Promised, FormInv, ComparedWithShown, MemoStays
    <3>3. \A f \in DOMAIN m.fields :
             page.kind = "edit" /\ f \in {"staff", "menu"} /\ F!Promised(m, f) => F!Entered(m, f)
      BY <1>2, <1>8, <2>1, <3>1 DEF F!Entered, F!Promised, FormInv, ComparedWithShown
    <3> QED BY <1>2, <1>8, <2>1, <3>2, <3>3
  <2> QED BY <1>1, <1>2, <1>4, <2>1 DEF FormInv, SavesNameWhatWasEntered, F!Entered, F!Promised
<1> QED BY <1>5, <1>6, <1>7, <1>9 DEF FormInv

\* The form is saved, or the page objects.
LEMMA SaveKeepsForm == ASSUME FormInv, F!Save PROVE FormInv'
<1>1. CASE F!Objection
  <2>1. page' = [page EXCEPT !.said = "failed"] /\ UNCHANGED <<row, made, net>>
    BY <1>1 DEF F!Save
  <2>2. /\ PageIsRecord' /\ page'.form = page.form
        /\ page'.kind = page.kind /\ page'.creates = page.creates /\ page'.mayMemo = page.mayMemo
        /\ page'.requests = page.requests /\ page'.waits = page.waits /\ page'.said = "failed"
        /\ page'.base = page.base /\ page'.shown = page.shown /\ page'.pressed = page.pressed
    BY <2>1 DEF FormInv, FormTypeOK, PageIsRecord
  <2>3. FormNetOK' /\ SavesNameWhatWasEntered'
    BY <2>1, <2>2, NothingSent
  <2> QED BY <2>1, <2>2, <2>3 DEF FormInv, FormTypeOK, ComparedWithShown, MemoStays, SaidIsDone
<1>2. CASE ~F!Objection
  <2>1. F!Request("save", F!Sent) /\ UNCHANGED <<row, made>>
    BY <1>2 DEF F!Save
  <2> QED BY <2>1, RequestKeepsForm
<1> QED BY <1>1, <1>2

\* A button of the status is pressed.
LEMMA PressKeepsForm == ASSUME FormInv, NEW v \in Values, F!PressStatus(v) PROVE FormInv'
BY RequestKeepsForm DEF F!PressStatus

\* A request is carried out or refused: its answer tells of the row before and after.
LEMMA CarryKeepsForm ==
    ASSUME FormInv, NEW m \in net, NEW state, NEW after, F!Carry(m, state, after), page' = page,
           FormTypeOK', made \subseteq made',
           after = [f \in F!RowOf(page.kind) |-> after[f]],
           state = "done" /\ page.creates => m.no \in made',
           state = "done" /\ ~page.creates =>
              after = [f \in F!RowOf(page.kind) |->
                          IF f \in DOMAIN m.fields THEN m.fields[f] ELSE row[f]]
    PROVE  FormInv'
<1> DEFINE n == [no |-> m.no, what |-> m.what, fields |-> m.fields, shown |-> m.shown,
                 form |-> m.form, pressed |-> m.pressed, state |-> state,
                 before |-> row, after |-> after]
<1>1. \A k \in net' : k \in net \/ k = n
  <2>1. m = [no |-> m.no, what |-> m.what, fields |-> m.fields, shown |-> m.shown,
             form |-> m.form, pressed |-> m.pressed, state |-> m.state,
             before |-> m.before, after |-> m.after]
    BY DEF FormInv, FormNetOK
  <2>2. ASSUME NEW k, k = [m EXCEPT !.state = state, !.before = row, !.after = after]
        PROVE  k = n
    <3>1. /\ k.no = m.no /\ k.what = m.what /\ k.fields = m.fields /\ k.shown = m.shown
          /\ k.form = m.form /\ k.pressed = m.pressed /\ k.state = state /\ k.before = row
          /\ k.after = after
          /\ k = [no |-> k.no, what |-> k.what, fields |-> k.fields, shown |-> k.shown,
                  form |-> k.form, pressed |-> k.pressed, state |-> k.state,
                  before |-> k.before, after |-> k.after]
      BY <2>1, <2>2
    <3> QED BY <3>1
  <2> HIDE DEF n
  <2> QED BY <2>2 DEF F!Carry
<1>2. /\ n.no = m.no /\ n.what = m.what /\ n.fields = m.fields /\ n.shown = m.shown
      /\ n.form = m.form /\ n.pressed = m.pressed /\ n.state = state /\ n.before = row
      /\ n.after = after
      /\ n = [no |-> n.no, what |-> n.what, fields |-> n.fields, shown |-> n.shown,
              form |-> n.form, pressed |-> n.pressed, state |-> n.state,
              before |-> n.before, after |-> n.after]
  OBVIOUS
<1> HIDE DEF n
<1>3. FormNetOK'
  <2> SUFFICES ASSUME NEW k \in net'
               PROVE  (/\ k = [no |-> k.no, what |-> k.what, fields |-> k.fields, shown |-> k.shown,
                             form |-> k.form, pressed |-> k.pressed, state |-> k.state,
                             before |-> k.before, after |-> k.after]
                       /\ k.no \in 1 .. page.requests /\ k.what \in {"save", "status"}
                       /\ k.what = "status" => page.kind = "edit"
                       /\ DOMAIN k.form = F!FieldsOf(page.kind)
                       /\ k.after = [f \in F!RowOf(page.kind) |-> k.after[f]]
                       /\ k.state = "done" /\ page.creates => k.no \in made'
                       /\ k.state = "done" /\ ~page.creates =>
                             k.after = [f \in F!RowOf(page.kind) |->
                                   IF f \in DOMAIN k.fields THEN k.fields[f] ELSE k.before[f]])
    BY DEF FormNetOK
  <2>1. CASE k \in net
    BY <2>1 DEF FormInv, FormNetOK
  <2>2. CASE k = n
    BY <1>2, <2>2 DEF FormInv, FormNetOK
  <2> QED BY <1>1, <2>1, <2>2
<1>4. SavesNameWhatWasEntered'
  <2> SUFFICES ASSUME NEW k \in net', k.what = "save"
               PROVE  /\ DOMAIN k.fields \subseteq DOMAIN k.form
                      /\ \A f \in DOMAIN k.fields :
                            k.fields[f] = k.form[f] /\ (f = "memo" => page.mayMemo)
                      /\ \A f \in DOMAIN k.form :
                            F!Entered(k, f) /\ F!Promised(k, f) => f \in DOMAIN k.fields
                      /\ \A f \in DOMAIN k.fields :
                            page.kind = "edit" /\ f \in {"staff", "menu"} /\ F!Promised(k, f)
                                => F!Entered(k, f)
    BY DEF SavesNameWhatWasEntered
  <2>1. CASE k \in net
    BY <2>1 DEF FormInv, SavesNameWhatWasEntered
  <2>2. CASE k = n
    <3>1. \A f : F!Entered(k, f) = F!Entered(m, f) /\ F!Promised(k, f) = F!Promised(m, f)
      BY <1>2, <2>2 DEF F!Entered, F!Promised
    <3> QED BY <1>2, <2>2, <3>1 DEF FormInv, SavesNameWhatWasEntered
  <2> QED BY <1>1, <2>1, <2>2
<1>5. ComparedWithShown' /\ MemoStays' /\ SaidIsDone'
  BY <1>1, <1>2 DEF FormInv, ComparedWithShown, MemoStays, SaidIsDone
<1> QED BY <1>3, <1>4, <1>5 DEF FormInv

\* A row is made, or the fields that are named are written.
LEMMA ApplyKeepsForm == ASSUME FormInv, NEW m \in net, F!Apply(m) PROVE FormInv'
<1>1. row = [f \in F!RowOf(page.kind) |-> row[f]] /\ page' = page
  BY DEF FormInv, FormTypeOK, F!Apply
<1>2. CASE page.creates
  <2>1. made' = made \cup {m.no} /\ F!Carry(m, "done", row) /\ UNCHANGED row
    BY <1>2 DEF F!Apply
  <2>2. FormTypeOK'
    BY <1>1, <2>1 DEF FormInv, FormTypeOK, PageIsRecord
  <2> QED BY <1>1, <1>2, <2>1, <2>2, CarryKeepsForm
<1>3. CASE ~page.creates
  <2> DEFINE after == F!Merged(m.fields)
  <2>1. row' = after /\ F!Carry(m, "done", after) /\ UNCHANGED made
    BY <1>3 DEF F!Apply
  <2>2. DOMAIN row = F!RowOf(page.kind)
    BY <1>1
  <2>3. after = [f \in F!RowOf(page.kind) |-> IF f \in DOMAIN m.fields THEN m.fields[f] ELSE row[f]]
    BY <2>2 DEF F!Merged
  <2>4. after = [f \in F!RowOf(page.kind) |-> after[f]]
    BY <2>3
  <2> HIDE DEF after
  <2>5. FormTypeOK'
    BY <1>1, <2>1, <2>4 DEF FormInv, FormTypeOK, PageIsRecord
  <2> QED BY <1>1, <1>3, <2>1, <2>3, <2>4, <2>5, CarryKeepsForm
<1> QED BY <1>2, <1>3

\* A request is refused.
LEMMA RefuseKeepsForm == ASSUME FormInv, NEW m \in net, F!Refuse(m) PROVE FormInv'
<1>1. F!Carry(m, "refused", row) /\ UNCHANGED <<row, made, page>>
  BY DEF F!Refuse
<1>2. FormTypeOK' /\ row = [f \in F!RowOf(page.kind) |-> row[f]]
  BY <1>1 DEF FormInv, FormTypeOK, PageIsRecord
<1> QED BY <1>1, <1>2, CarryKeepsForm

\* What a step may do to the page that leaves its kind, its fields and the requests.
LEMMA AnswerKeepsForm ==
    ASSUME FormInv, PageIsRecord', page'.kind = page.kind, page'.creates = page.creates,
           page'.mayMemo = page.mayMemo, page'.requests = page.requests,
           page'.waits \in {0, page.requests}, page'.pressed = page.pressed,
           page'.form = page.form, page'.base = page.base, page'.shown = page.shown,
           page'.said = "saved" /\ page.creates => page.requests \in made,
           net' \subseteq net, UNCHANGED <<row, made>>
    PROVE  FormInv'
<1>1. FormNetOK' /\ SavesNameWhatWasEntered'
  BY NothingSent
<1>2. FormTypeOK'
  BY DEF FormInv, FormTypeOK
<1>3. ComparedWithShown' /\ MemoStays' /\ SaidIsDone'
  BY DEF FormInv, ComparedWithShown, MemoStays, SaidIsDone
<1> QED BY <1>1, <1>2, <1>3 DEF FormInv

\* The answer to a save: the request was the last one.
LEMMA ReceiveSavedKeepsForm == ASSUME FormInv, F!ReceiveSaved PROVE FormInv'
<1>1. PICK m \in F!Answered("done") :
        /\ m.what = "save"
        /\ page' = CASE page.kind = "settings" -> F!SettingsSaved(m)
                     [] page.kind = "new" -> F!NewSaved
                     [] OTHER -> F!LeftSaved
        /\ net' = net \ {m} /\ UNCHANGED <<row, made, changes, touches>>
  BY DEF F!ReceiveSaved
<1>2. m \in net /\ m.no = page.waits /\ m.state = "done"
  BY <1>1 DEF F!Answered
<1>3. page.creates => page.requests \in made
  <2>1. m.no \in 1 .. page.requests /\ (page.creates => m.no \in made)
    BY <1>2 DEF FormInv, FormNetOK
  <2>2. page.waits \in {0, page.requests}
    BY DEF FormInv, FormTypeOK
  <2> QED BY <1>2, <2>1, <2>2
<1>4. CASE page.kind = "settings"
  <2>1. page' = [[page EXCEPT !.said = "saved"] EXCEPT !.waits = 0, !.form = m.after,
                    !.base = m.after, !.shown = m.after]
    BY <1>1, <1>4 DEF F!SettingsSaved, F!Saved
  <2>2. /\ PageIsRecord' /\ page'.kind = page.kind /\ page'.creates = page.creates
        /\ page'.mayMemo = page.mayMemo /\ page'.requests = page.requests /\ page'.waits = 0
        /\ page'.pressed = page.pressed /\ page'.said = "saved"
        /\ page'.form = m.after /\ page'.base = m.after /\ page'.shown = m.after
    BY <2>1 DEF FormInv, FormTypeOK, PageIsRecord
  <2>3. m.after = [f \in F!RowOf(page.kind) |-> m.after[f]] /\ page.mayMemo
        /\ F!RowOf(page.kind) = F!FieldsOf(page.kind)
    BY <1>2, <1>4, FormFields DEF FormInv, FormTypeOK, FormNetOK
  <2>4. FormTypeOK'
    <3>1. m.after = [f \in F!FieldsOf(page.kind) |-> m.after[f]]
      BY <2>3
    <3> QED BY <1>1, <2>2, <2>3, <3>1 DEF FormInv, FormTypeOK
  <2>5. FormNetOK' /\ SavesNameWhatWasEntered'
    BY <1>1, <2>2, NothingSent
  <2>6. ComparedWithShown' /\ MemoStays' /\ SaidIsDone'
    BY <1>1, <1>3, <2>2, <2>3 DEF FormInv, ComparedWithShown, MemoStays, SaidIsDone
  <2> QED BY <2>4, <2>5, <2>6 DEF FormInv
<1>5. CASE page.kind # "settings"
  <2>1. page' = [[page EXCEPT !.said = "saved"] EXCEPT !.waits = 0]
        \/ page' = [[page EXCEPT !.said = "saved"] EXCEPT !.open = FALSE]
    BY <1>1, <1>5 DEF F!NewSaved, F!LeftSaved, F!Saved
  <2>2. /\ PageIsRecord' /\ page'.kind = page.kind /\ page'.creates = page.creates
        /\ page'.mayMemo = page.mayMemo /\ page'.requests = page.requests
        /\ page'.waits \in {0, page.waits} /\ page'.pressed = page.pressed
        /\ page'.form = page.form /\ page'.base = page.base /\ page'.shown = page.shown
    BY <2>1 DEF FormInv, FormTypeOK, PageIsRecord
  <2>3. page'.waits \in {0, page.requests}
    BY <2>2 DEF FormInv, FormTypeOK
  <2> QED BY <1>1, <1>3, <2>2, <2>3, AnswerKeepsForm
<1> QED BY <1>4, <1>5

\* The answer to a button of the status.
LEMMA ReceiveStatusKeepsForm == ASSUME FormInv, F!ReceiveStatus PROVE FormInv'
<1>1. PICK m \in F!Answered("done") :
        /\ m.what = "status"
        /\ \E follow \in SUBSET {f \in {"rest"} : page.form[f] = page.shown[f]} :
              page' = [page EXCEPT
                          !.waits = 0, !.said = "saved",
                          !.base = [m.after EXCEPT !["length"] = page.base["length"]],
                          !.form = [f \in DOMAIN @ |-> IF f \in follow THEN m.after[f] ELSE @[f]]]
        /\ net' = net \ {m} /\ UNCHANGED <<row, made, changes, touches>>
  BY DEF F!ReceiveStatus
<1>2. m \in net /\ page.kind = "edit" /\ page.mayMemo /\ ~page.creates /\ page.pressed
  BY <1>1 DEF F!Answered, FormInv, FormTypeOK, FormNetOK, ComparedWithShown
<1>3. PICK follow :
        page' = [page EXCEPT
                    !.waits = 0, !.said = "saved",
                    !.base = [m.after EXCEPT !["length"] = page.base["length"]],
                    !.form = [f \in DOMAIN @ |-> IF f \in follow THEN m.after[f] ELSE @[f]]]
  BY <1>1
<1> DEFINE base == [m.after EXCEPT !["length"] = page.base["length"]]
           form == [f \in DOMAIN page.form |-> IF f \in follow THEN m.after[f] ELSE page.form[f]]
<1>4. page' = [page EXCEPT !.waits = 0, !.said = "saved", !.base = base, !.form = form]
  BY <1>3 DEF FormInv, FormTypeOK, PageIsRecord
<1>5. base = [f \in F!RowOf(page.kind) |-> base[f]]
  BY <1>2 DEF FormInv, FormNetOK
<1>6. form = [f \in F!FieldsOf(page.kind) |-> form[f]]
  BY DEF FormInv, FormTypeOK
<1> HIDE DEF base, form
<1>7. /\ PageIsRecord' /\ page'.kind = page.kind /\ page'.creates = page.creates
      /\ page'.mayMemo = page.mayMemo /\ page'.requests = page.requests /\ page'.waits = 0
      /\ page'.pressed = page.pressed /\ page'.said = "saved"
      /\ page'.form = form /\ page'.base = base /\ page'.shown = page.shown
  BY <1>4 DEF FormInv, FormTypeOK, PageIsRecord
<1>8. FormTypeOK'
  BY <1>1, <1>5, <1>6, <1>7 DEF FormInv, FormTypeOK
<1>9. FormNetOK' /\ SavesNameWhatWasEntered'
  BY <1>1, <1>7, NothingSent
<1>10. ComparedWithShown' /\ MemoStays' /\ SaidIsDone'
  BY <1>1, <1>2, <1>7 DEF ComparedWithShown, MemoStays, SaidIsDone
<1> QED BY <1>8, <1>9, <1>10 DEF FormInv

\* A refusal, or no answer.
LEMMA FailureKeepsForm == ASSUME FormInv, F!ReceiveRefused \/ F!LoseConnection PROVE FormInv'
<1>1. /\ page' = [page EXCEPT !.waits = 0, !.said = "failed"]
      /\ net' \subseteq net /\ UNCHANGED <<row, made>>
  BY DEF F!ReceiveRefused, F!LoseConnection
<1>2. /\ PageIsRecord' /\ page'.kind = page.kind /\ page'.creates = page.creates
      /\ page'.mayMemo = page.mayMemo /\ page'.requests = page.requests /\ page'.waits = 0
      /\ page'.pressed = page.pressed /\ page'.said = "failed"
      /\ page'.form = page.form /\ page'.base = page.base /\ page'.shown = page.shown
  BY <1>1 DEF FormInv, FormTypeOK, PageIsRecord
<1> QED BY <1>1, <1>2, AnswerKeepsForm

\* Every step of a form keeps the invariant.
LEMMA FormStep == FormInv /\ [F!Next]_(F!vars) => FormInv'
<1> SUFFICES ASSUME FormInv, [F!Next]_(F!vars) PROVE FormInv'
  OBVIOUS
<1>1. CASE F!Next
  BY <1>1, OthersKeepForm, TouchKeepsForm, SaveKeepsForm, PressKeepsForm, ApplyKeepsForm,
     RefuseKeepsForm, ReceiveSavedKeepsForm, ReceiveStatusKeepsForm, FailureKeepsForm
  DEF F!Next
<1>2. CASE UNCHANGED F!vars
  <2>1. UNCHANGED <<row, made, page, net>>
    BY <1>2 DEF F!vars
  <2>2. FormNetOK' /\ SavesNameWhatWasEntered'
    BY <2>1, NothingSent
  <2> QED BY <2>1, <2>2 DEF FormInv, FormTypeOK, PageIsRecord, ComparedWithShown, MemoStays,
                            SaidIsDone
<1> QED BY <1>1, <1>2

\* The inductive invariant of Forms: what a page shows, compares with and has sent.
THEOREM FormSafe == F!Spec => []FormInv
BY FormBegins, FormStep, PTL DEF F!Spec

\* FormsSaveWhatWasChanged: what was entered is named by the save and therefore stored,
\* what was not is not named, or as the page shows it (the submit handlers of the forms).
THEOREM FormsSave == F!Spec => []FormsSaveWhatWasChanged
<1>1. FormInv => FormsSaveWhatWasChanged
  <2> SUFFICES ASSUME FormInv PROVE FormsSaveWhatWasChanged
    OBVIOUS
  <2>1. ASSUME NEW m \in F!Saves
        PROVE  /\ m \in net /\ m.what = "save"
               /\ m.after = [f \in F!RowOf(page.kind) |->
                                IF f \in DOMAIN m.fields THEN m.fields[f] ELSE m.before[f]]
               /\ DOMAIN m.form = F!FieldsOf(page.kind) /\ DOMAIN m.after = F!RowOf(page.kind)
    BY <2>1 DEF F!Saves, FormInv, FormNetOK
  <2>2. F!ChangesAreSaved
    <3> SUFFICES ASSUME NEW m \in F!Saves, NEW f \in DOMAIN m.after,
                        F!Entered(m, f), F!Promised(m, f)
                 PROVE  m.after[f] = m.form[f]
      BY DEF F!ChangesAreSaved
    <3>1. f \in DOMAIN m.form
      BY DEF F!Entered
    <3>2. f \in DOMAIN m.fields /\ m.fields[f] = m.form[f]
      BY <2>1, <3>1 DEF FormInv, SavesNameWhatWasEntered
    <3> QED BY <2>1, <3>2
  <2>3. F!OthersAreKept
    <3> SUFFICES ASSUME NEW m \in F!Saves, NEW f \in DOMAIN m.after, ~F!Entered(m, f)
                 PROVE  /\ m.after[f] \in {m.before[f], m.shown[f]}
                        /\ page.kind = "edit" /\ f \in {"staff", "menu", "status"}
                              /\ F!Promised(m, f) => m.after[f] = m.before[f]
                        /\ f = "memo" /\ ~page.mayMemo => m.after[f] = m.before[f]
      BY DEF F!OthersAreKept
    <3>1. CASE f \notin DOMAIN m.fields
      BY <2>1, <3>1
    <3>2. CASE f \in DOMAIN m.fields
      <4>1. /\ f \in DOMAIN m.form /\ m.fields[f] = m.form[f] /\ (f = "memo" => page.mayMemo)
            /\ (page.kind = "edit" /\ f \in {"staff", "menu"} => ~F!Promised(m, f))
        BY <2>1, <3>2 DEF FormInv, SavesNameWhatWasEntered
      <4>2. m.form[f] = m.shown[f]
        BY <4>1 DEF F!Entered
      <4>3. page.kind = "edit" => f # "status"
        BY <2>1, <4>1, FormFields DEF FormInv, FormTypeOK
      <4> QED BY <2>1, <3>2, <4>1, <4>2, <4>3
    <3> QED BY <3>1, <3>2
  <2>4. F!SuccessIsTrue
    <3>1. \A m \in net : m.no = page.waits => m.no = page.requests
      <4>1. \A m \in net : m.no \in 1 .. page.requests
        BY DEF FormInv, FormNetOK
      <4>2. page.waits \in {0, page.requests}
        BY DEF FormInv, FormTypeOK
      <4> QED BY <4>1, <4>2
    <3> QED BY <3>1 DEF F!SuccessIsTrue, FormInv, SaidIsDone
  <2> QED BY <2>2, <2>3, <2>4 DEF FormsSaveWhatWasChanged, F!FormsSaveWhatWasChanged
<1> QED BY <1>1, FormSafe, PTL

-----------------------------------------------------------------------------
(* Imports: why every record of a file is imported once and linked as      *)
(* reviewed.  A run has taken the chunks whose offsets it lists, and       *)
(* counted as many records as are in them, so that a run which has counted *)
(* as much as its file is long has all of them; a page and an answer tell  *)
(* only what stays true; and a link, once made, is to the staff of its key.*)

RunRows == [offsets : SUBSET Nat, created : Int, skipped : Int, prepared : BOOLEAN]

\* Every variable of the database stays in its domain, and no record has two rows.
ImportTypeOK ==
    /\ rows \in [Records -> {0, 1}] /\ deleted \in [Records -> Nat] /\ links \in [Records -> Nat]
    /\ staff \in [Keys -> Nat] /\ hired \in Nat
    /\ runs \in [DOMAIN Files -> RunRows]
    /\ \A f \in DOMAIN Files : runs[f].offsets \subseteq I!Offsets(f)

\* The index after the last one of the chunk at an offset, and the indexes of some chunks.
ChunkEnd(f, o) == IF o + ChunkSize <= Len(Files[f]) THEN o + ChunkSize ELSE Len(Files[f])
Covered(f, T) == {i \in 1 .. Len(Files[f]) : \E o \in T : i \in o + 1 .. ChunkEnd(f, o)}

\* A page and a request, or its answer, are records.
PageOK(x) ==
    /\ x = [file |-> x.file, busy |-> x.busy, at |-> x.at, progress |-> x.progress,
            said |-> x.said, plan |-> x.plan, result |-> x.result]
    /\ x.file \in DOMAIN Files \cup {NoFile}
PostOK(p) ==
    /\ p = [clerk |-> p.clerk, op |-> p.op, file |-> p.file, offset |-> p.offset,
            checksum |-> p.checksum, served |-> p.served, answer |-> p.answer]
    /\ p.clerk \in Clerks \cup {Nobody} /\ p.op \in {"prepare", "chunk", "plan", "apply"}
    /\ p.op \in {"prepare", "chunk"} => p.file \in DOMAIN Files
    /\ p.op = "chunk" => p.offset \in I!Offsets(p.file)
ImportPagesOK ==
    /\ DOMAIN pages = Clerks /\ \A c \in Clerks : PageOK(pages[c])
    /\ \A p \in posts : PostOK(p)

\* A page waits for one request, about the file it shows.
OnePostEach ==
    /\ \A p, q \in posts : p.clerk = q.clerk /\ p.clerk # Nobody => p = q
    /\ \A p \in posts : p.clerk # Nobody =>
          /\ pages[p.clerk].busy
          /\ p.op \in {"prepare", "chunk"} => pages[p.clerk].file = p.file

\* What an answer tells and what a page shows of it: an import that is complete is a run
\* with all its chunks, and what was linked is what was reviewed.
Whole(f) == runs[f].offsets = I!Offsets(f)
AllLinked(linked, records) ==
    /\ records \subseteq Records /\ linked = I!Cardinality(records)
    /\ \A r \in records : links[r] # 0
Told(p) ==
    /\ p.op \in {"prepare", "chunk"} /\ p.answer.completed => Whole(p.file)
    /\ p.op = "apply" /\ p.answer.linked # -1 => AllLinked(p.answer.linked, p.checksum.records)
Shows(x) ==
    /\ x.said => x.file \in DOMAIN Files /\ Whole(x.file)
    /\ x.result.linked # -1 => AllLinked(x.result.linked, x.result.reviewed)
AnswersAreTrue ==
    /\ \A p \in posts : p.served => Told(p)
    /\ \A c \in Clerks : Shows(pages[c])

\* The records of a chunk that was taken are there, or were.
TakenIsThere ==
    \A f \in DOMAIN Files : \A o \in runs[f].offsets : \A r \in I!InChunk(f, o) :
        rows[r] + deleted[r] > 0

\* What is linked is linked as its key says.
LinkedAsKeyed == \A r \in Records : links[r] # 0 => links[r] = staff[KeyOf[r]]

\* What the runs counted, chunk by chunk, is what became of the records.
Counted ==
    /\ \A f \in DOMAIN Files :
          runs[f].created + runs[f].skipped =
              SumFunction([o \in runs[f].offsets |-> Len(I!Chunk(f, o))])
    /\ SumFunction([f \in DOMAIN Files |-> runs[f].created]) =
          SumFunction([r \in Records |-> rows[r] + deleted[r]])

DatabaseInv == ImportTypeOK /\ TakenIsThere /\ LinkedAsKeyed /\ Counted
TrafficInv == ImportPagesOK /\ OnePostEach /\ AnswersAreTrue
ImportInv == DatabaseInv /\ TrafficInv

-----------------------------------------------------------------------------
\* The operators of the library are the same in every instance.
LEMMA ImportsCount == \A S : I!Cardinality(S) = Cardinality(S)
BY DEF I!Cardinality, Cardinality

\* The lesser of two numbers.
LEMMA LesserOfTwo ==
    ASSUME NEW a \in Int, NEW b \in Int
    PROVE  I!Min({a, b}) = IF a <= b THEN a ELSE b
BY DEF I!Min


\* A set of natural numbers that is not empty has a least one.
LEMMA LeastOne ==
    ASSUME NEW S \in SUBSET Nat, S # {}, IsFiniteSet(S)
    PROVE  I!Min(S) \in S
<1> DEFINE R == {w \in S \X S : w[1] > w[2]}
<1>1. /\ \A n \in S : <<n, n>> \notin R
      /\ \A k, m, n \in S : <<k, m>> \in R /\ <<m, n>> \in R => <<k, n>> \in R
  OBVIOUS
<1>2. PICK n \in S : \A m \in S : <<n, m>> \notin R
  <2> HIDE DEF R
  <2> QED BY <1>1, LastOne
<1>3. ASSUME NEW m \in S PROVE n <= m
  <2>1. n > m => <<n, m>> \in R
    OBVIOUS
  <2> QED BY <1>2, <2>1
<1> QED BY <1>3 DEF I!Min

\* Of two different multiples the greater is greater by ChunkSize at least.
LEMMA OffsetsApart ==
    ASSUME NEW o \in Nat, NEW p \in Nat, o % ChunkSize = 0, p % ChunkSize = 0, o < p
    PROVE  o + ChunkSize <= p
<1> DEFINE a == o \div ChunkSize
           b == p \div ChunkSize
<1>0. ChunkSize \in Nat /\ ChunkSize > 0
  BY RequestsAssumption
<1>1. o = ChunkSize * a /\ p = ChunkSize * b /\ a \in Int /\ b \in Int
  BY <1>0
<1> HIDE DEF a, b
<1>2. a < b
  BY <1>0, <1>1
<1>3. b - a >= 1
  BY <1>1, <1>2
<1>4. ChunkSize * (b - a) >= ChunkSize
  BY <1>0, <1>1, <1>3
<1> QED BY <1>0, <1>1, <1>4

\* A chunk is the part of its file from its offset on.
LEMMA ChunkIs ==
    ASSUME NEW f \in DOMAIN Files, NEW o \in I!Offsets(f)
    PROVE  /\ Len(Files[f]) \in Nat /\ o \in Nat /\ o % ChunkSize = 0 /\ o < Len(Files[f])
           /\ ChunkEnd(f, o) \in o + 1 .. Len(Files[f])
           /\ Len(I!Chunk(f, o)) = ChunkEnd(f, o) - o
           /\ I!InChunk(f, o) \subseteq Records /\ IsFiniteSet(I!InChunk(f, o))
<1>1. Files[f] \in Seq(Records) /\ ChunkSize \in Nat \ {0}
  BY RequestsAssumption
<1>2. Len(Files[f]) \in Nat /\ o \in Nat /\ o % ChunkSize = 0 /\ o < Len(Files[f])
  BY <1>1 DEF I!Offsets
<1>3. ChunkEnd(f, o) \in o + 1 .. Len(Files[f])
  BY <1>1, <1>2 DEF ChunkEnd
<1>4. I!Chunk(f, o) = SubSeq(Files[f], o + 1, ChunkEnd(f, o))
  <2>1. o + ChunkSize \in Int /\ Len(Files[f]) \in Int
    BY <1>1, <1>2
  <2>2. I!Min({o + ChunkSize, Len(Files[f])}) = ChunkEnd(f, o)
    BY <2>1, LesserOfTwo DEF ChunkEnd
  <2> QED BY <2>2 DEF I!Chunk
<1>5. \A i \in o + 1 .. ChunkEnd(f, o) : Files[f][i] \in Records
  BY <1>1, <1>2, <1>3
<1>6. I!Chunk(f, o) \in Seq(Records) /\ Len(I!Chunk(f, o)) = ChunkEnd(f, o) - o
  BY <1>1, <1>2, <1>3, <1>4, <1>5
<1>7. I!InChunk(f, o) \subseteq Records
  BY <1>6 DEF I!InChunk
<1>8. IsFiniteSet(I!InChunk(f, o))
  BY <1>7, FS_Subset, RequestsAssumption
<1> QED BY <1>2, <1>3, <1>6, <1>7, <1>8

\* The lengths of chunks add up to the number of indexes in them.
LEMMA ChunksAddUp ==
    ASSUME NEW f \in DOMAIN Files, NEW T \in SUBSET I!Offsets(f)
    PROVE  /\ IsFiniteSet(T)
           /\ SumFunction([o \in T |-> Len(I!Chunk(f, o))]) = Cardinality(Covered(f, T))
<1> DEFINE long == [o \in T |-> Len(I!Chunk(f, o))]
           Bad == {U \in SUBSET T : SumFunctionOnSet(long, U) # Cardinality(Covered(f, U))}
<1>1. IsFiniteSet(T)
  <2>1. Len(Files[f]) \in Nat
    BY RequestsAssumption
  <2>2. IsFiniteSet(0 .. (Len(Files[f]) - 1)) /\ T \subseteq 0 .. (Len(Files[f]) - 1)
    BY <2>1, FS_Interval DEF I!Offsets
  <2> QED BY <2>2, FS_Subset
<1>2. ASSUME Bad # {} PROVE FALSE
  <2>1. PICK U \in Bad : \A V \in Bad : V \subseteq U => V = U
    <3>1. Bad \subseteq SUBSET T
      OBVIOUS
    <3> HIDE DEF Bad
    <3> QED BY <1>1, <1>2, <3>1, SmallestSet
  <2>2. IsFiniteSet(U)
    BY <1>1, FS_Subset
  <2>3. U # {}
    <3> SUFFICES ASSUME U = {} PROVE FALSE
      OBVIOUS
    <3>1. SumFunctionOnSet(long, U) = 0
      BY <2>2, SumSteps
    <3>2. Covered(f, U) = {} /\ Cardinality({}) = 0
      BY FS_EmptySet DEF Covered
    <3> QED BY <3>1, <3>2
  <2> DEFINE x == One(U)
             V == U \ {x}
  <2>4. x \in U /\ x \in T /\ V \in SUBSET T /\ V # U /\ V \subseteq U
    BY <2>3, OneIsIn
  <2>5. SumFunctionOnSet(long, V) = Cardinality(Covered(f, V))
    BY <2>1, <2>4
  <2>6. SumFunctionOnSet(long, U) = long[x] + SumFunctionOnSet(long, V)
    BY <2>2, <2>3, SumSteps
  <2>7. long[x] = ChunkEnd(f, x) - x
    BY <2>4, ChunkIs
  <2> DEFINE A == x + 1 .. ChunkEnd(f, x)
  <2>8. /\ x \in Nat /\ ChunkEnd(f, x) \in x + 1 .. Len(Files[f]) /\ Len(Files[f]) \in Nat
        /\ x % ChunkSize = 0 /\ ChunkEnd(f, x) <= x + ChunkSize /\ ChunkSize \in Nat
    BY <2>4, ChunkIs, RequestsAssumption DEF ChunkEnd
  <2>9. \A o \in V : /\ o \in Nat /\ o # x /\ o % ChunkSize = 0
                     /\ ChunkEnd(f, o) \in Nat /\ ChunkEnd(f, o) <= o + ChunkSize
    <3> SUFFICES ASSUME NEW o \in V
                 PROVE  /\ o \in Nat /\ o # x /\ o % ChunkSize = 0
                        /\ ChunkEnd(f, o) \in Nat /\ ChunkEnd(f, o) <= o + ChunkSize
      OBVIOUS
    <3>1. o \in I!Offsets(f)
      OBVIOUS
    <3> QED BY <3>1, ChunkIs, RequestsAssumption DEF ChunkEnd
  <2> HIDE DEF x, V, long
  <2>10. A \cap Covered(f, V) = {}
    <3> SUFFICES ASSUME NEW o \in V, NEW i \in Int, i \in A, i \in o + 1 .. ChunkEnd(f, o)
                 PROVE  FALSE
      BY <2>8 DEF Covered
    <3>1. o < x => o + ChunkSize <= x
      BY <2>8, <2>9, OffsetsApart
    <3>2. x < o => x + ChunkSize <= o
      BY <2>8, <2>9, OffsetsApart
    <3>3. /\ o \in Nat /\ o # x /\ ChunkEnd(f, o) \in Nat /\ ChunkEnd(f, o) <= o + ChunkSize
      BY <2>9
    <3> QED BY <2>8, <3>1, <3>2, <3>3
  <2>11. Covered(f, U) = A \cup Covered(f, V)
    <3>1. U = V \cup {x}
      BY <2>4 DEF V
    <3>2. A \subseteq 1 .. Len(Files[f])
      BY <2>8
    <3> QED BY <3>1, <3>2 DEF Covered
  <2>12. IsFiniteSet(Covered(f, V)) /\ Cardinality(Covered(f, V)) \in Nat
    <3>1. Covered(f, V) \in SUBSET (1 .. Len(Files[f]))
      BY DEF Covered
    <3>2. IsFiniteSet(1 .. Len(Files[f]))
      BY <2>8, FS_Interval
    <3>3. IsFiniteSet(Covered(f, V))
      BY <3>1, <3>2, FS_Subset
    <3> QED BY <3>3, FS_CardinalityType
  <2>13. IsFiniteSet(A) /\ Cardinality(A) = ChunkEnd(f, x) - x
    BY <2>8, FS_Interval
  <2> HIDE DEF A
  <2>14. Cardinality(Covered(f, U)) = Cardinality(A) + Cardinality(Covered(f, V))
    <3>1. Cardinality({}) = 0
      BY FS_EmptySet
    <3>2. Cardinality(A \cup Covered(f, V)) =
             Cardinality(A) + Cardinality(Covered(f, V)) - Cardinality(A \cap Covered(f, V))
      BY <2>12, <2>13, FS_Union
    <3>3. Cardinality(A) \in Int
      BY <2>8, <2>13
    <3>4. Cardinality(A \cap Covered(f, V)) = 0
      BY <2>10, <3>1
    <3> QED BY <2>11, <2>12, <3>2, <3>3, <3>4
  <2>15. SumFunctionOnSet(long, U) = Cardinality(Covered(f, U))
    BY <2>5, <2>6, <2>7, <2>13, <2>14
  <2> QED BY <2>15 DEF long
<1>3. SumFunctionOnSet(long, T) = Cardinality(Covered(f, T))
  <2>1. T \notin Bad
    BY <1>2
  <2> QED BY <2>1
<1> QED BY <1>1, <1>3 DEF SumFunction

\* A run that has counted as much as the file is long has all the chunks.
LEMMA CountedIsWhole ==
    ASSUME NEW f \in DOMAIN Files, NEW T \in SUBSET I!Offsets(f),
           SumFunction([o \in T |-> Len(I!Chunk(f, o))]) = Len(Files[f])
    PROVE  T = I!Offsets(f)
<1>1. Len(Files[f]) \in Nat
  BY RequestsAssumption
<1>2. /\ IsFiniteSet(1 .. Len(Files[f])) /\ Cardinality(1 .. Len(Files[f])) = Len(Files[f])
      /\ Covered(f, T) \in SUBSET (1 .. Len(Files[f]))
  <2>1. /\ IsFiniteSet(1 .. Len(Files[f]))
        /\ Cardinality(1 .. Len(Files[f])) = IF 1 > Len(Files[f]) THEN 0 ELSE Len(Files[f]) - 1 + 1
    <3> DEFINE n == Len(Files[f])
    <3>1. n \in Int /\ 1 \in Int
      BY <1>1
    <3> HIDE DEF n
    <3>2. IsFiniteSet(1 .. n) /\ Cardinality(1 .. n) = IF 1 > n THEN 0 ELSE n - 1 + 1
      BY <3>1, FS_Interval
    <3> QED BY <3>2 DEF n
  <2>2. Covered(f, T) \in SUBSET (1 .. Len(Files[f]))
    BY DEF Covered
  <2> QED BY <1>1, <2>1, <2>2
<1>3. Covered(f, T) = 1 .. Len(Files[f])
  BY <1>2, ChunksAddUp, FS_Subset
<1>4. ASSUME NEW o \in I!Offsets(f) PROVE o \in T
  <2>1. o \in Nat /\ o + 1 \in 1 .. Len(Files[f]) /\ o % ChunkSize = 0
    BY <1>1, <1>4, ChunkIs
  <2>2. PICK p \in T : o + 1 \in p + 1 .. ChunkEnd(f, p)
    BY <1>3, <2>1 DEF Covered
  <2>3. /\ p \in Nat /\ p % ChunkSize = 0 /\ ChunkEnd(f, p) \in Nat
        /\ ChunkEnd(f, p) <= p + ChunkSize /\ ChunkSize \in Nat
    BY <1>1, ChunkIs, RequestsAssumption DEF ChunkEnd
  <2>4. ~(p < o)
    BY <2>1, <2>2, <2>3, OffsetsApart
  <2> QED BY <2>1, <2>2, <2>3, <2>4
<1> QED BY <1>4

-----------------------------------------------------------------------------
\* So is the sum.
LEMMA ImportsSum == \A g : I!SumFunction(g) = SumFunction(g)
BY DEF I!SumFunction, SumFunction, I!SumFunctionOnSet, SumFunctionOnSet, I!FoldFunctionOnSet,
   FoldFunctionOnSet, I!MapThenFoldSet, MapThenFoldSet

\* At first nothing is imported.
LEMMA ImportBegins == I!Init => ImportInv
<1> SUFFICES ASSUME I!Init PROVE ImportInv
  OBVIOUS
<1>1. /\ rows = [r \in Records |-> 0] /\ deleted = [r \in Records |-> 0]
      /\ links = [r \in Records |-> 0]
      /\ runs = [f \in DOMAIN Files |-> I!NoRun] /\ staff = [k \in Keys |-> 0] /\ hired = 0
      /\ pages = [c \in Clerks |-> I!Fresh] /\ posts = {}
  BY DEF I!Init
<1>2. ImportTypeOK
  BY <1>1 DEF ImportTypeOK, I!NoRun, RunRows
<1>3. TakenIsThere
  BY <1>1 DEF TakenIsThere, I!NoRun
<1>4. LinkedAsKeyed
  BY <1>1 DEF LinkedAsKeyed
<1>5. Counted
  <2>1. ASSUME NEW f \in DOMAIN Files
        PROVE  /\ runs[f].created = 0
               /\ runs[f].created + runs[f].skipped =
                      SumFunction([o \in runs[f].offsets |-> Len(I!Chunk(f, o))])
    <3>1. runs[f].offsets = {} /\ runs[f].created = 0 /\ runs[f].skipped = 0
      BY <1>1 DEF I!NoRun
    <3> DEFINE g == [o \in runs[f].offsets |-> Len(I!Chunk(f, o))]
    <3>2. DOMAIN g = {}
      BY <3>1
    <3> HIDE DEF g
    <3>3. SumFunction(g) = 0
      BY <3>2, SumOfNothing
    <3>4. runs[f].created + runs[f].skipped = SumFunction(g)
      BY <3>1, <3>3
    <3> QED BY <3>1, <3>4 DEF g
  <2>2. SumFunction([f \in DOMAIN Files |-> runs[f].created]) = 0
    <3> DEFINE g == [f \in DOMAIN Files |-> runs[f].created]
    <3>1. DOMAIN g = DOMAIN Files /\ \A f \in DOMAIN g : g[f] = 0
      BY <2>1
    <3>2. IsFiniteSet(DOMAIN g)
      BY <3>1, RequestsAssumption
    <3> HIDE DEF g
    <3>3. SumFunction(g) = 0
      BY <3>1, <3>2, SumOfZeros
    <3> QED BY <3>3 DEF g
  <2>3. SumFunction([r \in Records |-> rows[r] + deleted[r]]) = 0
    <3> DEFINE g == [r \in Records |-> rows[r] + deleted[r]]
    <3>1. DOMAIN g = Records /\ \A r \in DOMAIN g : g[r] = 0
      BY <1>1
    <3>2. IsFiniteSet(DOMAIN g)
      BY <3>1, RequestsAssumption
    <3> HIDE DEF g
    <3>3. SumFunction(g) = 0
      BY <3>1, <3>2, SumOfZeros
    <3> QED BY <3>3 DEF g
  <2>4. SumFunction([f \in DOMAIN Files |-> runs[f].created]) =
           SumFunction([r \in Records |-> rows[r] + deleted[r]])
    BY <2>2, <2>3
  <2> QED BY <2>1, <2>4 DEF Counted
<1>6. TrafficInv
  BY <1>1, RequestsAssumption DEF TrafficInv, ImportPagesOK, PageOK, OnePostEach, AnswersAreTrue,
                                  Shows, I!Fresh, I!NoPlan, I!NoSummary
<1> QED BY <1>2, <1>3, <1>4, <1>5, <1>6 DEF ImportInv, DatabaseInv

\* What a clerk does, or an answer: the pages of the others, and what is on its way for them,
\* stay; the clerk's request is replaced by at most one other, or given up.
Turn(c, N) ==
    /\ UNCHANGED I!database
    /\ DOMAIN pages' = Clerks /\ \A d \in Clerks \ {c} : pages'[d] = pages[d]
    /\ PageOK(pages'[c]) /\ Shows(pages'[c])
    /\ \A q \in posts' : \/ q \in posts /\ q.clerk # c
                         \/ PostOK(q) /\ q.clerk = Nobody /\ ~q.served
                         \/ q \in N
    /\ \A n \in N : /\ PostOK(n) /\ n.clerk = c /\ ~n.served /\ pages'[c].busy
                    /\ n.op \in {"prepare", "chunk"} => n.file = pages'[c].file
    /\ \A n, m \in N : n = m

\* It keeps the invariant.
LEMMA PageStep ==
    ASSUME ImportInv, NEW c \in Clerks, NEW N, Turn(c, N)
    PROVE  ImportInv'
<1>1. UNCHANGED <<rows, deleted, runs, staff, hired, named, links>>
  BY DEF Turn, I!database
<1>2. DatabaseInv'
  BY <1>1 DEF ImportInv, DatabaseInv, ImportTypeOK, TakenIsThere, LinkedAsKeyed, Counted
<1>3. ImportPagesOK'
  BY DEF Turn, ImportInv, TrafficInv, ImportPagesOK
<1>4. OnePostEach'
  <2>1. Nobody # c
    BY RequestsAssumption
  <2>2. ASSUME NEW p \in posts', NEW q \in posts', p.clerk = q.clerk, p.clerk # Nobody PROVE p = q
    BY <2>2 DEF Turn, ImportInv, TrafficInv, OnePostEach
  <2>3. ASSUME NEW p \in posts', p.clerk # Nobody
        PROVE  /\ pages'[p.clerk].busy
               /\ p.op \in {"prepare", "chunk"} => pages'[p.clerk].file = p.file
    BY <2>3 DEF Turn, ImportInv, TrafficInv, OnePostEach, ImportPagesOK, PostOK
  <2> QED BY <2>2, <2>3 DEF OnePostEach
<1>5. AnswersAreTrue'
  BY <1>1 DEF Turn, ImportInv, TrafficInv, AnswersAreTrue, Told, Shows, Whole, AllLinked
<1> QED BY <1>2, <1>3, <1>4, <1>5 DEF ImportInv, TrafficInv

\* A clerk whose page is not busy waits for nothing.
LEMMA NotBusy ==
    ASSUME ImportInv, NEW c \in Clerks, ~pages[c].busy
    PROVE  \A p \in posts : p.clerk # c
BY RequestsAssumption DEF ImportInv, TrafficInv, OnePostEach

\* A request that is sent.
LEMMA RequestIs ==
    ASSUME NEW c \in Clerks, NEW op \in {"prepare", "chunk", "plan", "apply"}, NEW file, NEW offset,
           NEW checksum, op \in {"prepare", "chunk"} => file \in DOMAIN Files,
           op = "chunk" => offset \in I!Offsets(file)
    PROVE  /\ PostOK(I!Request(c, op, file, offset, checksum))
           /\ I!Request(c, op, file, offset, checksum).clerk = c
           /\ I!Request(c, op, file, offset, checksum).op = op
           /\ I!Request(c, op, file, offset, checksum).file = file
           /\ ~I!Request(c, op, file, offset, checksum).served
BY DEF PostOK, I!Request

\* A page that begins anew.
LEMMA FreshIs ==
    /\ PageOK(I!Fresh) /\ Shows(I!Fresh)
    /\ \A f \in DOMAIN Files : LET x == [I!Fresh EXCEPT !.file = f] IN PageOK(x) /\ Shows(x)
    /\ LET x == [I!Fresh EXCEPT !.busy = TRUE] IN PageOK(x) /\ Shows(x) /\ x.busy
<1>1. ASSUME NEW k, k = I!Fresh, NEW file, NEW busy, file \in DOMAIN Files \cup {NoFile},
             NEW x, x \in {k, [k EXCEPT !.file = file], [k EXCEPT !.busy = busy]}
      PROVE  PageOK(x) /\ Shows(x)
  BY <1>1 DEF PageOK, Shows, I!Fresh
<1>2. ASSUME NEW k, k = I!Fresh PROVE [k EXCEPT !.busy = TRUE].busy
  BY <1>2 DEF I!Fresh
<1> QED BY <1>1, <1>2

\* The clerk chooses a file.
LEMMA ChooseStep ==
    ASSUME ImportInv, NEW c \in Clerks, NEW f \in DOMAIN Files, I!Choose(c, f)
    PROVE  ImportInv'
<1>1. DOMAIN pages = Clerks
  BY DEF ImportInv, TrafficInv, ImportPagesOK
<1>2. /\ DOMAIN pages' = Clerks /\ \A d \in Clerks \ {c} : pages'[d] = pages[d]
      /\ pages'[c] = [I!Fresh EXCEPT !.file = f]
      /\ UNCHANGED I!database /\ posts' = posts /\ ~pages[c].busy
  BY <1>1 DEF I!Choose
<1>3. PageOK(pages'[c]) /\ Shows(pages'[c])
  BY <1>2, FreshIs
<1>4. \A q \in posts' : q \in posts /\ q.clerk # c
  BY <1>2, NotBusy
<1>5. Turn(c, {})
  BY <1>2, <1>3, <1>4 DEF Turn
<1> QED BY <1>5, PageStep

\* A page of which some fields have changed.
LEMMA PageBecomes ==
    ASSUME NEW x, PageOK(x), Shows(x), NEW busy, NEW at, NEW progress, NEW plan
    PROVE  LET y == [file |-> x.file, busy |-> busy, at |-> at, progress |-> progress,
                     said |-> x.said, plan |-> plan, result |-> x.result]
           IN PageOK(y) /\ Shows(y)
BY DEF PageOK, Shows

\* The clerk starts, or goes on.
LEMMA StartStep ==
    ASSUME ImportInv, NEW c \in Clerks, I!Start(c)
    PROVE  ImportInv'
<1>1. DOMAIN pages = Clerks /\ PageOK(pages[c]) /\ Shows(pages[c])
  BY DEF ImportInv, TrafficInv, ImportPagesOK, AnswersAreTrue
<1>2. /\ pages' = [pages EXCEPT ![c].busy = TRUE, ![c].at = 0]
      /\ UNCHANGED I!database
      /\ posts' = posts \cup {I!Request(c, "prepare", pages[c].file, 0, NoFile)}
      /\ pages[c].file # NoFile /\ ~pages[c].busy
  BY DEF I!Start
<1> DEFINE x == pages[c]
           n == I!Request(c, "prepare", x.file, 0, NoFile)
<1>3. /\ DOMAIN pages' = Clerks /\ \A d \in Clerks \ {c} : pages'[d] = pages[d]
      /\ pages'[c] = [x EXCEPT !.busy = TRUE, !.at = 0]
  BY <1>1, <1>2
<1>4. /\ pages'[c] = [file |-> x.file, busy |-> TRUE, at |-> 0, progress |-> x.progress,
                      said |-> x.said, plan |-> x.plan, result |-> x.result]
  <2> HIDE DEF x
  <2> QED BY <1>1, <1>3 DEF PageOK, x
<1>5. PageOK(pages'[c]) /\ Shows(pages'[c]) /\ pages'[c].busy /\ pages'[c].file = x.file
  BY <1>1, <1>4, PageBecomes
<1>6. \A q \in posts : q.clerk # c
  BY <1>2, NotBusy
<1>7. x.file \in DOMAIN Files
  BY <1>1, <1>2 DEF PageOK
<1>8. PostOK(n) /\ n.clerk = c /\ ~n.served /\ n.file = x.file
  BY <1>7, RequestIs
<1>9. posts' = posts \cup {n}
  BY <1>2
<1> HIDE DEF n, x
<1>10. Turn(c, {n})
  BY <1>2, <1>3, <1>5, <1>6, <1>8, <1>9 DEF Turn
<1> QED BY <1>10, PageStep

\* The page of the links is opened.
LEMMA OpenLinksStep ==
    ASSUME ImportInv, NEW c \in Clerks, I!OpenLinks(c)
    PROVE  ImportInv'
<1>1. DOMAIN pages = Clerks
  BY DEF ImportInv, TrafficInv, ImportPagesOK
<1> DEFINE n == I!Request(c, "plan", NoFile, 0, NoFile)
<1>2. /\ DOMAIN pages' = Clerks /\ \A d \in Clerks \ {c} : pages'[d] = pages[d]
      /\ pages'[c] = [I!Fresh EXCEPT !.busy = TRUE]
      /\ UNCHANGED I!database /\ posts' = posts \cup {n} /\ ~pages[c].busy
  BY <1>1 DEF I!OpenLinks
<1>3. PageOK(pages'[c]) /\ Shows(pages'[c]) /\ pages'[c].busy
  BY <1>2, FreshIs
<1>4. \A q \in posts : q.clerk # c
  BY <1>2, NotBusy
<1>5. PostOK(n) /\ n.clerk = c /\ ~n.served /\ n.op = "plan"
  BY RequestIs
<1> HIDE DEF n
<1>6. Turn(c, {n})
  BY <1>2, <1>3, <1>4, <1>5 DEF Turn
<1> QED BY <1>6, PageStep

\* The links are applied.
LEMMA ApplyLinksStep ==
    ASSUME ImportInv, NEW c \in Clerks, I!ApplyLinks(c)
    PROVE  ImportInv'
<1>1. DOMAIN pages = Clerks /\ PageOK(pages[c]) /\ Shows(pages[c])
  BY DEF ImportInv, TrafficInv, ImportPagesOK, AnswersAreTrue
<1> DEFINE x == pages[c]
           n == I!Request(c, "apply", NoFile, 0, x.plan.checksum)
<1>2. /\ DOMAIN pages' = Clerks /\ \A d \in Clerks \ {c} : pages'[d] = pages[d]
      /\ pages'[c] = [x EXCEPT !.busy = TRUE]
      /\ UNCHANGED I!database /\ posts' = posts \cup {n} /\ ~x.busy
  BY <1>1 DEF I!ApplyLinks
<1>3. /\ pages'[c] = [file |-> x.file, busy |-> TRUE, at |-> x.at, progress |-> x.progress,
                      said |-> x.said, plan |-> x.plan, result |-> x.result]
  <2> HIDE DEF x
  <2> QED BY <1>1, <1>2 DEF PageOK, x
<1>4. PageOK(pages'[c]) /\ Shows(pages'[c]) /\ pages'[c].busy
  BY <1>1, <1>3, PageBecomes
<1>5. \A q \in posts : q.clerk # c
  BY <1>2, NotBusy
<1>6. PostOK(n) /\ n.clerk = c /\ ~n.served /\ n.op = "apply"
  BY RequestIs
<1> HIDE DEF n, x
<1>7. Turn(c, {n})
  BY <1>2, <1>4, <1>5, <1>6 DEF Turn
<1> QED BY <1>7, PageStep

\* An answer that reached nobody's page.
LEMMA NobodyReceives ==
    ASSUME ImportInv, NEW p \in posts, I!Receive(p), p.clerk = Nobody
    PROVE  ImportInv'
<1>1. pages' = pages /\ posts' = posts \ {p} /\ UNCHANGED I!database
  BY DEF I!Receive
<1>2. UNCHANGED <<rows, deleted, runs, staff, hired, named, links>>
  BY <1>1 DEF I!database
<1>3. DatabaseInv'
  BY <1>2 DEF ImportInv, DatabaseInv, ImportTypeOK, TakenIsThere, LinkedAsKeyed, Counted
<1>4. ImportPagesOK'
  BY <1>1 DEF ImportInv, TrafficInv, ImportPagesOK
<1>5. OnePostEach'
  BY <1>1 DEF ImportInv, TrafficInv, OnePostEach
<1>6. AnswersAreTrue'
  BY <1>1, <1>2 DEF ImportInv, TrafficInv, AnswersAreTrue, Told, Shows, Whole, AllLinked
<1> QED BY <1>3, <1>4, <1>5, <1>6 DEF ImportInv, TrafficInv

\* What is known of a clerk whose request, or its answer, is on its way.
LEMMA AwaitedIs ==
    ASSUME ImportInv, NEW p \in posts, p.clerk # Nobody
    PROVE  /\ p.clerk \in Clerks /\ DOMAIN pages = Clerks
           /\ PageOK(pages[p.clerk]) /\ Shows(pages[p.clerk]) /\ pages[p.clerk].busy /\ PostOK(p)
           /\ p.op \in {"prepare", "chunk"} => pages[p.clerk].file = p.file
           /\ p.served => Told(p)
           /\ \A q \in posts \ {p} : q.clerk # p.clerk
<1>1. p.clerk \in Clerks /\ DOMAIN pages = Clerks /\ PageOK(pages[p.clerk]) /\ PostOK(p)
  BY DEF ImportInv, TrafficInv, ImportPagesOK, PostOK
<1>2. /\ pages[p.clerk].busy
      /\ p.op \in {"prepare", "chunk"} => pages[p.clerk].file = p.file
      /\ \A q \in posts \ {p} : q.clerk # p.clerk
  BY DEF ImportInv, TrafficInv, OnePostEach
<1>3. Shows(pages[p.clerk]) /\ (p.served => Told(p))
  BY <1>1 DEF ImportInv, TrafficInv, AnswersAreTrue
<1> QED BY <1>1, <1>2, <1>3

\* The plan of the links arrives.
LEMMA PlannedStep ==
    ASSUME ImportInv, NEW p \in posts, p.clerk # Nobody, I!Planned(p), UNCHANGED I!database
    PROVE  ImportInv'
<1> DEFINE c == p.clerk
           x == pages[c]
<1>1. /\ c \in Clerks /\ DOMAIN pages = Clerks /\ PageOK(x) /\ Shows(x)
      /\ \A q \in posts \ {p} : q.clerk # c
  BY AwaitedIs
<1>2. /\ DOMAIN pages' = Clerks /\ \A d \in Clerks \ {c} : pages'[d] = pages[d]
      /\ pages'[c] = [x EXCEPT !.plan = p.answer, !.busy = FALSE] /\ posts' = posts \ {p}
  BY <1>1 DEF I!Planned
<1>3. pages'[c] = [file |-> x.file, busy |-> FALSE, at |-> x.at, progress |-> x.progress,
                   said |-> x.said, plan |-> p.answer, result |-> x.result]
  <2> HIDE DEF x
  <2> QED BY <1>1, <1>2 DEF PageOK
<1>4. PageOK(pages'[c]) /\ Shows(pages'[c])
  BY <1>1, <1>3, PageBecomes
<1> HIDE DEF c, x
<1>5. Turn(c, {})
  BY <1>1, <1>2, <1>4 DEF Turn
<1> QED BY <1>1, <1>5, PageStep

\* What became of an application arrives.
LEMMA AppliedStep ==
    ASSUME ImportInv, NEW p \in posts, p.clerk # Nobody, p.served, p.op = "apply", I!Applied(p),
           UNCHANGED I!database
    PROVE  ImportInv'
<1> DEFINE c == p.clerk
           x == pages[c]
           n == I!Request(c, "plan", NoFile, 0, NoFile)
           got == [linked |-> p.answer.linked, reviewed |-> p.checksum.records]
<1>1. /\ c \in Clerks /\ DOMAIN pages = Clerks /\ PageOK(x) /\ Shows(x) /\ x.busy /\ Told(p)
      /\ \A q \in posts \ {p} : q.clerk # c
  BY AwaitedIs
<1>2. /\ pages' = IF p.answer.linked = -1 THEN pages ELSE [pages EXCEPT ![c].result = got]
      /\ posts' = (posts \ {p}) \cup {n}
  BY DEF I!Applied
<1>3. /\ DOMAIN pages' = Clerks /\ \A d \in Clerks \ {c} : pages'[d] = pages[d]
      /\ \/ pages'[c] = x
         \/ p.answer.linked # -1 /\ pages'[c] = [x EXCEPT !.result = got]
  BY <1>1, <1>2
<1>4. PageOK(pages'[c]) /\ Shows(pages'[c]) /\ pages'[c].busy
  <2>1. CASE pages'[c] = x
    BY <1>1, <2>1
  <2>2. CASE p.answer.linked # -1 /\ pages'[c] = [x EXCEPT !.result = got]
    <3> HIDE DEF x, got
    <3>1. pages'[c] = [file |-> x.file, busy |-> x.busy, at |-> x.at, progress |-> x.progress,
                       said |-> x.said, plan |-> x.plan, result |-> got]
      BY <1>1, <2>2 DEF PageOK
    <3>2. AllLinked(got.linked, got.reviewed)
      BY <1>1, <2>2 DEF Told, got
    <3> QED BY <1>1, <3>1, <3>2 DEF PageOK, Shows
  <2> QED BY <1>3, <2>1, <2>2
<1>5. PostOK(n) /\ n.clerk = c /\ ~n.served /\ n.op = "plan"
  BY <1>1, RequestIs
<1> HIDE DEF c, x, n, got
<1>6. Turn(c, {n})
  BY <1>1, <1>2, <1>3, <1>4, <1>5 DEF Turn
<1> QED BY <1>1, <1>6, PageStep

\* The summary of an import arrives: its next chunk is sent, or the page is done.
LEMMA ProgressStep ==
    ASSUME ImportInv, NEW p \in posts, p.clerk # Nobody, p.served, p.op \in {"prepare", "chunk"},
           I!Progress(p), UNCHANGED I!database
    PROVE  ImportInv'
<1> DEFINE c == p.clerk
           x == pages[c]
           left == {o \in I!Offsets(p.file) \ p.answer.offsets : o >= x.at}
           next == I!Min(left)
           n == I!Request(c, "chunk", p.file, next, NoFile)
<1>1. /\ c \in Clerks /\ DOMAIN pages = Clerks /\ PageOK(x) /\ Shows(x) /\ x.busy /\ Told(p)
      /\ \A q \in posts \ {p} : q.clerk # c
      /\ PostOK(p) /\ x.file = p.file
  BY AwaitedIs
<1>2. p.file \in DOMAIN Files
  BY <1>1 DEF PostOK
<1>3. CASE left # {}
  <2>1. /\ DOMAIN pages' = Clerks /\ \A d \in Clerks \ {c} : pages'[d] = pages[d]
        /\ pages'[c] = [x EXCEPT !.progress = p.answer, !.at = next + ChunkSize]
        /\ posts' = (posts \ {p}) \cup {n}
    BY <1>1, <1>3 DEF I!Progress
  <2>2. next \in I!Offsets(p.file)
    <3>1. left \in SUBSET Nat
      BY <1>2, ChunkIs
    <3>2. IsFiniteSet(left)
      <4>1. I!Offsets(p.file) \subseteq I!Offsets(p.file)
        OBVIOUS
      <4>2. IsFiniteSet(I!Offsets(p.file))
        BY <1>2, <4>1, ChunksAddUp
      <4> QED BY <4>2, FS_Subset
    <3> HIDE DEF left
    <3>3. next \in left
      BY <1>3, <3>1, <3>2, LeastOne
    <3> QED BY <3>3 DEF left
  <2> HIDE DEF x, left, next
  <2>3. pages'[c] = [file |-> x.file, busy |-> x.busy, at |-> next + ChunkSize,
                     progress |-> p.answer, said |-> x.said, plan |-> x.plan, result |-> x.result]
    BY <1>1, <2>1 DEF PageOK
  <2>4. PageOK(pages'[c]) /\ Shows(pages'[c]) /\ pages'[c].busy /\ pages'[c].file = p.file
    BY <1>1, <2>3, PageBecomes
  <2>5. PostOK(n) /\ n.clerk = c /\ ~n.served /\ n.file = p.file
    BY <1>1, <1>2, <2>2, RequestIs
  <2> HIDE DEF c, n
  <2>6. Turn(c, {n})
    BY <1>1, <2>1, <2>4, <2>5 DEF Turn
  <2> QED BY <1>1, <2>6, PageStep
<1>4. CASE left = {}
  <2>1. /\ DOMAIN pages' = Clerks /\ \A d \in Clerks \ {c} : pages'[d] = pages[d]
        /\ pages'[c] = [x EXCEPT !.progress = p.answer, !.busy = FALSE, !.said = p.answer.completed]
        /\ posts' = posts \ {p}
    BY <1>1, <1>4 DEF I!Progress
  <2> HIDE DEF x, left, next
  <2>2. pages'[c] = [file |-> x.file, busy |-> FALSE, at |-> x.at, progress |-> p.answer,
                     said |-> p.answer.completed, plan |-> x.plan, result |-> x.result]
    BY <1>1, <2>1 DEF PageOK
  <2>3. p.answer.completed => Whole(p.file)
    BY <1>1 DEF Told
  <2>4. PageOK(pages'[c]) /\ Shows(pages'[c])
    BY <1>1, <1>2, <2>2, <2>3 DEF PageOK, Shows
  <2> HIDE DEF c, n
  <2>5. Turn(c, {})
    BY <1>1, <2>1, <2>4 DEF Turn
  <2> QED BY <1>1, <2>5, PageStep
<1> QED BY <1>3, <1>4

\* What is given up is the clerk's no longer.
LEMMA GivenUpIs ==
    ASSUME ImportInv, NEW p \in posts, p.clerk # Nobody, NEW q \in I!GivenUp(p)
    PROVE  \/ q \in posts /\ q.clerk # p.clerk
           \/ PostOK(q) /\ q.clerk = Nobody /\ ~q.served
<1>1. PostOK(p) /\ \A r \in posts \ {p} : r.clerk # p.clerk
  BY AwaitedIs
<1>2. ASSUME NEW k, PostOK(k), ~k.served, NEW r, r = [k EXCEPT !.clerk = Nobody]
      PROVE  PostOK(r) /\ r.clerk = Nobody /\ ~r.served
  <2>1. r = [clerk |-> Nobody, op |-> k.op, file |-> k.file, offset |-> k.offset,
             checksum |-> k.checksum, served |-> k.served, answer |-> k.answer]
    BY <1>2 DEF PostOK
  <2> QED BY <1>2, <2>1 DEF PostOK
<1>3. q \in posts \ {p} \/ (~p.served /\ q = [p EXCEPT !.clerk = Nobody])
  BY DEF I!GivenUp
<1> QED BY <1>1, <1>2, <1>3

\* The page is left while its request is on its way.
LEMMA LeaveStep ==
    ASSUME ImportInv, NEW p \in posts, I!Leave(p)
    PROVE  ImportInv'
<1> DEFINE c == p.clerk
<1>1. c # Nobody
  BY DEF I!Leave
<1>2. c \in Clerks /\ DOMAIN pages = Clerks
  BY <1>1, AwaitedIs
<1>3. /\ DOMAIN pages' = Clerks /\ \A d \in Clerks \ {c} : pages'[d] = pages[d]
      /\ pages'[c] = I!Fresh /\ posts' = I!GivenUp(p) /\ UNCHANGED I!database
  BY <1>2 DEF I!Leave
<1>4. PageOK(pages'[c]) /\ Shows(pages'[c])
  BY <1>3, FreshIs
<1>5. \A q \in posts' : \/ q \in posts /\ q.clerk # c
                        \/ PostOK(q) /\ q.clerk = Nobody /\ ~q.served
  BY <1>1, <1>3, GivenUpIs
<1> HIDE DEF c
<1>6. Turn(c, {})
  BY <1>3, <1>4, <1>5 DEF Turn
<1> QED BY <1>2, <1>6, PageStep

\* A request, or its answer, is lost.
LEMMA LoseStep ==
    ASSUME ImportInv, NEW p \in posts, I!Lose(p)
    PROVE  ImportInv'
<1> DEFINE c == p.clerk
           x == pages[c]
           n == I!Request(c, "plan", NoFile, 0, NoFile)
           N == IF p.op = "apply" THEN {n} ELSE {}
           apply == p.op = "apply"
           plan == IF p.op = "plan" THEN I!NoPlan ELSE x.plan
<1>1. c # Nobody
  BY DEF I!Lose
<1>2. c \in Clerks /\ DOMAIN pages = Clerks /\ PageOK(x) /\ Shows(x)
  BY <1>1, AwaitedIs
<1>3. /\ DOMAIN pages' = Clerks /\ \A d \in Clerks \ {c} : pages'[d] = pages[d]
      /\ pages'[c] = [x EXCEPT !.busy = apply, !.plan = plan]
      /\ posts' = I!GivenUp(p) \cup N /\ UNCHANGED I!database
  BY <1>2 DEF I!Lose
<1>4. pages'[c] = [file |-> x.file, busy |-> apply, at |-> x.at, progress |-> x.progress,
                   said |-> x.said, plan |-> plan, result |-> x.result]
  <2> HIDE DEF x, plan, apply
  <2> QED BY <1>2, <1>3 DEF PageOK
<1>5. PageOK(pages'[c]) /\ Shows(pages'[c]) /\ pages'[c].busy = apply
  <2> HIDE DEF x, plan, apply
  <2> QED BY <1>2, <1>4, PageBecomes
<1>6. PostOK(n) /\ n.clerk = c /\ ~n.served /\ n.op = "plan"
  BY <1>2, RequestIs
<1>7. \A q \in posts' : \/ q \in posts /\ q.clerk # c
                        \/ PostOK(q) /\ q.clerk = Nobody /\ ~q.served
                        \/ q \in N
  BY <1>1, <1>3, GivenUpIs
<1> HIDE DEF n
<1>8. /\ \A m \in N : /\ PostOK(m) /\ m.clerk = c /\ ~m.served /\ pages'[c].busy
                      /\ m.op \in {"prepare", "chunk"} => m.file = pages'[c].file
      /\ \A m, k \in N : m = k
  BY <1>5, <1>6
<1> HIDE DEF c, x, N, plan, apply
<1>9. Turn(c, N)
  BY <1>3, <1>5, <1>7, <1>8 DEF Turn
<1> QED BY <1>2, <1>9, PageStep

\* An answer arrives.
LEMMA ReceiveStep ==
    ASSUME ImportInv, NEW p \in posts, I!Receive(p)
    PROVE  ImportInv'
<1>1. p.served /\ UNCHANGED I!database /\ PostOK(p)
  BY DEF I!Receive, ImportInv, TrafficInv, ImportPagesOK
<1>2. CASE p.clerk = Nobody
  BY <1>2, NobodyReceives
<1>3. CASE p.clerk # Nobody
  <2>1. p.op \in {"prepare", "chunk", "plan", "apply"}
    BY <1>1 DEF PostOK
  <2>2. CASE p.op = "apply"
    BY <1>1, <1>3, <2>2, AppliedStep DEF I!Receive
  <2>3. CASE p.op = "plan"
    BY <1>1, <1>3, <2>3, PlannedStep DEF I!Receive
  <2>4. CASE p.op \in {"prepare", "chunk"}
    BY <1>1, <1>3, <2>4, ProgressStep DEF I!Receive
  <2> QED BY <2>1, <2>2, <2>3, <2>4
<1> QED BY <1>2, <1>3

-----------------------------------------------------------------------------
(* The server *)

\* Chunks that were taken stay taken, and what was linked stays linked.
Kept ==
    /\ \A f \in DOMAIN Files : Whole(f) => (Whole(f))'
    /\ \A r \in Records : links[r] # 0 => links'[r] # 0

\* Then what is said stays true.
LEMMA SaidStaysTrue ==
    ASSUME Kept
    PROVE  /\ \A n, S : AllLinked(n, S) => (AllLinked(n, S))'
           /\ \A x : Shows(x) => (Shows(x))'
           /\ \A p : PostOK(p) /\ Told(p) => (Told(p))'
<1>1. \A n, S : AllLinked(n, S) => (AllLinked(n, S))'
  BY DEF Kept, AllLinked
<1>2. \A x : Shows(x) => (Shows(x))'
  BY <1>1 DEF Kept, Shows
<1>3. \A p : PostOK(p) /\ Told(p) => (Told(p))'
  BY <1>1 DEF Kept, Told, PostOK
<1> QED BY <1>1, <1>2, <1>3

\* A request is served.
LEMMA ServedTraffic ==
    ASSUME ImportInv, Kept, NEW p \in posts, NEW answer, pages' = pages,
           posts' = (posts \ {p}) \cup {[p EXCEPT !.served = TRUE, !.answer = answer]},
           p.op \in {"prepare", "chunk"} /\ answer.completed => (Whole(p.file))',
           p.op = "apply" /\ answer.linked # -1 =>
              /\ p.checksum.records \subseteq Records
              /\ answer.linked = I!Cardinality(p.checksum.records)
              /\ \A r \in p.checksum.records : links'[r] # 0
    PROVE  TrafficInv'
<1> DEFINE q == [p EXCEPT !.served = TRUE, !.answer = answer]
<1>1. PostOK(p)
  BY DEF ImportInv, TrafficInv, ImportPagesOK
<1>2. q = [clerk |-> p.clerk, op |-> p.op, file |-> p.file, offset |-> p.offset,
           checksum |-> p.checksum, served |-> TRUE, answer |-> answer]
  <2>1. ASSUME NEW k, PostOK(k), NEW z, z = [k EXCEPT !.served = TRUE, !.answer = answer]
        PROVE  z = [clerk |-> k.clerk, op |-> k.op, file |-> k.file, offset |-> k.offset,
                    checksum |-> k.checksum, served |-> TRUE, answer |-> answer]
    BY <2>1 DEF PostOK
  <2> QED BY <1>1, <2>1
<1>3. posts' = (posts \ {p}) \cup {q}
  OBVIOUS
<1> HIDE DEF q
<1>4. /\ PostOK(q) /\ q.clerk = p.clerk /\ q.op = p.op /\ q.file = p.file /\ q.answer = answer
      /\ q.checksum = p.checksum
  BY <1>1, <1>2 DEF PostOK
<1>5. (Told(q))'
  <2>1. (Told(q))' <=> /\ q.op \in {"prepare", "chunk"} /\ q.answer.completed => (Whole(q.file))'
                       /\ q.op = "apply" /\ q.answer.linked # -1 =>
                             /\ q.checksum.records \subseteq Records
                             /\ q.answer.linked = I!Cardinality(q.checksum.records)
                             /\ \A r \in q.checksum.records : links'[r] # 0
    BY DEF Told, AllLinked
  <2> QED BY <1>4, <2>1
<1>6. ImportPagesOK'
  BY <1>3, <1>4 DEF ImportInv, TrafficInv, ImportPagesOK, PageOK, PostOK
<1>7. OnePostEach'
  <2>1. ASSUME NEW a \in posts', NEW b \in posts', a.clerk = b.clerk, a.clerk # Nobody PROVE a = b
    BY <1>3, <1>4, <2>1 DEF ImportInv, TrafficInv, OnePostEach
  <2>2. ASSUME NEW a \in posts', a.clerk # Nobody
        PROVE  /\ pages[a.clerk].busy
               /\ a.op \in {"prepare", "chunk"} => pages[a.clerk].file = a.file
    BY <1>3, <1>4, <2>2 DEF ImportInv, TrafficInv, OnePostEach
  <2> QED BY <2>1, <2>2 DEF OnePostEach
<1>8. AnswersAreTrue'
  <2>1. ASSUME NEW a \in posts', a.served PROVE (Told(a))'
    <3>1. CASE a = q
      BY <1>5, <3>1
    <3>2. CASE a \in posts
      BY <2>1, <3>2, SaidStaysTrue DEF ImportInv, TrafficInv, AnswersAreTrue, ImportPagesOK
    <3> QED BY <1>3, <3>1, <3>2
  <2>2. \A c \in Clerks : (Shows(pages[c]))'
    <3>1. \A c \in Clerks : Shows(pages[c])
      BY DEF ImportInv, TrafficInv, AnswersAreTrue
    <3>2. \A c \in Clerks : (Shows(pages[c]))' <=>
             /\ pages[c].said => pages[c].file \in DOMAIN Files /\ (Whole(pages[c].file))'
             /\ pages[c].result.linked # -1 =>
                   (AllLinked(pages[c].result.linked, pages[c].result.reviewed))'
      BY DEF Shows, Whole, AllLinked
    <3> QED BY <3>1, <3>2, SaidStaysTrue DEF Kept, Shows
  <2> QED BY <2>1, <2>2 DEF AnswersAreTrue
<1> QED BY <1>6, <1>7, <1>8 DEF TrafficInv

\* Something is edited elsewhere.
LEMMA EditedTraffic ==
    ASSUME ImportInv, UNCHANGED <<pages, posts, runs, links>>
    PROVE  TrafficInv'
BY DEF ImportInv, TrafficInv, ImportPagesOK, OnePostEach, AnswersAreTrue, Told, Shows, Whole,
   AllLinked

\* A summary that is complete is of a run with all its chunks.
LEMMA SummaryIsTrue ==
    ASSUME DatabaseInv, NEW f \in DOMAIN Files, I!Summary(f, runs[f]).completed
    PROVE  Whole(f)
<1>1. runs[f].created + runs[f].skipped = Len(Files[f])
  BY DEF I!Summary
<1>2. SumFunction([o \in runs[f].offsets |-> Len(I!Chunk(f, o))]) = Len(Files[f])
  BY <1>1 DEF DatabaseInv, Counted
<1>3. runs[f].offsets \in SUBSET I!Offsets(f)
  BY DEF DatabaseInv, ImportTypeOK
<1> QED BY <1>2, <1>3, CountedIsWhole DEF Whole

\* An import is prepared.
LEMMA PrepareStep ==
    ASSUME ImportInv, NEW p \in posts, p.op = "prepare", I!Prepare(p), pages' = pages
    PROVE  ImportInv'
<1> DEFINE f == p.file
<1>1. f \in DOMAIN Files
  BY DEF ImportInv, TrafficInv, ImportPagesOK, PostOK
<1>2. /\ runs' = [runs EXCEPT ![f].prepared = TRUE]
      /\ rows' = rows /\ deleted' = deleted /\ staff' = staff /\ hired' = hired /\ links' = links
      /\ posts' = (posts \ {p}) \cup
            {[p EXCEPT !.served = TRUE, !.answer = I!Summary(f, runs[f])]}
  BY DEF I!Prepare
<1>3. runs \in [DOMAIN Files -> RunRows] /\ ImportTypeOK
  BY DEF ImportInv, DatabaseInv, ImportTypeOK
<1>4. runs'[f] = [runs[f] EXCEPT !.prepared = TRUE]
  BY <1>1, <1>2, <1>3
<1>5. /\ runs' \in [DOMAIN Files -> RunRows]
      /\ \A g \in DOMAIN Files : /\ runs'[g].offsets = runs[g].offsets
                                 /\ runs'[g].created = runs[g].created
                                 /\ runs'[g].skipped = runs[g].skipped
  BY <1>1, <1>2, <1>3 DEF RunRows
<1> HIDE DEF f
<1>6. DatabaseInv'
  <2>1. ImportTypeOK'
    BY <1>2, <1>3, <1>5 DEF ImportTypeOK
  <2>2. TakenIsThere' /\ LinkedAsKeyed'
    BY <1>2, <1>5 DEF ImportInv, DatabaseInv, TakenIsThere, LinkedAsKeyed
  <2>3. Counted'
    <3>1. /\ [g \in DOMAIN Files |-> runs'[g].created] = [g \in DOMAIN Files |-> runs[g].created]
          /\ [r \in Records |-> rows'[r] + deleted'[r]] = [r \in Records |-> rows[r] + deleted[r]]
      BY <1>2, <1>5
    <3>2. ASSUME NEW g \in DOMAIN Files
          PROVE  runs'[g].created + runs'[g].skipped =
                     SumFunction([o \in runs'[g].offsets |-> Len(I!Chunk(g, o))])
      <4>1. runs[g].created + runs[g].skipped =
                SumFunction([o \in runs[g].offsets |-> Len(I!Chunk(g, o))])
        BY DEF ImportInv, DatabaseInv, Counted
      <4> QED BY <1>5, <4>1
    <3>3. SumFunction([g \in DOMAIN Files |-> runs[g].created]) =
             SumFunction([r \in Records |-> rows[r] + deleted[r]])
      BY DEF ImportInv, DatabaseInv, Counted
    <3> QED BY <3>1, <3>2, <3>3 DEF Counted
  <2> QED BY <2>1, <2>2, <2>3 DEF DatabaseInv
<1>7. Kept
  BY <1>2, <1>5 DEF Kept, Whole
<1>8. I!Summary(f, runs[f]).completed => (Whole(f))'
  BY <1>1, <1>7, SummaryIsTrue DEF ImportInv, Kept
<1>9. TrafficInv'
  BY <1>2, <1>7, <1>8, ServedTraffic DEF f
<1> QED BY <1>6, <1>9 DEF ImportInv

\* One chunk more adds its length.
LEMMA RunGrows ==
    ASSUME NEW f \in DOMAIN Files, NEW T \in SUBSET I!Offsets(f), NEW o \in I!Offsets(f), o \notin T
    PROVE  SumFunction([k \in T \cup {o} |-> Len(I!Chunk(f, k))]) =
               SumFunction([k \in T |-> Len(I!Chunk(f, k))]) + Len(I!Chunk(f, o))
<1> DEFINE g == [k \in T |-> Len(I!Chunk(f, k))]
           h == [k \in T \cup {o} |-> Len(I!Chunk(f, k))]
<1>1. IsFiniteSet(T) /\ DOMAIN g = T /\ DOMAIN h = T \cup {o} /\ h[o] = Len(I!Chunk(f, o))
  BY ChunksAddUp
<1>2. \A k \in I!Offsets(f) : Len(I!Chunk(f, k)) \in Int
  <2> SUFFICES ASSUME NEW k \in I!Offsets(f) PROVE Len(I!Chunk(f, k)) \in Int
    OBVIOUS
  <2>1. ChunkEnd(f, k) \in Int /\ k \in Int
    BY ChunkIs
  <2> QED BY <2>1, ChunkIs
<1>3. (\A k \in T : g[k] \in Int /\ h[k] = g[k]) /\ h[o] \in Int
  BY <1>2
<1> HIDE DEF g, h
<1>4. SumFunction(h) = SumFunction(g) + h[o]
  <2> DEFINE S == T
  <2>1. /\ IsFiniteSet(S) /\ o \notin S /\ DOMAIN g = S /\ DOMAIN h = S \cup {o}
        /\ \A y \in S : g[y] \in Int /\ h[y] = g[y]
        /\ h[o] \in Int
    BY <1>1, <1>3
  <2> HIDE DEF S
  <2> QED BY <2>1, SumOfOneMore
<1> QED BY <1>1, <1>4 DEF g, h

\* When a chunk is taken that was not, the sums of its run and of the records grow alike.
LEMMA TakenCounts ==
    ASSUME DatabaseInv, NEW f \in DOMAIN Files, NEW o \in I!Offsets(f), o \notin runs[f].offsets,
           NEW new, new = {r \in I!InChunk(f, o) : rows[r] = 0},
           DOMAIN runs' = DOMAIN Files, \A g \in DOMAIN Files \ {f} : runs'[g] = runs[g],
           runs'[f].offsets = runs[f].offsets \cup {o},
           runs'[f].created = runs[f].created + Cardinality(new),
           runs'[f].skipped = runs[f].skipped + Len(I!Chunk(f, o)) - Cardinality(new),
           rows' = [r \in Records |-> IF r \in new THEN rows[r] + 1 ELSE rows[r]],
           deleted' = deleted
    PROVE  Counted'
<1>1. /\ rows \in [Records -> {0, 1}] /\ deleted \in [Records -> Nat]
      /\ runs \in [DOMAIN Files -> RunRows] /\ runs[f].offsets \in SUBSET I!Offsets(f)
  BY DEF DatabaseInv, ImportTypeOK
<1>2. \A g \in DOMAIN Files : runs[g].created \in Int /\ runs[g].skipped \in Int
  BY <1>1 DEF RunRows
<1>3. new \subseteq Records /\ IsFiniteSet(new) /\ Len(I!Chunk(f, o)) \in Int
  <2>1. new \subseteq I!InChunk(f, o)
    OBVIOUS
  <2>2. ChunkEnd(f, o) \in Int /\ o \in Int
    BY ChunkIs
  <2> QED BY <2>1, <2>2, ChunkIs, FS_Subset
<1>4. Cardinality(new) \in Nat
  BY <1>3, FS_CardinalityType
<1>5. runs'[f].created + runs'[f].skipped =
          SumFunction([k \in runs'[f].offsets |-> Len(I!Chunk(f, k))])
  <2> DEFINE T == runs[f].offsets
             old == SumFunction([k \in T |-> Len(I!Chunk(f, k))])
             all == SumFunction([k \in T \cup {o} |-> Len(I!Chunk(f, k))])
  <2>1. all = old + Len(I!Chunk(f, o))
    BY <1>1, RunGrows
  <2>2. old = runs[f].created + runs[f].skipped
    BY DEF DatabaseInv, Counted
  <2>3. all = SumFunction([k \in runs'[f].offsets |-> Len(I!Chunk(f, k))])
    OBVIOUS
  <2> HIDE DEF all, old
  <2>4. all = runs'[f].created + runs'[f].skipped
    BY <1>2, <1>3, <1>4, <2>1, <2>2
  <2> QED BY <2>3, <2>4
<1>6. ASSUME NEW g \in DOMAIN Files \ {f}
      PROVE  runs'[g].created + runs'[g].skipped =
                 SumFunction([k \in runs'[g].offsets |-> Len(I!Chunk(g, k))])
  <2>1. runs'[g] = runs[g]
    OBVIOUS
  <2>2. runs[g].created + runs[g].skipped =
            SumFunction([k \in runs[g].offsets |-> Len(I!Chunk(g, k))])
    BY DEF DatabaseInv, Counted
  <2> QED BY <2>1, <2>2
<1>7. SumFunction([g \in DOMAIN Files |-> runs'[g].created]) =
          SumFunction([r \in Records |-> rows'[r] + deleted'[r]])
  <2> DEFINE a == [g \in DOMAIN Files |-> runs[g].created]
             b == [g \in DOMAIN Files |-> runs'[g].created]
             u == [r \in Records |-> rows[r] + deleted[r]]
             v == [r \in Records |-> rows'[r] + deleted'[r]]
  <2>1. /\ DOMAIN a = DOMAIN Files /\ DOMAIN b = DOMAIN Files
        /\ \A g \in DOMAIN Files : a[g] \in Int /\ b[g] \in Int
        /\ \A g \in DOMAIN Files \ {f} : b[g] = a[g]
        /\ b[f] - a[f] = Cardinality(new)
    <3>1. /\ DOMAIN a = DOMAIN Files /\ DOMAIN b = DOMAIN Files
          /\ \A g \in DOMAIN Files \ {f} : b[g] = a[g]
      OBVIOUS
    <3>2. a[f] \in Int /\ b[f] = a[f] + Cardinality(new)
      BY <1>2
    <3>3. \A g \in DOMAIN Files : a[g] \in Int
      BY <1>2
    <3> HIDE DEF a, b
    <3> QED BY <1>4, <3>1, <3>2, <3>3
  <2>2. /\ DOMAIN u = Records /\ DOMAIN v = Records
        /\ \A r \in Records : u[r] \in Int
        /\ \A r \in Records : v[r] = IF r \in new THEN u[r] + 1 ELSE u[r]
    <3>1. ASSUME NEW r \in Records
          PROVE  u[r] \in Int /\ v[r] = IF r \in new THEN u[r] + 1 ELSE u[r]
      <4>1. rows[r] \in Int /\ deleted[r] \in Int /\ deleted'[r] = deleted[r]
        BY <1>1
      <4>2. rows'[r] = IF r \in new THEN rows[r] + 1 ELSE rows[r]
        OBVIOUS
      <4>3. u[r] = rows[r] + deleted[r] /\ v[r] = rows'[r] + deleted'[r]
        OBVIOUS
      <4> HIDE DEF u, v
      <4> QED BY <4>1, <4>2, <4>3
    <3> QED BY <3>1
  <2>3. SumFunction(a) = SumFunction(u)
    BY DEF DatabaseInv, Counted
  <2>4. IsFiniteSet(DOMAIN Files) /\ IsFiniteSet(Records)
    BY RequestsAssumption
  <2> HIDE DEF a, b, u, v
  <2>5. SumFunction(b) = SumFunction(a) + (b[f] - a[f])
    BY <2>1, <2>4, SumOfOneChanged
  <2>6. SumFunction(v) = SumFunction(u) + Cardinality(new)
    BY <1>3, <2>2, <2>4, SumOfRaised
  <2>7. SumFunction(b) = SumFunction(v)
    BY <2>1, <2>3, <2>5, <2>6
  <2> QED BY <2>7 DEF b, v
<1> QED BY <1>5, <1>6, <1>7 DEF Counted

\* A chunk is taken that was not.
LEMMA TakenStep ==
    ASSUME ImportInv, NEW f \in DOMAIN Files, NEW o \in I!Offsets(f), o \notin runs[f].offsets,
           NEW new, new = {r \in I!InChunk(f, o) : rows[r] = 0},
           runs' \in [DOMAIN Files -> RunRows], \A g \in DOMAIN Files \ {f} : runs'[g] = runs[g],
           runs'[f].offsets = runs[f].offsets \cup {o},
           runs'[f].created = runs[f].created + Cardinality(new),
           runs'[f].skipped = runs[f].skipped + Len(I!Chunk(f, o)) - Cardinality(new),
           rows' = [r \in Records |-> IF r \in new THEN rows[r] + 1 ELSE rows[r]],
           UNCHANGED <<deleted, staff, hired, links>>
    PROVE  DatabaseInv' /\ Kept
<1>1. /\ rows \in [Records -> {0, 1}] /\ deleted \in [Records -> Nat]
      /\ links \in [Records -> Nat] /\ staff \in [Keys -> Nat] /\ hired \in Nat
      /\ runs \in [DOMAIN Files -> RunRows]
      /\ \A g \in DOMAIN Files : runs[g].offsets \subseteq I!Offsets(g)
  BY DEF ImportInv, DatabaseInv, ImportTypeOK
<1>2. /\ rows' \in [Records -> {0, 1}]
      /\ \A r \in Records : rows'[r] >= rows[r] /\ (r \in I!InChunk(f, o) => rows'[r] = 1)
  <2> SUFFICES ASSUME NEW r \in Records
               PROVE  /\ rows'[r] \in {0, 1} /\ rows'[r] >= rows[r]
                      /\ r \in I!InChunk(f, o) => rows'[r] = 1
    OBVIOUS
  <2>1. rows[r] \in {0, 1} /\ rows'[r] = IF r \in new THEN rows[r] + 1 ELSE rows[r]
    BY <1>1
  <2>2. r \in new <=> r \in I!InChunk(f, o) /\ rows[r] = 0
    OBVIOUS
  <2> QED BY <2>1, <2>2
<1>3. UNCHANGED <<deleted, staff, hired, links>>
  OBVIOUS
<1>4. ImportTypeOK'
  <2>1. \A g \in DOMAIN Files : runs'[g].offsets \subseteq I!Offsets(g)
    BY <1>1
  <2> QED BY <1>1, <1>2, <1>3, <2>1 DEF ImportTypeOK
<1>5. TakenIsThere'
  <2>1. ASSUME NEW g \in DOMAIN Files, NEW q \in runs'[g].offsets, NEW r \in I!InChunk(g, q)
        PROVE  rows'[r] + deleted[r] > 0
    <3>1. q \in I!Offsets(g)
      BY <1>1
    <3>2. r \in Records
      BY <3>1, ChunkIs
    <3>3. rows[r] \in Int /\ rows'[r] \in Int /\ deleted[r] \in Nat /\ rows'[r] >= rows[r]
      BY <1>1, <1>2, <3>2
    <3>4. CASE q \in runs[g].offsets
      <4>1. rows[r] + deleted[r] > 0
        BY <3>4 DEF ImportInv, DatabaseInv, TakenIsThere
      <4> QED BY <3>3, <4>1
    <3>5. CASE g = f /\ q = o
      <4>1. rows'[r] = 1
        BY <1>2, <3>2, <3>5
      <4> QED BY <3>3, <4>1
    <3> QED BY <3>4, <3>5
  <2> QED BY <1>3, <2>1 DEF TakenIsThere
<1>6. LinkedAsKeyed'
  BY <1>3 DEF ImportInv, DatabaseInv, LinkedAsKeyed
<1>7. Counted'
  <2>1. DOMAIN runs' = DOMAIN Files
    OBVIOUS
  <2> QED BY <2>1, TakenCounts DEF ImportInv
<1>8. Kept
  BY <1>1, <1>3 DEF Kept, Whole
<1> QED BY <1>4, <1>5, <1>6, <1>7, <1>8 DEF DatabaseInv

\* A chunk is sent, once more perhaps.
LEMMA TakeChunkStep ==
    ASSUME ImportInv, NEW p \in posts, p.op = "chunk", I!TakeChunk(p), pages' = pages
    PROVE  ImportInv'
<1> DEFINE f == p.file
           o == p.offset
           run == runs[f]
           new == {r \in I!InChunk(f, o) : rows[r] = 0}
           taken == [run EXCEPT !.offsets = run.offsets \cup {o},
                                !.created = run.created + Cardinality(new),
                                !.skipped = run.skipped + Len(I!Chunk(f, o)) - Cardinality(new)]
<1>1. f \in DOMAIN Files /\ o \in I!Offsets(f)
  BY DEF ImportInv, TrafficInv, ImportPagesOK, PostOK
<1>2. runs \in [DOMAIN Files -> RunRows]
  BY DEF ImportInv, DatabaseInv, ImportTypeOK
<1>3. /\ runs' = [runs EXCEPT ![f] = IF o \in run.offsets THEN run ELSE taken]
      /\ rows' = IF o \in run.offsets THEN rows
                 ELSE [r \in Records |-> IF r \in new THEN rows[r] + 1 ELSE rows[r]]
      /\ UNCHANGED <<deleted, staff, hired, links>>
  BY ImportsCount DEF I!TakeChunk, I!AlreadyProcessed
<1>4. posts' = (posts \ {p}) \cup
        {[p EXCEPT !.served = TRUE,
                   !.answer = I!Summary(f, IF o \in run.offsets THEN run ELSE taken)]}
  BY ImportsCount DEF I!TakeChunk, I!AlreadyProcessed
<1>5. DatabaseInv' /\ Kept
  <2>1. CASE o \in run.offsets
    <3>1. runs' = runs /\ rows' = rows
      BY <1>1, <1>2, <1>3, <2>1
    <3> HIDE DEF f, o, run, new, taken
    <3>2. DatabaseInv'
      BY <1>3, <3>1 DEF ImportInv, DatabaseInv, ImportTypeOK, TakenIsThere, LinkedAsKeyed, Counted
    <3> QED BY <1>3, <3>1, <3>2 DEF Kept, Whole
  <2>2. CASE o \notin run.offsets
    <3>1. /\ runs' = [runs EXCEPT ![f] = taken]
          /\ rows' = [r \in Records |-> IF r \in new THEN rows[r] + 1 ELSE rows[r]]
      BY <1>3, <2>2
    <3>2. /\ run.offsets \cup {o} \in SUBSET Nat /\ run.created + Cardinality(new) \in Int
          /\ run.skipped + Len(I!Chunk(f, o)) - Cardinality(new) \in Int
      <4>1. run \in RunRows
        BY <1>1, <1>2
      <4>2. new \subseteq I!InChunk(f, o)
        OBVIOUS
      <4>3. Cardinality(new) \in Int
        BY <1>1, <4>2, ChunkIs, FS_Subset, FS_CardinalityType
      <4>4. Len(I!Chunk(f, o)) \in Int /\ o \in Nat
        <5>1. ChunkEnd(f, o) \in Int /\ o \in Nat
          BY <1>1, ChunkIs
        <5> QED BY <1>1, <5>1, ChunkIs
      <4> HIDE DEF f, o, run, new
      <4> QED BY <4>1, <4>3, <4>4 DEF RunRows
    <3>3. /\ runs' \in [DOMAIN Files -> RunRows]
          /\ \A g \in DOMAIN Files \ {f} : runs'[g] = runs[g]
          /\ runs'[f].offsets = run.offsets \cup {o}
          /\ runs'[f].created = run.created + Cardinality(new)
          /\ runs'[f].skipped = run.skipped + Len(I!Chunk(f, o)) - Cardinality(new)
      <4> DEFINE T == run.offsets \cup {o}
                 n == run.created + Cardinality(new)
                 m == run.skipped + Len(I!Chunk(f, o)) - Cardinality(new)
      <4>1. runs' = [runs EXCEPT ![f] =
                        [runs[f] EXCEPT !.offsets = T, !.created = n, !.skipped = m]]
        BY <3>1
      <4>2. T \in SUBSET Nat /\ n \in Int /\ m \in Int
        BY <3>2
      <4> HIDE DEF T, n, m, f
      <4>3. ASSUME NEW x \in RunRows,
                   NEW y, y = [x EXCEPT !.offsets = T, !.created = n, !.skipped = m]
            PROVE  y \in RunRows /\ y.offsets = T /\ y.created = n /\ y.skipped = m
        BY <4>2, <4>3 DEF RunRows
      <4>4. runs[f] \in RunRows
        BY <1>1, <1>2
      <4> DEFINE z == [runs[f] EXCEPT !.offsets = T, !.created = n, !.skipped = m]
      <4>5. z \in RunRows /\ z.offsets = T /\ z.created = n /\ z.skipped = m
        BY <4>3, <4>4
      <4>6. runs' = [runs EXCEPT ![f] = z]
        BY <4>1
      <4> HIDE DEF z
      <4>7. /\ runs' \in [DOMAIN Files -> RunRows]
            /\ \A g \in DOMAIN Files \ {f} : runs'[g] = runs[g]
            /\ runs'[f].offsets = T /\ runs'[f].created = n /\ runs'[f].skipped = m
        BY <1>1, <1>2, <4>5, <4>6
      <4> QED BY <4>7 DEF T, n, m
    <3> HIDE DEF taken, f, o
    <3> QED BY <1>1, <1>3, <2>2, <3>1, <3>3, TakenStep
  <2> QED BY <2>1, <2>2
<1>6. runs'[f] = IF o \in run.offsets THEN run ELSE taken
  <2> HIDE DEF taken
  <2> QED BY <1>1, <1>2, <1>3
<1> DEFINE answer == I!Summary(f, runs'[f])
<1>7. posts' = (posts \ {p}) \cup {[p EXCEPT !.served = TRUE, !.answer = answer]}
  BY <1>4, <1>6
<1>8. answer.completed => (Whole(f))'
  <2>1. SUFFICES ASSUME answer.completed PROVE (Whole(f))'
    OBVIOUS
  <2>2. runs'[f].created + runs'[f].skipped = Len(Files[f])
    BY <2>1 DEF I!Summary
  <2>3. SumFunction([k \in runs'[f].offsets |-> Len(I!Chunk(f, k))]) = Len(Files[f])
    BY <1>1, <1>5, <2>2 DEF DatabaseInv, Counted
  <2>4. runs'[f].offsets \in SUBSET I!Offsets(f)
    BY <1>1, <1>5 DEF DatabaseInv, ImportTypeOK
  <2> HIDE DEF f
  <2>5. runs'[f].offsets = I!Offsets(f)
    BY <1>1, <2>3, <2>4, CountedIsWhole
  <2> QED BY <2>5 DEF Whole, f
<1> HIDE DEF answer
<1>9. TrafficInv'
  BY <1>5, <1>7, <1>8, ServedTraffic
<1> QED BY <1>5, <1>9 DEF ImportInv

\* The links are planned.
LEMMA PlanStep ==
    ASSUME ImportInv, NEW p \in posts, p.op = "plan", I!Plan(p), pages' = pages
    PROVE  ImportInv'
<1>1. /\ posts' = (posts \ {p}) \cup {[p EXCEPT !.served = TRUE, !.answer = I!Reviewed]}
      /\ UNCHANGED <<rows, deleted, runs, staff, hired, named, links>>
  BY DEF I!Plan, I!database
<1>2. DatabaseInv'
  BY <1>1 DEF ImportInv, DatabaseInv, ImportTypeOK, TakenIsThere, LinkedAsKeyed, Counted
<1>3. Kept
  BY <1>1 DEF Kept, Whole
<1>4. TrafficInv'
  BY <1>1, <1>3, ServedTraffic
<1> QED BY <1>2, <1>4 DEF ImportInv

\* New staff get numbers of their own, and nobody else's changes.
LEMMA HiredIs ==
    ASSUME ImportTypeOK, NEW new \in SUBSET Keys,
           hired' = hired + I!Cardinality(new),
           staff' \in {s \in [Keys -> 0 .. hired'] :
                         /\ \A k \in Keys \ new : s[k] = staff[k]
                         /\ {s[k] : k \in new} = (hired + 1) .. hired'}
    PROVE  /\ staff' \in [Keys -> Nat] /\ hired' \in Nat
           /\ \A k \in Keys \ new : staff'[k] = staff[k]
           /\ \A k \in new : staff'[k] # 0
<1>1. hired \in Nat /\ hired' \in Nat
  <2>1. hired \in Nat
    BY DEF ImportTypeOK
  <2>2. Cardinality(new) \in Nat
    BY FS_Subset, FS_CardinalityType, RequestsAssumption
  <2>3. I!Cardinality(new) = Cardinality(new)
    BY ImportsCount
  <2> QED BY <2>1, <2>2, <2>3
<1>2. /\ staff' \in [Keys -> 0 .. hired'] /\ \A k \in Keys \ new : staff'[k] = staff[k]
      /\ {staff'[k] : k \in new} = (hired + 1) .. hired'
  OBVIOUS
<1>3. staff' \in [Keys -> Nat]
  BY <1>1, <1>2
<1>4. ASSUME NEW k \in new PROVE staff'[k] # 0
  <2>1. staff'[k] \in (hired + 1) .. hired'
    BY <1>2
  <2> QED BY <1>1, <2>1
<1> QED BY <1>1, <1>2, <1>3, <1>4

\* The links are applied as they were reviewed, or not at all.
LEMMA ApplyStep ==
    ASSUME ImportInv, NEW p \in posts, p.op = "apply", I!Apply(p), pages' = pages
    PROVE  ImportInv'
<1>1. CASE p.checksum # I!Checksum \/ ~I!Ready
  <2> DEFINE answer == [linked |-> -1]
  <2>1. /\ posts' = (posts \ {p}) \cup {[p EXCEPT !.served = TRUE, !.answer = answer]}
        /\ UNCHANGED <<rows, deleted, runs, staff, hired, named, links>>
    BY <1>1 DEF I!Apply, I!database
  <2>2. DatabaseInv'
    BY <2>1 DEF ImportInv, DatabaseInv, ImportTypeOK, TakenIsThere, LinkedAsKeyed, Counted
  <2>3. Kept
    BY <2>1 DEF Kept, Whole
  <2>4. answer.linked = -1
    OBVIOUS
  <2> HIDE DEF answer
  <2>5. TrafficInv'
    BY <2>1, <2>3, <2>4, ServedTraffic
  <2> QED BY <2>2, <2>5 DEF ImportInv
<1>2. CASE p.checksum = I!Checksum /\ I!Ready
  <2> DEFINE new == {k \in I!Groups : staff[k] = 0}
             linked == {r \in I!History : links'[r] # 0}
             answer == [linked |-> I!Cardinality(linked)]
  <2>1. /\ hired' = hired + I!Cardinality(new)
        /\ staff' \in {s \in [Keys -> 0 .. hired'] :
                         /\ \A k \in Keys \ new : s[k] = staff[k]
                         /\ {s[k] : k \in new} = (hired + 1) .. hired'}
        /\ links' = [r \in Records |-> IF r \in I!History /\ links[r] = 0 THEN staff'[KeyOf[r]]
                                       ELSE links[r]]
        /\ posts' = (posts \ {p}) \cup {[p EXCEPT !.served = TRUE, !.answer = answer]}
        /\ UNCHANGED <<rows, deleted, runs, named>>
    BY <1>2 DEF I!Apply
  <2>2. I!History \subseteq Records /\ \A r \in Records : KeyOf[r] \in Keys
    BY RequestsAssumption DEF I!History
  <2>3. new \subseteq Keys /\ \A r \in I!History : staff[KeyOf[r]] = 0 => KeyOf[r] \in new
    BY <2>2 DEF I!Groups
  <2>4. ImportTypeOK /\ LinkedAsKeyed
    BY DEF ImportInv, DatabaseInv
  <2> HIDE DEF answer
  <2>5. /\ staff' \in [Keys -> Nat] /\ hired' \in Nat
        /\ \A k \in Keys \ new : staff'[k] = staff[k]
        /\ \A k \in new : staff'[k] # 0
    <3> HIDE DEF new
    <3> QED BY <2>1, <2>3, <2>4, HiredIs
  <2>6. \A k \in Keys : staff[k] # 0 => staff'[k] = staff[k]
    <3>1. \A k \in new : staff[k] = 0
      OBVIOUS
    <3> HIDE DEF new
    <3> QED BY <2>5, <3>1
  <2>7. \A r \in I!History : staff'[KeyOf[r]] # 0
    <3> HIDE DEF new
    <3> QED BY <2>2, <2>3, <2>5
  <2> HIDE DEF new
  <2>8. links \in [Records -> Nat] /\ links' \in [Records -> Nat]
    BY <2>1, <2>2, <2>4, <2>5 DEF ImportTypeOK
  <2>9. \A r \in Records : links'[r] # 0 => links'[r] = staff'[KeyOf[r]]
    <3> SUFFICES ASSUME NEW r \in Records, links'[r] # 0 PROVE links'[r] = staff'[KeyOf[r]]
      OBVIOUS
    <3>1. links'[r] = IF r \in I!History /\ links[r] = 0 THEN staff'[KeyOf[r]] ELSE links[r]
      BY <2>1
    <3>2. links[r] # 0 => links[r] = staff[KeyOf[r]]
      BY <2>4 DEF LinkedAsKeyed
    <3> QED BY <2>2, <2>6, <3>1, <3>2
  <2>10. /\ \A r \in Records : links[r] # 0 => links'[r] # 0
         /\ \A r \in I!History : links'[r] # 0
    BY <2>1, <2>2, <2>7
  <2>11. DatabaseInv'
    <3>1. ImportTypeOK'
      BY <2>1, <2>4, <2>5, <2>8 DEF ImportTypeOK
    <3>2. TakenIsThere' /\ Counted'
      BY <2>1 DEF ImportInv, DatabaseInv, TakenIsThere, Counted
    <3>3. LinkedAsKeyed'
      BY <2>9 DEF LinkedAsKeyed
    <3> QED BY <3>1, <3>2, <3>3 DEF DatabaseInv
  <2>12. Kept
    BY <2>1, <2>10 DEF Kept, Whole
  <2>13. /\ p.checksum.records \subseteq Records
         /\ answer.linked = I!Cardinality(p.checksum.records)
         /\ \A r \in p.checksum.records : links'[r] # 0
    <3>1. p.checksum.records = I!History
      BY <1>2 DEF I!Checksum
    <3>2. linked = I!History
      BY <2>10
    <3>3. answer.linked = I!Cardinality(I!History)
      BY <3>2 DEF answer
    <3> QED BY <2>2, <2>10, <3>1, <3>3
  <2>14. TrafficInv'
    BY <2>1, <2>12, <2>13, ServedTraffic
  <2> QED BY <2>11, <2>14 DEF ImportInv
<1> QED BY <1>1, <1>2

\* A request is served.
LEMMA ServeStep ==
    ASSUME ImportInv, NEW p \in posts, I!Serve(p)
    PROVE  ImportInv'
<1>1. pages' = pages /\ p.op \in {"prepare", "chunk", "plan", "apply"}
  BY DEF I!Serve, ImportInv, TrafficInv, ImportPagesOK, PostOK
<1>2. CASE p.op = "prepare"
  BY <1>1, <1>2, PrepareStep DEF I!Serve
<1>3. CASE p.op = "chunk"
  BY <1>1, <1>3, TakeChunkStep DEF I!Serve
<1>4. CASE p.op = "plan"
  BY <1>1, <1>4, PlanStep DEF I!Serve
<1>5. CASE p.op = "apply"
  BY <1>1, <1>5, ApplyStep DEF I!Serve
<1> QED BY <1>1, <1>2, <1>3, <1>4, <1>5

-----------------------------------------------------------------------------
(* What is edited elsewhere *)

\* A customer is deleted.
LEMMA DeleteCustomerStep ==
    ASSUME ImportInv, NEW r \in Records, I!DeleteCustomer(r), UNCHANGED <<pages, posts>>
    PROVE  ImportInv'
<1>1. /\ rows' = [rows EXCEPT ![r] = rows[r] - 1]
      /\ deleted' = [deleted EXCEPT ![r] = deleted[r] + 1]
      /\ rows[r] > 0 /\ UNCHANGED <<runs, staff, hired, named, links>>
  BY DEF I!DeleteCustomer
<1>2. rows \in [Records -> {0, 1}] /\ deleted \in [Records -> Nat]
  BY DEF ImportInv, DatabaseInv, ImportTypeOK
<1>3. ImportTypeOK'
  BY <1>1, <1>2 DEF ImportInv, DatabaseInv, ImportTypeOK
<1>4. \A s \in Records : rows'[s] + deleted'[s] = rows[s] + deleted[s]
  <2> SUFFICES ASSUME NEW s \in Records PROVE rows'[s] + deleted'[s] = rows[s] + deleted[s]
    OBVIOUS
  <2>1. rows[s] \in Int /\ deleted[s] \in Int
    BY <1>2
  <2>2. CASE s = r
    <3>1. rows'[s] = rows[s] - 1 /\ deleted'[s] = deleted[s] + 1
      BY <1>1, <1>2, <2>2
    <3> QED BY <2>1, <3>1
  <2>3. CASE s # r
    BY <1>1, <1>2, <2>3
  <2> QED BY <2>2, <2>3
<1>5. TakenIsThere'
  <2>1. ASSUME NEW f \in DOMAIN Files, NEW o \in runs[f].offsets, NEW s \in I!InChunk(f, o)
        PROVE  rows'[s] + deleted'[s] > 0
    <3>1. o \in I!Offsets(f)
      BY DEF ImportInv, DatabaseInv, ImportTypeOK
    <3>2. s \in Records
      BY <3>1, ChunkIs
    <3>3. rows[s] + deleted[s] > 0
      BY DEF ImportInv, DatabaseInv, TakenIsThere
    <3> QED BY <1>4, <3>2, <3>3
  <2> QED BY <1>1, <2>1 DEF TakenIsThere
<1>6. LinkedAsKeyed'
  BY <1>1 DEF ImportInv, DatabaseInv, LinkedAsKeyed
<1>7. Counted'
  <2>1. [s \in Records |-> rows'[s] + deleted'[s]] = [s \in Records |-> rows[s] + deleted[s]]
    BY <1>4
  <2>2. runs' = runs /\ Counted
    BY <1>1 DEF ImportInv, DatabaseInv
  <2> QED BY <2>1, <2>2 DEF Counted
<1>8. TrafficInv'
  BY <1>1, EditedTraffic
<1> QED BY <1>3, <1>5, <1>6, <1>7, <1>8 DEF ImportInv, DatabaseInv

\* Staff are imported, deleted or named.
LEMMA StaffStep ==
    ASSUME ImportInv, UNCHANGED <<pages, posts>>,
           \/ \E keys \in SUBSET Publications \ {{}} : I!ImportStaff(keys)
           \/ \E k \in Keys : I!DeleteStaff(k) \/ I!Name(k)
    PROVE  ImportInv'
<1>1. UNCHANGED <<rows, deleted, runs, links>>
  BY DEF I!ImportStaff, I!DeleteStaff, I!Name
<1>2. /\ ImportTypeOK /\ LinkedAsKeyed /\ staff \in [Keys -> Nat]
      /\ \A r \in Records : KeyOf[r] \in Keys
  BY RequestsAssumption DEF ImportInv, DatabaseInv, ImportTypeOK
<1> DEFINE Fits == /\ staff' \in [Keys -> Nat] /\ hired' \in Nat
                   /\ \A r \in Records : links[r] # 0 => links[r] = staff'[KeyOf[r]]
<1>3. Fits
  <2>1. ASSUME NEW keys \in SUBSET Publications, I!ImportStaff(keys)
        PROVE  Fits
    <3> DEFINE new == {k \in keys : staff[k] = 0}
    <3>1. new \in SUBSET Keys /\ \A k \in new : staff[k] = 0
      BY RequestsAssumption
    <3>2. /\ hired' = hired + I!Cardinality(new)
          /\ staff' \in {s \in [Keys -> 0 .. hired'] :
                           /\ \A k \in Keys \ new : s[k] = staff[k]
                           /\ {s[k] : k \in new} = (hired + 1) .. hired'}
      BY <2>1 DEF I!ImportStaff
    <3> HIDE DEF new
    <3>3. /\ staff' \in [Keys -> Nat] /\ hired' \in Nat
          /\ \A k \in Keys \ new : staff'[k] = staff[k]
      BY <1>2, <3>1, <3>2, HiredIs
    <3>4. ASSUME NEW r \in Records, links[r] # 0 PROVE links[r] = staff'[KeyOf[r]]
      <4>1. links[r] = staff[KeyOf[r]] /\ KeyOf[r] \in Keys
        BY <1>2, <3>4 DEF LinkedAsKeyed
      <4> QED BY <3>1, <3>3, <3>4, <4>1
    <3> QED BY <3>3, <3>4
  <2>2. ASSUME NEW k \in Keys, I!DeleteStaff(k)
        PROVE  Fits
    <3>1. /\ staff' = [staff EXCEPT ![k] = 0] /\ hired' = hired
          /\ \A r \in Records : links[r] # staff[k]
      BY <2>2 DEF I!DeleteStaff
    <3> QED BY <1>2, <3>1 DEF ImportTypeOK, LinkedAsKeyed
  <2>3. ASSUME NEW k \in Keys, I!Name(k)
        PROVE  Fits
    <3>1. staff' = staff /\ hired' = hired
      BY <2>3 DEF I!Name
    <3> QED BY <1>2, <3>1 DEF ImportTypeOK, LinkedAsKeyed
  <2> QED BY <2>1, <2>2, <2>3
<1>4. ImportTypeOK' /\ LinkedAsKeyed'
  BY <1>1, <1>2, <1>3 DEF ImportTypeOK, LinkedAsKeyed
<1>5. TakenIsThere' /\ Counted'
  BY <1>1 DEF ImportInv, DatabaseInv, TakenIsThere, Counted
<1>6. TrafficInv'
  BY <1>1, EditedTraffic
<1> QED BY <1>4, <1>5, <1>6 DEF ImportInv, DatabaseInv

\* Every step of the imports keeps the invariant.
LEMMA ImportStep ==
    ASSUME ImportInv, [I!Next]_(I!vars)
    PROVE  ImportInv'
<1>1. CASE I!Edit
  <2>1. UNCHANGED <<pages, posts>>
    BY <1>1 DEF I!Edit
  <2>2. CASE \E r \in Records : I!DeleteCustomer(r)
    BY <2>1, <2>2, DeleteCustomerStep
  <2>3. CASE \/ \E keys \in SUBSET Publications \ {{}} : I!ImportStaff(keys)
             \/ \E k \in Keys : I!DeleteStaff(k) \/ I!Name(k)
    BY <2>1, <2>3, StaffStep
  <2> QED BY <1>1, <2>2, <2>3 DEF I!Edit
<1>2. ASSUME NEW c \in Clerks,
             \/ I!Start(c) \/ I!OpenLinks(c) \/ I!ApplyLinks(c)
             \/ \E f \in DOMAIN Files : I!Choose(c, f)
      PROVE  ImportInv'
  BY <1>2, StartStep, OpenLinksStep, ApplyLinksStep, ChooseStep
<1>3. ASSUME NEW p \in posts, I!Serve(p) \/ I!Receive(p) \/ I!Lose(p) \/ I!Leave(p)
      PROVE  ImportInv'
  BY <1>3, ServeStep, ReceiveStep, LoseStep, LeaveStep
<1>4. CASE UNCHANGED I!vars
  <2>1. UNCHANGED <<rows, deleted, runs, staff, hired, named, links, pages, posts>>
    BY <1>4 DEF I!vars
  <2>2. DatabaseInv'
    BY <2>1 DEF ImportInv, DatabaseInv, ImportTypeOK, TakenIsThere, LinkedAsKeyed, Counted
  <2>3. TrafficInv'
    BY <2>1, EditedTraffic
  <2> QED BY <2>2, <2>3 DEF ImportInv
<1> QED BY <1>1, <1>2, <1>3, <1>4 DEF I!Next

\* Chunks that are sent again are counted once, what pages and answers tell of an import is
\* true, and links are as they were reviewed, whatever is lost, repeated or left.
THEOREM ImportSafe == I!Spec => []ImportInv
<1>1. I!Init => ImportInv
  BY ImportBegins
<1>2. ImportInv /\ [I!Next]_(I!vars) => ImportInv'
  BY ImportStep
<1> QED BY <1>1, <1>2, PTL DEF I!Spec

\* So every record of a file is imported once and linked as reviewed.
THEOREM ImportsExact == I!Spec => []ImportsAreExact
<1>1. ImportInv => ImportsAreExact
  <2> SUFFICES ASSUME ImportInv PROVE ImportsAreExact
    OBVIOUS
  <2>1. I!RunsCountTheirChunks
    <3>1. \A r \in Records : rows[r] <= 1
      BY DEF ImportInv, DatabaseInv, ImportTypeOK
    <3> QED BY <3>1, ImportsSum DEF I!RunsCountTheirChunks, ImportInv, DatabaseInv, Counted
  <2>2. I!CompleteMeansAll
    <3> SUFFICES ASSUME NEW c \in Clerks, pages[c].said, NEW o \in I!Offsets(pages[c].file),
                        NEW r \in I!InChunk(pages[c].file, o)
                 PROVE  rows[r] + deleted[r] > 0
      BY DEF I!CompleteMeansAll
    <3>1. pages[c].file \in DOMAIN Files /\ Whole(pages[c].file)
      BY DEF ImportInv, TrafficInv, AnswersAreTrue, Shows
    <3> QED BY <3>1 DEF ImportInv, DatabaseInv, TakenIsThere, Whole
  <2>3. I!LinksAreTheReviewedOnes
    BY DEF I!LinksAreTheReviewedOnes, ImportInv, TrafficInv, AnswersAreTrue, Shows, AllLinked,
           DatabaseInv, LinkedAsKeyed
  <2> QED BY <2>1, <2>2, <2>3 DEF ImportsAreExact, I!ImportsAreExact
<1> QED BY <1>1, ImportSafe, PTL
=============================================================================
