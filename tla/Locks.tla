-------------------------------- MODULE Locks --------------------------------
(***************************************************************************)
(* The rows the transactions of the API lock, in the order in which each   *)
(* handler takes them, and what PostgreSQL does when some of them wait for *)
(* each other or have read what another changed: one is stopped, loses its *)
(* locks and is started again by its retry loop, if it has one, and by the *)
(* loop around that one (operations-support.ts, cash-routes.ts,            *)
(* member-booking-routes.ts, membership-routes.ts, access-routes.ts,       *)
(* invitation-registration.ts, membership-provision.ts).                   *)
(*                                                                         *)
(* A row is <<class, id, id>>; classes are numbered in the order that the  *)
(* comment at operations-support.ts:29 asks for.  A tenant has one salon,  *)
(* one program, one reservation and one account here.                      *)
(***************************************************************************)
EXTENDS Integers, Sequences

CONSTANTS Requests, Tenants, Users, Members

ASSUME LocksAssumption == Tenants \cup Users \cup Members \subseteq Nat

VARIABLES tx    \* of each request: its plan, how far it is, its repeats, its rounds of them

vars == <<tx>>

MemberKey == 1
Tenant == 2
AppUser == 3
TenantMembership == 4
Salon == 5
Reservation == 6
Account == 7
Program == 8

Update(class, a, b) == [row |-> <<class, a, b>>, share |-> FALSE]
Share(class, a, b) == [row |-> <<class, a, b>>, share |-> TRUE]
Conflict(w, v) == w.row = v.row /\ ~(w.share /\ v.share)

-----------------------------------------------------------------------------
(* The plans: what each kind of transaction locks.                         *)

Plan(kind, want) == [kind |-> kind, want |-> want]

\* lockTenant and currentActor of access-routes.ts
AccessChange(t, u) ==
    <<Update(Tenant, t, 0), Update(AppUser, u, 0), Update(TenantMembership, t, u)>>

\* lockOperation, with which every write of the staff begins
Operation(t, u) == Append(AccessChange(t, u), Update(Salon, t, 0))

\* variant: the two users are locked one after the other, the caller first
UsersAsTheyCome(u, inviter) ==
    IF u = inviter THEN <<Update(AppUser, u, 0)>>
    ELSE <<Update(AppUser, u, 0), Update(AppUser, inviter, 0)>>

\* ORDER BY id FOR UPDATE
SortedUsers(u, inviter) ==
    IF u = inviter THEN <<Update(AppUser, u, 0)>>
    ELSE IF u < inviter THEN <<Update(AppUser, u, 0), Update(AppUser, inviter, 0)>>
    ELSE <<Update(AppUser, inviter, 0), Update(AppUser, u, 0)>>

\* accepting an invitation, or registering with one
Accept(t, u, inviter) ==
    <<Update(Tenant, t, 0)>> \o SortedUsers(u, inviter)
        \o <<Update(TenantMembership, t, inviter)>>

\* a member books or cancels; lockMemberSalon is the latter part
MemberCancel(t) == <<Update(Tenant, t, 0), Update(Salon, t, 0)>>
MemberBook(m, t) == <<Update(MemberKey, m, 0)>> \o MemberCancel(t)

\* recalculateCustomerStats after the commit
Recount(t) == <<Update(Salon, t, 0)>>

\* enrolment, and a link made at the reception
Enrol(t) == <<Share(Tenant, t, 0), Share(Program, t, 0)>>
Link(t, u) == Append(Operation(t, u), Update(Account, t, 0))

\* finalize and reverse, with points
Settle(t, u) == Operation(t, u) \o <<Update(Reservation, t, 0), Update(Account, t, 0)>>

\* lockProvisionRows: the actor before the tenant
Provision(t, u) ==
    <<Share(AppUser, u, 0), Update(Tenant, t, 0), Share(TenantMembership, t, u),
      Share(Program, t, 0)>>

Plans ==
    {Plan("access", AccessChange(t, u)) : t \in Tenants, u \in Users}
    \cup {Plan("access", Accept(t, u, v)) : t \in Tenants, u \in Users, v \in Users}
    \cup {Plan("operation", Operation(t, u)) : t \in Tenants, u \in Users}
    \cup {Plan("cash", Operation(t, u)) : t \in Tenants, u \in Users}
    \cup {Plan("cash", Settle(t, u)) : t \in Tenants, u \in Users}
    \cup {Plan("operation", Recount(t)) : t \in Tenants}
    \cup {Plan("operation", MemberBook(m, t)) : m \in Members, t \in Tenants}
    \cup {Plan("operation", MemberCancel(t)) : t \in Tenants}
    \cup {Plan("membership", Enrol(t)) : t \in Tenants}
    \cup {Plan("membership", Link(t, u)) : t \in Tenants, u \in Users}
    \cup {Plan("provision", Provision(t, u)) : t \in Tenants, u \in Users}

\* How often a loop starts the transaction again: runSerializable and the member
\* routes; the membership routes; access management and provisioning never, nor a
\* registration, which repeats other errors than those of a lock.
Repeats(kind) == CASE kind \in {"operation", "cash"} -> 3
                   [] kind = "membership" -> 5
                   [] OTHER -> 0

\* how often cashTransaction runs the whole loop of runSerializable again
Rounds(kind) == IF kind = "cash" THEN 4 ELSE 0

-----------------------------------------------------------------------------
NotStarted ==
    [stage |-> "free", plan |-> Plan("none", <<>>), next |-> 1, repeats |-> 0, rounds |-> 0]

Init == tx = [q \in Requests |-> NotStarted]

Running(q) == tx[q].stage = "running"
\* between two attempts it holds no lock
Started(q) == Running(q) \/ tx[q].stage = "waiting"
Ended(q) == tx[q].stage \in {"done", "failed"}
Held(q) == {tx[q].plan.want[i] : i \in 1 .. (tx[q].next - 1)}
Wants(q) == Running(q) /\ tx[q].next <= Len(tx[q].plan.want)
Next1(q) == tx[q].plan.want[tx[q].next]

\* q waits for a lock that r holds
Waits(q, r) ==
    /\ q # r /\ Wants(q) /\ Running(r)
    /\ \E v \in Held(r) : Conflict(Next1(q), v)

\* requests that wait for each other, so that none of them can go on
Stuck(D) == D # {} /\ \A q \in D : \E r \in D : Waits(q, r)

Start(q, plan) ==
    /\ tx[q].stage = "free"
    /\ tx' = [tx EXCEPT ![q] = [NotStarted EXCEPT !.stage = "running", !.plan = plan]]

Take(q) ==
    /\ Wants(q) /\ \A r \in Requests : ~Waits(q, r)
    /\ tx' = [tx EXCEPT ![q].next = @ + 1]

\* the transaction commits, or its handler refuses after some of the locks
Finish(q) ==
    /\ Running(q) /\ ~Wants(q)
    /\ tx' = [tx EXCEPT ![q] = [NotStarted EXCEPT !.stage = "done"]]

Refuse(q) ==
    /\ Wants(q) /\ tx[q].next > 1
    /\ tx' = [tx EXCEPT ![q] = [NotStarted EXCEPT !.stage = "done"]]

\* variant: the repeats are not counted
AgainUncounted(x) == [x EXCEPT !.next = 1]

\* The membership routes wait before they try again, runSerializable does not.
Again(x) == [x EXCEPT !.next = 1, !.repeats = @ + 1,
                      !.stage = IF x.plan.kind = "membership" THEN "waiting" ELSE @]

\* variant: each round of the outer loop begins as its first one
NextRoundUncounted(x) == [x EXCEPT !.next = 1, !.repeats = 0, !.stage = "waiting"]

\* the backoff of cashTransaction
NextRound(x) ==
    [x EXCEPT !.next = 1, !.repeats = 0, !.rounds = @ + 1, !.stage = "waiting"]

\* The transaction is rolled back with an error its loops know.
Aborted(q) ==
    tx' = [tx EXCEPT ![q] =
              IF @.repeats < Repeats(@.plan.kind) THEN Again(@)
              ELSE IF @.rounds < Rounds(@.plan.kind) THEN NextRound(@)
              ELSE [NotStarted EXCEPT !.stage = "failed"]]

\* 40P01 for one of those who wait for each other
Victim(q) == (\E D \in SUBSET Requests : q \in D /\ Stuck(D)) /\ Aborted(q)

\* 40001 for a serializable transaction; access management reads what is committed.
\* Whether it overlapped the one that has ended is left open.
Conflicted(q) ==
    /\ Running(q) /\ tx[q].plan.kind # "access"
    /\ \E r \in Requests \ {q} : tx[r].stage = "done"
    /\ Aborted(q)

\* the timer of a loop that waits before it tries again
Resume(q) ==
    /\ tx[q].stage = "waiting"
    /\ tx' = [tx EXCEPT ![q].stage = "running"]

Next ==
    \E q \in Requests :
        \/ \E plan \in Plans : Start(q, plan)
        \/ Take(q) \/ Finish(q) \/ Refuse(q) \/ Victim(q) \/ Conflicted(q) \/ Resume(q)

Fairness ==
    \A q \in Requests :
        WF_vars(Take(q)) /\ WF_vars(Finish(q)) /\ WF_vars(Victim(q)) /\ WF_vars(Resume(q))

Spec == Init /\ [][Next]_vars
FairSpec == Spec /\ Fairness

-----------------------------------------------------------------------------
\* Whatever staff, members and accounting do at the same time, requests wait
\* for each other only if a provisioning is among them, which locks the actor
\* before the tenant; no handler of the API alone can make another a victim.
DeadlockNeedsProvisioning ==
    \A D \in SUBSET Requests : Stuck(D) => \E q \in D : tx[q].plan.kind = "provision"

\* Every request is answered, also when its transaction is stopped again and again and
\* both loops of accounting, one within the other, have to give up.
EveryRequestEnds == \A q \in Requests : Started(q) ~> Ended(q)
=============================================================================
