------------------------------ MODULE Membership ------------------------------
(***************************************************************************)
(* Membership programs: an operator gives a tenant its program             *)
(* (membership-provision.ts), members enrol, receptions look a card up and *)
(* link it to a customer (membership-routes.ts), and the triggers of       *)
(* membership-invariants.ts stand behind all of it, also for writers that  *)
(* go to the database directly.                                            *)
(*                                                                         *)
(* updatedAt is a counter.  An enrolment holds the Tenant row shared from  *)
(* its check to its commit; every other handler is one step.               *)
(***************************************************************************)
EXTENDS Integers, FiniteSets

CONSTANTS
    Tenants, Programs, Members, Customers, Enrolments,
    None,
    MaxStamp    \* bound on the updates of each row

VARIABLES
    tenant,     \* Tenant rows: program, active, updatedAt
    program,    \* MembershipProgram rows: "none", "active" or "inactive"
    account,    \* MembershipAccount rows, by program and member
    links,      \* MembershipCustomerLink rows
    actor,      \* the operator's AppUser row
    role,       \* whether the operator owns each tenant
    enrolment,  \* the enrolments under way
    shown,      \* what the reception sees of a card
    reviewed    \* the operator's last dry run

vars == <<tenant, program, account, links, actor, role, enrolment, shown, reviewed>>

NothingShown == [tenant |-> None, customer |-> None, card |-> None, status |-> "NONE"]
NothingReviewed == [tenant |-> None, program |-> None, hash |-> None, touched |-> FALSE]
Holders == Programs \X Members

Init ==
    /\ tenant = [t \in Tenants |-> [program |-> None, active |-> TRUE, stamp |-> 0]]
    /\ program = [p \in Programs |-> "none"]
    /\ account = [a \in Holders |-> "none"]
    /\ links = {}
    /\ actor = [disabled |-> FALSE, stamp |-> 0]
    /\ role = [t \in Tenants |-> [owner |-> TRUE, stamp |-> 0]]
    /\ enrolment = [e \in Enrolments |-> [stage |-> "free", card |-> None, holds |-> None]]
    /\ shown = NothingShown
    /\ reviewed = NothingReviewed

Accounts(p) == {a \in Holders : a[1] = p /\ account[a] # "none"}
OwnersOf(p) == {t \in Tenants : tenant[t].program = p}

\* nobody else holds the Tenant row, so it can be locked FOR UPDATE
TenantFree(t) == \A e \in Enrolments : enrolment[e].holds # t

\* the review remembers whether a row it is about was written since
Touch(tenants) == reviewed' = [reviewed EXCEPT !.touched = @ \/ reviewed.tenant \in tenants]

-----------------------------------------------------------------------------
(* Enrolment.                                                              *)

Open(p) == program[p] = "active" /\ \E t \in OwnersOf(p) : tenant[t].active

StartEnrolment(e, card) ==
    /\ enrolment[e].stage = "free" /\ Open(card[1])
    /\ enrolment' = [enrolment EXCEPT ![e] = [stage |-> "checked", card |-> card, holds |-> None]]
    /\ UNCHANGED <<tenant, program, account, links, actor, role, shown, reviewed>>

EndEnrolment(e) == enrolment' = [enrolment EXCEPT ![e] = [stage |-> "free", card |-> None, holds |-> None]]

\* Tenant FOR SHARE, MembershipProgram FOR SHARE, and the check once more; an
\* inactive account is refused, an active one is found
LockEnrolment(e) ==
    LET a == enrolment[e].card IN
    /\ enrolment[e].stage = "checked"
    /\ IF Open(a[1]) /\ account[a] = "none"
       THEN \E t \in OwnersOf(a[1]) :
               enrolment' = [enrolment EXCEPT ![e] = [stage |-> "locked", card |-> a, holds |-> t]]
       ELSE EndEnrolment(e)
    /\ UNCHANGED <<tenant, program, account, links, actor, role, shown, reviewed>>

\* variant: the trigger looks for the tenant without holding it
InsertLoosely(e, card) ==
    /\ \/ enrolment[e].stage = "locked" /\ enrolment[e].card = card
       \/ enrolment[e].stage = "free" /\ account[card] = "none"
    /\ OwnersOf(card[1]) # {}
    /\ enrolment' = [enrolment EXCEPT ![e] = [@ EXCEPT !.stage = "inserted", !.card = card]]
    /\ UNCHANGED <<tenant, program, account, links, actor, role, shown, reviewed>>

\* the account is inserted, by the handler or by a writer who goes to the
\* database directly; MembershipAccount_guard wants the tenant and holds it
Insert(e, card) ==
    /\ \/ enrolment[e].stage = "locked" /\ enrolment[e].card = card
       \/ enrolment[e].stage = "free" /\ account[card] = "none"
    /\ \E t \in OwnersOf(card[1]) :
          enrolment' = [enrolment EXCEPT ![e] = [stage |-> "inserted", card |-> card, holds |-> t]]
    /\ UNCHANGED <<tenant, program, account, links, actor, role, shown, reviewed>>

CommitEnrolment(e) ==
    LET a == enrolment[e].card IN
    /\ enrolment[e].stage = "inserted"
    /\ account' = [account EXCEPT ![a] = IF @ = "none" THEN "active" ELSE @]
    /\ EndEnrolment(e)
    /\ UNCHANGED <<tenant, program, links, actor, role, shown, reviewed>>

-----------------------------------------------------------------------------
(* The reception.                                                          *)

LinkedTo(t, c) == {l \in links : l.tenant = t /\ l.customer = c}
LinkOf(t, a) == {l \in links : l.tenant = t /\ l.card = a}

\* receptionDto
LinkStatus(t, a, c) ==
    LET mismatched == /\ c # None
                      /\ \/ \E l \in LinkOf(t, a) : l.customer # c
                         \/ \E l \in LinkedTo(t, c) : l.card # a
    IN IF mismatched THEN "MISMATCH"
       ELSE IF LinkOf(t, a) # {} THEN "LINKED" ELSE "UNLINKED"

Shown(t, a, c) ==
    [tenant |-> t, card |-> a, status |-> LinkStatus(t, a, c),
     customer |-> IF c = None /\ LinkOf(t, a) # {} THEN (CHOOSE l \in LinkOf(t, a) : TRUE).customer
                  ELSE c]

\* POST lookup: the card read, and the customer of the checkout or reservation
Lookup(t, a, c) ==
    /\ tenant[t].active /\ TenantFree(t)
    /\ tenant[t].program = a[1] /\ program[a[1]] = "active" /\ account[a] = "active"
    /\ shown' = Shown(t, a, c)
    /\ UNCHANGED <<tenant, program, account, links, actor, role, enrolment, reviewed>>

\* GET membership of a customer
ShowCustomer(t, c) ==
    /\ tenant[t].active /\ TenantFree(t)
    /\ tenant[t].program # None /\ program[tenant[t].program] = "active"
    /\ shown' = IF \E l \in LinkedTo(t, c) : account[l.card] = "active"
                THEN Shown(t, (CHOOSE l \in LinkedTo(t, c) : TRUE).card, c)
                ELSE [NothingShown EXCEPT !.customer = c]
    /\ UNCHANGED <<tenant, program, account, links, actor, role, enrolment, reviewed>>

\* POST membership-link: the card must be the one that was shown
LinkCustomer(c) ==
    LET t == shown.tenant
        a == shown.card
        others == {l \in LinkedTo(t, c) \cup LinkOf(t, a) : l.customer # c \/ l.card # a}
    IN
    /\ shown.card # None /\ tenant[t].active /\ TenantFree(t)
    /\ tenant[t].program = a[1] /\ program[a[1]] = "active" /\ account[a] = "active"
    /\ others = {}
    /\ links' = links \cup {[tenant |-> t, customer |-> c, card |-> a]}
    /\ shown' = [tenant |-> t, card |-> a, status |-> "LINKED", customer |-> c]
    /\ UNCHANGED <<tenant, program, account, actor, role, enrolment, reviewed>>

-----------------------------------------------------------------------------
(* Provisioning.                                                           *)

\* buildMembershipProvisionPlan: what must hold for there to be a plan
Plannable(t, p) ==
    /\ ~actor.disabled /\ role[t].owner /\ tenant[t].active
    /\ tenant[t].program \in {None, p}
    /\ OwnersOf(p) \subseteq {t}
    /\ program[p] # "inactive"

\* variant: the hash binds the plan only, not who is to act and on what
HashOfPlan(t, p) == [program |-> program[p], owned |-> tenant[t].program]

\* what confirmationHash binds
Hash(t, p) == [program |-> program[p], owners |-> OwnersOf(p),
               actor |-> actor, tenant |-> tenant[t], role |-> role[t]]

DryRun(t, p) ==
    /\ Plannable(t, p)
    /\ reviewed' = [tenant |-> t, program |-> p, hash |-> Hash(t, p), touched |-> FALSE]
    /\ UNCHANGED <<tenant, program, account, links, actor, role, enrolment, shown>>

\* provisionMembership with apply: locks, reads, plans and compares again
Apply ==
    LET t == reviewed.tenant
        p == reviewed.program
    IN
    /\ reviewed # NothingReviewed /\ TenantFree(t)
    /\ Plannable(t, p) /\ Hash(t, p) = reviewed.hash
    /\ program' = [program EXCEPT ![p] = "active"]
    /\ tenant' = IF tenant[t].program = p THEN tenant
                 ELSE [tenant EXCEPT ![t].program = p, ![t].stamp = @ + 1]
    /\ reviewed' = NothingReviewed
    /\ UNCHANGED <<account, links, actor, role, enrolment, shown>>

-----------------------------------------------------------------------------
(* Everybody else: access management, sign-ins, and writers who go to the  *)
(* database directly, whom only the triggers and keys stop.                *)

ChangeActor ==
    /\ actor.stamp < MaxStamp
    /\ \E d \in BOOLEAN : actor' = [disabled |-> d, stamp |-> actor.stamp + 1]
    /\ Touch(Tenants)
    /\ UNCHANGED <<tenant, program, account, links, role, enrolment, shown>>

ChangeRole(t) ==
    /\ role[t].stamp < MaxStamp /\ TenantFree(t)
    /\ \E o \in BOOLEAN : role' = [role EXCEPT ![t] = [owner |-> o, stamp |-> @.stamp + 1]]
    /\ Touch({t})
    /\ UNCHANGED <<tenant, program, account, links, actor, enrolment, shown>>

\* the key and Tenant_membership_owner_guard
ProgramMayMove(t, p) ==
    p # tenant[t].program =>
        /\ p # None => program[p] # "none" /\ OwnersOf(p) = {} /\ Accounts(p) = {}
        /\ tenant[t].program # None => Accounts(tenant[t].program) = {}

ChangeTenant(t, p) ==
    /\ tenant[t].stamp <= MaxStamp /\ TenantFree(t) /\ ProgramMayMove(t, p)
    /\ \E on \in BOOLEAN :
          tenant' = [tenant EXCEPT ![t] = [program |-> p, active |-> on, stamp |-> @.stamp + 1]]
    /\ Touch({t})
    /\ UNCHANGED <<program, account, links, actor, role, enrolment, shown>>

\* a program is switched off or on, or an account is
SwitchProgram(p) ==
    /\ program[p] # "none" /\ \A e \in Enrolments : enrolment[e].stage \in {"locked", "inserted"} => enrolment[e].card[1] # p
    /\ program' = [program EXCEPT ![p] = IF @ = "active" THEN "inactive" ELSE "active"]
    /\ UNCHANGED <<tenant, account, links, actor, role, enrolment, shown, reviewed>>

SwitchAccount(a) ==
    /\ account[a] # "none"
    /\ account' = [account EXCEPT ![a] = IF @ = "active" THEN "inactive" ELSE "active"]
    /\ UNCHANGED <<tenant, program, links, actor, role, enrolment, shown, reviewed>>

Next ==
    \/ \E e \in Enrolments :
          \/ LockEnrolment(e) \/ CommitEnrolment(e)
          \/ \E card \in Holders : StartEnrolment(e, card) \/ Insert(e, card)
    \/ \E t \in Tenants, a \in Holders, c \in Customers \cup {None} : Lookup(t, a, c)
    \/ \E t \in Tenants, c \in Customers : ShowCustomer(t, c)
    \/ \E c \in Customers : LinkCustomer(c)
    \/ \E t \in Tenants, p \in Programs : DryRun(t, p)
    \/ Apply \/ ChangeActor
    \/ \E t \in Tenants : \/ ChangeRole(t)
                          \/ \E p \in Programs \cup {None} : ChangeTenant(t, p)
    \/ \E p \in Programs : SwitchProgram(p)
    \/ \E a \in Holders : SwitchAccount(a)

Spec == Init /\ [][Next]_vars

-----------------------------------------------------------------------------
\* Members and their points stay where they enrolled: from the first account on
\* a program has its one tenant, whatever is detached or reassigned directly
\* while an enrolment is under way, and every link agrees with it.
EnrolledProgramsStay ==
    /\ \A p \in Programs : Accounts(p) # {} => Cardinality(OwnersOf(p)) = 1
    /\ \A l \in links : tenant[l.tenant].program = l.card[1]

\* A provisioning acts on the very rows the operator reviewed: operator, role
\* and tenant were not written since, not even changed and changed back.
AppliesWhatWasReviewed == [][Apply => ~reviewed.touched]_vars

=============================================================================
