------------------------------ MODULE Permissions ------------------------------
(***************************************************************************)
(* permissions.ts: what a membership may do, and who may give it to whom.   *)
(* A grant is the part of a membership or an invitation that says so.       *)
(***************************************************************************)
CONSTANT Salons     \* of the tenant

Roles == {"OWNER", "ADMIN", "MANAGER", "STAFF", "VIEWER"}

ReadOnly == {"reservation.read", "customer.read", "master.read", "settings.read",
             "checkout.read", "register.read", "chart.read", "audit.read"}
Writes == {"reservation.write", "customer.write", "master.write", "settings.write",
           "checkout.write", "chart.write"}
PERMISSIONS == ReadOnly \cup Writes \cup {"checkout.refund", "register.close", "access.manage"}

\* what a permission is of no use without
RequiredRead(p) ==
    CASE p = "reservation.write" -> "reservation.read"
      [] p = "customer.write" -> "customer.read"
      [] p = "master.write" -> "master.read"
      [] p = "settings.write" -> "settings.read"
      [] p \in {"checkout.write", "checkout.refund"} -> "checkout.read"
      [] p = "chart.write" -> "chart.read"
      [] p = "register.close" -> "register.read"
      [] OTHER -> p

ReadPermissions == ReadOnly \ {"audit.read"}
RolePermissions ==
    [role \in Roles |->
        CASE role \in {"OWNER", "ADMIN"} -> PERMISSIONS
          [] role = "MANAGER" -> PERMISSIONS \ {"access.manage"}
          [] role = "STAFF" -> ReadPermissions \cup {"reservation.write", "customer.write",
                                                     "checkout.write", "chart.write"}
          [] role = "VIEWER" -> ReadPermissions]

GrantRecords == [role: Roles, custom: BOOLEAN, permissions: SUBSET PERMISSIONS,
                 salons: SUBSET Salons]

\* effectivePermissions of an active membership
Granted(grant) ==
    {p \in IF grant.custom THEN grant.permissions ELSE RolePermissions[grant.role] :
        /\ p = "access.manage" => grant.role = "ADMIN"
        /\ grant.role = "VIEWER" => p \in ReadOnly}
PermissionsOf(grant) ==
    IF grant.role = "OWNER" THEN PERMISSIONS
    ELSE Granted(grant) \cup {RequiredRead(p) : p \in Granted(grant)}

EffectivePermissions(member) ==
    IF member.status = "ACTIVE" THEN PermissionsOf(member.grant) ELSE {}

\* No salon stands for every salon.
ScopeOf(grant) == IF grant.role = "OWNER" THEN {} ELSE grant.salons
Within(scope, salons) == scope = {} \/ (salons # {} /\ salons \subseteq scope)

\* variant: the salons are not compared
AssignmentAllowedAnywhere(actor, current, next) ==
    /\ "access.manage" \in EffectivePermissions(actor)
    /\ actor.grant.role \in {"OWNER", "ADMIN"}
    /\ actor.grant.role # "OWNER" =>
          \A grant \in current \cup {next} :
              /\ grant.role # "OWNER"
              /\ PermissionsOf(grant) \subseteq EffectivePermissions(actor)

\* assertAccessAssignment, but for the check that nobody changes their own rights;
\* "current" holds the grant that is replaced, if there is one.
AssignmentAllowed(actor, current, next) ==
    /\ "access.manage" \in EffectivePermissions(actor)
    /\ actor.grant.role \in {"OWNER", "ADMIN"}
    /\ actor.grant.role # "OWNER" =>
          \A grant \in current \cup {next} :
              /\ grant.role # "OWNER"
              /\ PermissionsOf(grant) \subseteq EffectivePermissions(actor)
              /\ Within(ScopeOf(actor.grant), grant.salons)
=============================================================================
