-------------------------------- MODULE Access --------------------------------
(***************************************************************************)
(* Members and invitations of one tenant: access-routes.ts and              *)
(* invitation-registration.ts.                                              *)
(*                                                                         *)
(* Every transaction takes the Tenant row first and reads afterwards, so it  *)
(* is one step.  What lies between the steps: the login of an invited       *)
(* person, the account that the identity provider creates (firebase-admin), *)
(* and answers that get lost.                                               *)
(***************************************************************************)
EXTENDS Permissions, Naturals, FiniteSets

CONSTANTS
    Uids,           \* firebaseUid; an AppUser row has the same name here
    Emails, NoEmail,
    Addressees,     \* the addresses that are invited
    Invites,        \* ids of TenantInvitation, each with its token
    Workers,        \* requests of invited persons
    NoUid, NoInvite,
    FirstMembers,   \* the memberships there are at the start
    FirstEmails,    \* ... and the accounts
    Grants,         \* what may be asked for in a request
    MaxChanges      \* bound on the changes of members and accounts

MemberRows == [status: {"NONE", "ACTIVE", "SUSPENDED"}, grant: GrantRecords]

ASSUME AccessAssumption ==
    /\ NoEmail \notin Emails /\ NoUid \notin Uids /\ NoInvite \notin Invites
    /\ FirstMembers \in [Uids -> MemberRows]
    /\ FirstEmails \in [Uids -> Emails \cup {NoEmail}]
    /\ \A u, v \in Uids : FirstEmails[u] = FirstEmails[v] /\ u # v => FirstEmails[u] = NoEmail
    /\ \A u \in Uids : FirstMembers[u].status # "NONE" => FirstEmails[u] # NoEmail
    /\ Addressees \subseteq Emails
    /\ Grants \subseteq GrantRecords /\ Grants # {} /\ MaxChanges \in Nat

VARIABLES
    accounts,       \* the provider's account of a uid: its e-mail address
    users,          \* AppUser rows; one without an address does not exist
    members,        \* TenantMembership rows
    invitations,    \* TenantInvitation rows
    requests,       \* what each invited person's request is doing
    audits,         \* AuditLog: who joined with which invitation, by which route
    given,          \* history: what the others began with, and what an owner gave
    changes         \* counts the changes of members and accounts

vars == <<accounts, users, members, invitations, requests, audits, given, changes>>

NoRow == [email |-> NoEmail, grant |-> CHOOSE g \in Grants : TRUE, by |-> NoUid,
          accepted |-> FALSE, revoked |-> FALSE, expired |-> FALSE]
Idle == [step |-> "idle", uid |-> NoUid, invite |-> NoInvite, email |-> NoEmail]

FirstOwners == {u \in Uids : FirstMembers[u].status # "NONE" /\ FirstMembers[u].grant.role = "OWNER"}
FirstOthers == {u \in Uids : FirstMembers[u].status # "NONE"} \ FirstOwners

\* The rights behind a grant; to be an owner is one of its own.
Rights(grant) ==
    (PermissionsOf(grant) \cup IF grant.role = "OWNER" THEN {"owner"} ELSE {})
        \X (IF ScopeOf(grant) = {} THEN Salons ELSE grant.salons)

Init ==
    /\ accounts = FirstEmails
    /\ users = [u \in Uids |-> [email |-> FirstEmails[u], disabled |-> FALSE]]
    /\ members = FirstMembers
    /\ invitations = [i \in Invites |-> NoRow]
    /\ requests = [w \in Workers |-> Idle]
    /\ audits = {} /\ changes = 0
    /\ given = {FirstMembers[u].grant : u \in FirstOthers}

-----------------------------------------------------------------------------
(* Managing members and invitations                                         *)

IsMember(u) == members[u].status # "NONE"

\* currentActor: asked again inside the transaction
MayManage(a) == /\ users[a].email # NoEmail /\ ~users[a].disabled
                /\ "access.manage" \in EffectivePermissions(members[a])

Stored(grant) == IF grant.role = "OWNER" THEN [grant EXCEPT !.salons = {}] ELSE grant

\* A grant is made on the authority of a.
Gives(a, grant) ==
    given' = IF members[a].grant.role = "OWNER" THEN given \cup {Stored(grant)} ELSE given

ActiveOwners == {u \in Uids : /\ members[u].status = "ACTIVE" /\ members[u].grant.role = "OWNER"
                              /\ ~users[u].disabled}

\* PATCH /api/access/members/:id
ChangeMember(a, u, grant, status) ==
    /\ changes < MaxChanges /\ MayManage(a) /\ IsMember(u) /\ u # a
    /\ AssignmentAllowed(members[a], {members[u].grant}, grant)
    /\ \/ members[u].grant.role # "OWNER" \/ members[u].status # "ACTIVE"
       \/ grant.role = "OWNER" /\ status = "ACTIVE"
       \/ Cardinality(ActiveOwners) > 1
    /\ members' = [members EXCEPT ![u] = [status |-> status, grant |-> Stored(grant)]]
    /\ Gives(a, grant) /\ changes' = changes + 1
    /\ UNCHANGED <<accounts, users, invitations, requests, audits>>

Exists(i) == invitations[i].email # NoEmail
Outstanding(i) == Exists(i) /\ ~invitations[i].accepted /\ ~invitations[i].revoked

\* what a new invitation takes back
TakenBack(e) == {i \in Invites : Outstanding(i) /\ invitations[i].email = e}

\* POST /api/access/invitations
Invite(a, i, e, grant) ==
    /\ MayManage(a) /\ ~Exists(i)
    /\ AssignmentAllowed(members[a], {}, grant)
    /\ \A u \in Uids : users[u].email = e => ~IsMember(u)
    /\ invitations' = [j \in Invites |->
          IF j = i THEN [NoRow EXCEPT !.email = e, !.grant = Stored(grant), !.by = a]
          ELSE [invitations[j] EXCEPT !.revoked = @ \/ j \in TakenBack(e)]]
    /\ UNCHANGED <<accounts, users, members, requests, audits, given, changes>>

\* variant: also what was accepted already
RevocableAny(i) == Exists(i)

Revocable(i) == Exists(i) /\ ~invitations[i].accepted

\* DELETE /api/access/invitations/:id
Revoke(a, i) ==
    /\ MayManage(a) /\ Revocable(i)
    /\ AssignmentAllowed(members[a], {invitations[i].grant}, invitations[i].grant)
    /\ invitations' = [invitations EXCEPT ![i].revoked = TRUE]
    /\ UNCHANGED <<accounts, users, members, requests, audits, given, changes>>

\* expiresAt passes
Expire(i) ==
    /\ Outstanding(i) /\ ~invitations[i].expired
    /\ invitations' = [invitations EXCEPT ![i].expired = TRUE]
    /\ UNCHANGED <<accounts, users, members, requests, audits, given, changes>>

-----------------------------------------------------------------------------
(* Joining with an account (login, then POST .../accept)                    *)

Moves(w, step) == requests' = [requests EXCEPT ![w].step = step]
\* with an answer that says nothing about what became of the invitation
Ends(w) == requests' = [requests EXCEPT ![w] = [Idle EXCEPT !.step = "over"]]

Usable(i) == Outstanding(i) /\ ~invitations[i].expired

\* variant: the sender needs to be a member still
InviterMayStillInviteAnything(i) == IsMember(invitations[i].by)

\* the sender's present rights
InviterMayStillInvite(i) ==
    LET g == invitations[i].by IN
    ~users[g].disabled /\ AssignmentAllowed(members[g], {}, invitations[i].grant)

AddressedTo(i, u) == users[u].email = invitations[i].email

\* the invitation is claimed and the membership and the audit row are created
Joins(u, i, action) ==
    /\ invitations' = [invitations EXCEPT ![i].accepted = TRUE]
    /\ members' = [members EXCEPT ![u] = [status |-> "ACTIVE",
                                         grant |-> Stored(invitations[i].grant)]]
    /\ audits' = audits \cup {[uid |-> u, invite |-> i, action |-> action]}
    /\ Gives(invitations[i].by, invitations[i].grant)

NoOtherUserHas(e, u) == \A v \in Uids \ {u} : users[v].email # e

\* requireAuthenticatedUser: the AppUser row follows the account's address, if no
\* other row has it
FollowsAccount(u) ==
    /\ accounts[u] # NoEmail /\ NoOtherUserHas(accounts[u], u)
    /\ users' = [users EXCEPT ![u].email = accounts[u]]

\* any other request of u, and those that end there because u is disabled
SignIn(u) ==
    /\ users[u].email # accounts[u] /\ FollowsAccount(u)
    /\ UNCHANGED <<accounts, members, invitations, requests, audits, given, changes>>

\* ... and a request to accept
Authenticate(w, u, i) ==
    /\ requests[w].step = "idle" /\ Exists(i) /\ ~users[u].disabled
    /\ FollowsAccount(u)
    /\ requests' = [requests EXCEPT ![w] = [step |-> "accepting", uid |-> u, invite |-> i,
                                           email |-> accounts[u]]]
    /\ UNCHANGED <<accounts, members, invitations, audits, given, changes>>

AcceptAllowed(u, i, email) ==
    /\ Usable(i) /\ AddressedTo(i, u) /\ ~IsMember(u)
    /\ ~users[u].disabled /\ users[u].email = email
    /\ InviterMayStillInvite(i) /\ invitations[i].by # u

\* POST /api/access/invitations/accept
Accept(w) ==
    LET u == requests[w].uid
        i == requests[w].invite
    IN /\ requests[w].step = "accepting"
       /\ IF AcceptAllowed(u, i, requests[w].email) THEN Joins(u, i, "accept") /\ Ends(w)
          ELSE /\ Ends(w)
               /\ UNCHANGED <<members, invitations, audits, given>>
       /\ UNCHANGED <<accounts, users, changes>>

-----------------------------------------------------------------------------
(* Joining without an account (POST .../register)                           *)

\* Only what asks further; other requests change nothing but their own limits.
Preflight(w, i) ==
    /\ requests[w].step = "idle" /\ Usable(i) /\ InviterMayStillInvite(i)
    /\ \A u \in Uids : users[u].email # invitations[i].email
    /\ requests' = [requests EXCEPT ![w] = [step |-> "looking", uid |-> NoUid, invite |-> i,
                                           email |-> invitations[i].email]]
    /\ UNCHANGED <<accounts, users, members, invitations, audits, given, changes>>

AccountTaken(e) == \E u \in Uids : accounts[u] = e

\* lookupByEmail: the address is taken, or the provider does not answer, or it is free
Look(w) ==
    /\ requests[w].step = "looking"
    /\ \/ ~AccountTaken(requests[w].email) /\ Moves(w, "creating")
       \/ Ends(w)
    /\ UNCHANGED <<accounts, users, members, invitations, audits, given, changes>>

\* createInvitedIdentity, with a uid that nobody had.  The account is there and the answer
\* or getUser says so, or it is there and no answer comes, or it could not be made.
CreateAccount(w, u) ==
    LET e == requests[w].email IN
    /\ requests[w].step = "creating"
    /\ accounts[u] = NoEmail /\ users[u].email = NoEmail
    /\ \/ /\ ~AccountTaken(e) /\ accounts' = [accounts EXCEPT ![u] = e]
          /\ Ends(w) \/ requests' = [requests EXCEPT ![w].step = "created", ![w].uid = u]
       \/ Ends(w) /\ UNCHANGED accounts
    /\ UNCHANGED <<users, members, invitations, audits, given, changes>>

RegisterAllowed(u, i, e) ==
    /\ Usable(i) /\ InviterMayStillInvite(i) /\ invitations[i].by # u
    /\ NoOtherUserHas(e, u) /\ users[u].email \in {NoEmail, e} /\ ~users[u].disabled
    /\ ~IsMember(u)

\* commitRegistration: refused, committed (the answer may be lost), or rolled back
CommitRegistration(w) ==
    LET u == requests[w].uid
        i == requests[w].invite
        e == requests[w].email
    IN /\ requests[w].step = "created"
       /\ \/ /\ RegisterAllowed(u, i, e)
             /\ users' = [users EXCEPT ![u].email = e]
             /\ Joins(u, i, "register")
             /\ Moves(w, "registered") \/ Moves(w, "unsure")
          \/ /\ Moves(w, IF RegisterAllowed(u, i, e) THEN "unsure" ELSE "denied")
             /\ UNCHANGED <<users, members, invitations, audits, given>>
       /\ UNCHANGED <<accounts, changes>>

\* variant: that the person joined with the invitation is enough
RegisteredAnyhow(u, i) == \E a \in audits : a.uid = u /\ a.invite = i

Registered(u, i) == [uid |-> u, invite |-> i, action |-> "register"] \in audits

\* confirmedRegistration, after any error
Confirm(w) ==
    LET u == requests[w].uid
        i == requests[w].invite
    IN /\ requests[w].step \in {"unsure", "denied"}
       /\ Moves(w, IF /\ users[u].email = requests[w].email /\ ~users[u].disabled
                      /\ members[u].status = "ACTIVE" /\ invitations[i].accepted
                      /\ Registered(u, i) THEN "registered"
                   ELSE IF requests[w].step = "denied" THEN "refused" ELSE "over")
       /\ UNCHANGED <<accounts, users, members, invitations, audits, given, changes>>

Underway == {"accepting", "looking", "creating", "created", "unsure", "denied"}

\* The process dies, or the connection does.
Crash(w) ==
    /\ requests[w].step \in Underway
    /\ Ends(w)
    /\ UNCHANGED <<accounts, users, members, invitations, audits, given, changes>>

-----------------------------------------------------------------------------
(* What happens outside                                                     *)

\* The provider gives an account another address.
ChangeEmail(u, e) ==
    /\ changes < MaxChanges /\ accounts[u] # NoEmail /\ ~AccountTaken(e)
    /\ accounts' = [accounts EXCEPT ![u] = e]
    /\ changes' = changes + 1
    /\ UNCHANGED <<users, members, invitations, requests, audits, given>>

\* An operator disables a user in the database.
Disable(u) ==
    /\ changes < MaxChanges /\ users[u].email # NoEmail /\ ~users[u].disabled
    /\ users' = [users EXCEPT ![u].disabled = TRUE]
    /\ changes' = changes + 1
    /\ UNCHANGED <<accounts, members, invitations, requests, audits, given>>

Manages(a) ==
    \/ \E u \in Uids, grant \in Grants, status \in {"ACTIVE", "SUSPENDED"} :
          ChangeMember(a, u, grant, status)
    \/ \E i \in Invites : Revoke(a, i) \/ \E e \in Addressees, grant \in Grants : Invite(a, i, e, grant)

Serves(w) ==
    \/ \E i \in Invites : Preflight(w, i) \/ \E u \in Uids : Authenticate(w, u, i)
    \/ \E u \in Uids : CreateAccount(w, u)
    \/ Accept(w) \/ Look(w) \/ CommitRegistration(w) \/ Confirm(w) \/ Crash(w)

Next == \/ \E a \in Uids : Manages(a)
        \/ \E w \in Workers : Serves(w)
        \/ \E i \in Invites : Expire(i)
        \/ \E u \in Uids : SignIn(u) \/ Disable(u) \/ \E e \in Emails : ChangeEmail(u, e)

Spec == Init /\ [][Next]_vars
-----------------------------------------------------------------------------
(* What access management promises                                          *)

InvitationRows == [email: Emails \cup {NoEmail}, grant: GrantRecords, by: Uids \cup {NoUid},
                   accepted: BOOLEAN, revoked: BOOLEAN, expired: BOOLEAN]
Steps == {"idle", "over", "registered", "refused"} \cup Underway
RequestRows == [step: Steps, uid: Uids \cup {NoUid}, invite: Invites \cup {NoInvite},
                email: Emails \cup {NoEmail}]
AuditRows == [uid: Uids, invite: Invites, action: {"accept", "register"}]

\* Every variable stays in its domain.
TypeOK ==
    /\ accounts \in [Uids -> Emails \cup {NoEmail}]
    /\ users \in [Uids -> [email: Emails \cup {NoEmail}, disabled: BOOLEAN]]
    /\ members \in [Uids -> MemberRows]
    /\ invitations \in [Invites -> InvitationRows]
    /\ requests \in [Workers -> RequestRows]
    /\ audits \subseteq AuditRows
    /\ given \subseteq GrantRecords
    /\ changes \in Nat

\* A link is accepted once: an invitation is marked accepted exactly if one person
\* joined with it, by whichever route, and then it is not revoked (accept, register
\* and revoke race for it).
LinkUsedOnce ==
    \A i \in Invites :
        /\ invitations[i].accepted <=> \E a \in audits : a.invite = i
        /\ \A a, b \in audits : a.invite = i /\ b.invite = i => a = b
        /\ ~(invitations[i].accepted /\ invitations[i].revoked)

\* At most one link to an address works, however often it is sent again.
OneWorkingLink ==
    \A i, j \in Invites :
        Usable(i) /\ Usable(j) /\ invitations[i].email = invitations[j].email => i = j

\* Nobody but an owner brings new rights into the tenant, by no sequence of changes,
\* invitations and acceptances, and nobody but an owner makes an owner.
RightsAreGiven ==
    \A u \in Uids : IsMember(u) =>
        \/ u \in FirstOwners /\ members[u].grant.role = "OWNER"
        \/ Rights(members[u].grant) \subseteq UNION {Rights(grant) : grant \in given}

\* An invitation does not outlive the rights of its sender: who joins with it gets what
\* the sender has at that moment and may give, and the sender is somebody else.
SenderIsEntitled ==
    [][\A i \in Invites : invitations'[i].accepted /\ ~invitations[i].accepted =>
          LET g == invitations[i].by IN
          /\ ~users[g].disabled /\ "access.manage" \in EffectivePermissions(members[g])
          /\ \A u \in Uids : members'[u] # members[u] =>
                u # g /\ Rights(members'[u].grant) \subseteq Rights(members[g].grant)]_vars

\* Only the person an invitation is addressed to joins with it.
OnlyTheInvitedJoin ==
    [][\A a \in audits' \ audits :
          users'[a.uid].email = invitations[a.invite].email /\ ~IsMember(a.uid)]_vars

\* Who is told that the registration is complete has joined by it, and who is told that
\* it was refused has not, also when the answer of the commit was lost.
AnswersAreTrue ==
    \A w \in Workers :
        LET joined == \E a \in audits : /\ a.uid = requests[w].uid /\ a.action = "register"
                                       /\ a.invite = requests[w].invite
        IN /\ requests[w].step = "registered" => joined
           /\ requests[w].step \in {"denied", "refused"} => ~joined
=============================================================================
