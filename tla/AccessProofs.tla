----------------------------- MODULE AccessProofs -----------------------------
(***************************************************************************)
(* Proofs about module Access: AccessInv is inductive, and from it the      *)
(* promises of access management, for any people, invitations, requests,    *)
(* salons and grants.                                                       *)
(***************************************************************************)
EXTENDS Access, TLAPS

\* A request of one of these steps has made an account of its own.
Registering == {"created", "unsure", "denied", "registered", "refused"}

\* An invitation has a sender, and what was not sent is neither accepted nor revoked.
InvitationsKnow ==
    \A i \in Invites : IF Exists(i) THEN invitations[i].by \in Uids
                       ELSE ~invitations[i].accepted /\ ~invitations[i].revoked

\* OneWorkingLink without the expiry.
OneOutstanding ==
    \A i, j \in Invites :
        Outstanding(i) /\ Outstanding(j) /\ invitations[i].email = invitations[j].email => i = j

\* A request knows its invitation, the address it was sent to and the account it made.
RequestsKnow ==
    \A w \in Workers :
        LET r == requests[w] IN
        /\ r.step \in Underway \cup Registering => r.invite \in Invites /\ Exists(r.invite)
        /\ r.step \in {"looking", "creating", "created"} =>
              r.email = invitations[r.invite].email
        /\ r.step \in Registering => r.uid \in Uids /\ accounts[r.uid] # NoEmail
        /\ r.step = "accepting" => r.uid \in Uids

\* No two requests have made the same account.
OwnAccounts ==
    \A v, w \in Workers :
        requests[v].step \in Registering /\ requests[w].step \in Registering
            /\ requests[v].uid = requests[w].uid => v = w

\* Who joined by registration has an account, and no request that has still to commit
\* has registered its account already.
RegisteredHaveAccounts ==
    /\ \A a \in audits : a.action = "register" => accounts[a.uid] # NoEmail
    /\ \A w \in Workers, a \in audits :
          requests[w].step = "created" /\ a.action = "register" => a.uid # requests[w].uid

AccessInv ==
    /\ TypeOK /\ InvitationsKnow /\ OneOutstanding /\ LinkUsedOnce
    /\ RequestsKnow /\ OwnAccounts /\ RegisteredHaveAccounts /\ AnswersAreTrue
    /\ RightsAreGiven

-----------------------------------------------------------------------------
(* Type correctness                                                         *)

\* A stored grant is a grant.
LEMMA StoredTyped ==
    ASSUME NEW grant \in GrantRecords
    PROVE  Stored(grant) \in GrantRecords
  BY DEF Stored, GrantRecords

\* A row that is not there has its type.
LEMMA NoRowTyped ==
    /\ NoRow \in InvitationRows
    /\ NoRow.email = NoEmail /\ ~NoRow.accepted /\ ~NoRow.revoked
<1>1. (CHOOSE g \in Grants : TRUE) \in GrantRecords
  BY AccessAssumption
<1> QED
  BY <1>1 DEF NoRow, InvitationRows

\* What the steps make of a row.
LEMMA RowsTyped ==
    /\ \A row \in InvitationRows : /\ [row EXCEPT !.accepted = TRUE] \in InvitationRows
                                  /\ [row EXCEPT !.revoked = TRUE] \in InvitationRows
                                  /\ [row EXCEPT !.expired = TRUE] \in InvitationRows
    /\ \A row \in InvitationRows, b \in BOOLEAN : [row EXCEPT !.revoked = b] \in InvitationRows
    /\ \A e \in Emails, grant \in GrantRecords, a \in Uids :
          [NoRow EXCEPT !.email = e, !.grant = grant, !.by = a] \in InvitationRows
<1>1. NoRow \in InvitationRows
  BY NoRowTyped
<1> QED
  BY <1>1 DEF InvitationRows

\* The requests the steps make are requests.
LEMMA RequestsTyped ==
    /\ Idle \in RequestRows /\ [Idle EXCEPT !.step = "over"] \in RequestRows
    /\ \A row \in RequestRows, step \in Steps : [row EXCEPT !.step = step] \in RequestRows
    /\ \A row \in RequestRows, u \in Uids :
          [row EXCEPT !.step = "created", !.uid = u] \in RequestRows
  BY DEF Idle, RequestRows, Steps, Underway

\* Ending keeps the requests in their domain.
LEMMA EndsTyped ==
    ASSUME TypeOK, NEW w \in Workers, Ends(w)
    PROVE  requests' \in [Workers -> RequestRows]
  BY RequestsTyped DEF TypeOK, Ends

\* So does moving on.
LEMMA MovesTyped ==
    ASSUME TypeOK, NEW w \in Workers, NEW step \in Steps, Moves(w, step)
    PROVE  requests' \in [Workers -> RequestRows]
  BY RequestsTyped DEF TypeOK, Moves

\* A user with another address is a user.
LEMMA UsersTyped ==
    ASSUME TypeOK, NEW u \in Uids, NEW e \in Emails
    PROVE  /\ [users EXCEPT ![u].email = e] \in
                 [Uids -> [email: Emails \cup {NoEmail}, disabled: BOOLEAN]]
           /\ [users EXCEPT ![u].disabled = TRUE] \in
                 [Uids -> [email: Emails \cup {NoEmail}, disabled: BOOLEAN]]
  BY DEF TypeOK

\* Giving a grant keeps the grants grants.
LEMMA GivesTyped ==
    ASSUME TypeOK, NEW a, NEW grant \in GrantRecords, Gives(a, grant)
    PROVE  given' \subseteq GrantRecords
  BY StoredTyped DEF TypeOK, Gives

\* Joining keeps invitations and members in their domains.
LEMMA JoinsTyped ==
    ASSUME TypeOK, NEW u \in Uids, NEW i \in Invites, NEW action \in {"accept", "register"},
           Joins(u, i, action)
    PROVE  /\ invitations' \in [Invites -> InvitationRows]
           /\ members' \in [Uids -> MemberRows]
           /\ audits' \subseteq AuditRows
           /\ given' \subseteq GrantRecords
<1>1. invitations[i].grant \in GrantRecords
  BY DEF TypeOK, InvitationRows
<1>2. [status |-> "ACTIVE", grant |-> Stored(invitations[i].grant)] \in MemberRows
  BY <1>1, StoredTyped DEF MemberRows
<1>3. [uid |-> u, invite |-> i, action |-> action] \in AuditRows
  BY DEF AuditRows
<1> QED
  BY <1>1, <1>2, <1>3, RowsTyped, GivesTyped DEF TypeOK, Joins

\* What a request knows, with its types.
LEMMA RequestKnows ==
    ASSUME TypeOK, InvitationsKnow, RequestsKnow, NEW w \in Workers
    PROVE  LET r == requests[w] IN
           /\ r \in RequestRows
           /\ r.step \in Underway \cup Registering =>
                 /\ r.invite \in Invites /\ Exists(r.invite)
                 /\ invitations[r.invite].by \in Uids
                 /\ invitations[r.invite] \in InvitationRows
                 /\ invitations[r.invite].email \in Emails
                 /\ invitations[r.invite].grant \in GrantRecords
           /\ r.step \in {"looking", "creating", "created"} => r.email \in Emails
           /\ r.step \in Registering => r.uid \in Uids /\ accounts[r.uid] # NoEmail
           /\ r.step = "accepting" => r.uid \in Uids
<1>1. requests[w] \in RequestRows
  BY DEF TypeOK
<1>2. ASSUME requests[w].step \in Underway \cup Registering
      PROVE  /\ requests[w].invite \in Invites /\ Exists(requests[w].invite)
             /\ invitations[requests[w].invite].by \in Uids
             /\ invitations[requests[w].invite] \in InvitationRows
             /\ invitations[requests[w].invite].email \in Emails
             /\ invitations[requests[w].invite].grant \in GrantRecords
  <2>1. requests[w].invite \in Invites /\ Exists(requests[w].invite)
    BY <1>2 DEF RequestsKnow
  <2>2. invitations[requests[w].invite] \in InvitationRows
    BY <2>1 DEF TypeOK
  <2> QED
    BY <2>1, <2>2 DEF InvitationsKnow, InvitationRows, Exists
<1>3. requests[w].step \in {"looking", "creating", "created"} => requests[w].email \in Emails
  BY <1>2 DEF RequestsKnow, Underway
<1> QED
  BY <1>1, <1>2, <1>3 DEF RequestsKnow

\* A step of a manager keeps every variable in its domain.
LEMMA ManagesTyped ==
    ASSUME TypeOK, InvitationsKnow, NEW a \in Uids, Manages(a)
    PROVE  TypeOK'
<1> USE AccessAssumption
<1>1. ASSUME NEW u \in Uids, NEW grant \in Grants, NEW status \in {"ACTIVE", "SUSPENDED"},
             ChangeMember(a, u, grant, status)
      PROVE  TypeOK'
  <2>1. [status |-> status, grant |-> Stored(grant)] \in MemberRows
    BY StoredTyped DEF MemberRows
  <2>2. given' \subseteq GrantRecords
    BY <1>1, GivesTyped DEF ChangeMember
  <2> QED
    BY <1>1, <2>1, <2>2 DEF TypeOK, ChangeMember
<1>2. ASSUME NEW i \in Invites, Revoke(a, i)
      PROVE  TypeOK'
  BY <1>2, RowsTyped DEF TypeOK, Revoke
<1>3. ASSUME NEW i \in Invites, NEW e \in Addressees, NEW grant \in Grants, Invite(a, i, e, grant)
      PROVE  TypeOK'
  <2>1. [NoRow EXCEPT !.email = e, !.grant = Stored(grant), !.by = a] \in InvitationRows
    BY StoredTyped, RowsTyped
  <2>2. ASSUME NEW j \in Invites
        PROVE  [invitations[j] EXCEPT !.revoked = @ \/ j \in TakenBack(e)] \in InvitationRows
    <3>1. invitations[j] \in InvitationRows /\ invitations[j].revoked \in BOOLEAN
      BY DEF TypeOK, InvitationRows
    <3>2. (invitations[j].revoked \/ j \in TakenBack(e)) \in BOOLEAN
      BY <3>1
    <3> QED
      BY <3>1, <3>2, RowsTyped
  <2>3. invitations' \in [Invites -> InvitationRows]
    BY <1>3, <2>1, <2>2 DEF Invite
  <2> QED
    BY <1>3, <2>3 DEF TypeOK, Invite
<1> QED
  BY <1>1, <1>2, <1>3 DEF Manages

\* So does a step of a request.
LEMMA ServesTyped ==
    ASSUME TypeOK, InvitationsKnow, RequestsKnow, NEW w \in Workers, Serves(w)
    PROVE  TypeOK'
<1> USE AccessAssumption
<1>1. ASSUME NEW i \in Invites, Preflight(w, i)
      PROVE  TypeOK'
  <2>1. invitations[i].email \in Emails \cup {NoEmail}
    BY DEF TypeOK, InvitationRows
  <2>2. [step |-> "looking", uid |-> NoUid, invite |-> i, email |-> invitations[i].email]
          \in RequestRows
    BY <2>1 DEF RequestRows, Steps, Underway
  <2> QED
    BY <1>1, <2>2 DEF TypeOK, Preflight
<1>2. ASSUME NEW i \in Invites, NEW u \in Uids, Authenticate(w, u, i)
      PROVE  TypeOK'
  <2>1. accounts[u] \in Emails
    BY <1>2 DEF TypeOK, Authenticate, FollowsAccount
  <2>2. [step |-> "accepting", uid |-> u, invite |-> i, email |-> accounts[u]] \in RequestRows
    BY <2>1 DEF RequestRows, Steps, Underway
  <2>3. requests' \in [Workers -> RequestRows]
    BY <1>2, <2>2 DEF TypeOK, Authenticate
  <2> QED
    BY <1>2, <2>1, <2>3, UsersTyped DEF TypeOK, Authenticate, FollowsAccount
<1>3. ASSUME NEW u \in Uids, CreateAccount(w, u)
      PROVE  TypeOK'
  <2>1. requests[w].email \in Emails
    BY <1>3, RequestKnows DEF CreateAccount
  <2>2. requests' \in [Workers -> RequestRows]
    <3>1. CASE Ends(w)
      BY <3>1, EndsTyped
    <3>2. CASE requests' = [requests EXCEPT ![w].step = "created", ![w].uid = u]
      <4>1. [requests[w] EXCEPT !.step = "created", !.uid = u] \in RequestRows
        BY RequestsTyped DEF TypeOK
      <4> QED
        BY <3>2, <4>1 DEF TypeOK
    <3> QED
      BY <1>3, <3>1, <3>2 DEF CreateAccount
  <2>3. accounts' \in [Uids -> Emails \cup {NoEmail}]
    BY <1>3, <2>1 DEF TypeOK, CreateAccount
  <2> QED
    BY <1>3, <2>2, <2>3 DEF TypeOK, CreateAccount
<1>4. ASSUME Accept(w)
      PROVE  TypeOK'
  <2>1. requests[w].uid \in Uids /\ requests[w].invite \in Invites
    BY <1>4, RequestKnows DEF Accept, Underway
  <2>2. requests' \in [Workers -> RequestRows]
    BY <1>4, EndsTyped DEF Accept
  <2>3. CASE AcceptAllowed(requests[w].uid, requests[w].invite, requests[w].email)
    <3>1. Joins(requests[w].uid, requests[w].invite, "accept")
      BY <1>4, <2>3 DEF Accept
    <3> QED
      BY <1>4, <2>1, <2>2, <3>1, JoinsTyped DEF TypeOK, Accept
  <2>4. CASE ~AcceptAllowed(requests[w].uid, requests[w].invite, requests[w].email)
    BY <1>4, <2>2, <2>4 DEF TypeOK, Accept
  <2> QED
    BY <2>3, <2>4
<1>5. ASSUME Look(w)
      PROVE  TypeOK'
  <2>1. requests' \in [Workers -> RequestRows]
    BY <1>5, EndsTyped, MovesTyped DEF Look, Steps, Underway
  <2> QED
    BY <1>5, <2>1 DEF TypeOK, Look
<1>6. ASSUME CommitRegistration(w)
      PROVE  TypeOK'
  <2>1. /\ requests[w].uid \in Uids /\ requests[w].invite \in Invites
        /\ requests[w].email \in Emails
    BY <1>6, RequestKnows DEF CommitRegistration, Underway, Registering
  <2>2. requests' \in [Workers -> RequestRows]
    BY <1>6, MovesTyped DEF CommitRegistration, Steps, Underway
  <2>3. CASE Joins(requests[w].uid, requests[w].invite, "register")
             /\ users' = [users EXCEPT ![requests[w].uid].email = requests[w].email]
    BY <1>6, <2>1, <2>2, <2>3, UsersTyped, JoinsTyped DEF TypeOK, CommitRegistration
  <2>4. CASE UNCHANGED <<users, members, invitations, audits, given>>
    BY <1>6, <2>2, <2>4 DEF TypeOK, CommitRegistration
  <2> QED
    BY <1>6, <2>3, <2>4 DEF CommitRegistration
<1>7. ASSUME Confirm(w)
      PROVE  TypeOK'
  <2>1. requests' \in [Workers -> RequestRows]
    BY <1>7, MovesTyped DEF Confirm, Steps
  <2> QED
    BY <1>7, <2>1 DEF TypeOK, Confirm
<1>8. ASSUME Crash(w)
      PROVE  TypeOK'
  BY <1>8, EndsTyped DEF TypeOK, Crash
<1> QED
  BY <1>1, <1>2, <1>3, <1>4, <1>5, <1>6, <1>7, <1>8 DEF Serves

\* So does every step.
LEMMA TypesStay ==
    ASSUME TypeOK, InvitationsKnow, RequestsKnow, [Next]_vars
    PROVE  TypeOK'
<1> USE AccessAssumption
<1>1. ASSUME NEW i \in Invites, Expire(i)
      PROVE  TypeOK'
  BY <1>1, RowsTyped DEF TypeOK, Expire
<1>2. ASSUME NEW u \in Uids, SignIn(u)
      PROVE  TypeOK'
  <2>1. accounts[u] \in Emails
    BY <1>2 DEF TypeOK, SignIn, FollowsAccount
  <2> QED
    BY <1>2, <2>1, UsersTyped DEF TypeOK, SignIn, FollowsAccount
<1>3. ASSUME NEW u \in Uids, Disable(u)
      PROVE  TypeOK'
  <2>1. changes' \in Nat
    BY <1>3 DEF TypeOK, Disable
  <2>2. \E e \in Emails : TRUE
    BY <1>3 DEF TypeOK, Disable
  <2> QED
    BY <1>3, <2>1, <2>2, UsersTyped DEF TypeOK, Disable
<1>4. ASSUME NEW u \in Uids, NEW e \in Emails, ChangeEmail(u, e)
      PROVE  TypeOK'
  BY <1>4 DEF TypeOK, ChangeEmail
<1>5. CASE UNCHANGED vars
  BY <1>5 DEF TypeOK, vars
<1> QED
  BY <1>1, <1>2, <1>3, <1>4, <1>5, ManagesTyped, ServesTyped DEF Next

-----------------------------------------------------------------------------
(* Invitations                                                              *)

\* What the requests of invited persons do to invitations.
LEMMA AcceptJoins ==
    ASSUME TypeOK, InvitationsKnow, RequestsKnow, NEW w \in Workers, Accept(w)
    PROVE  LET u == requests[w].uid
               i == requests[w].invite
           IN /\ u \in Uids /\ i \in Invites /\ Exists(i)
              /\ UNCHANGED <<accounts, users, changes>>
              /\ Ends(w)
              /\ \/ UNCHANGED <<members, invitations, audits, given>>
                 \/ AcceptAllowed(u, i, requests[w].email) /\ Joins(u, i, "accept")
  BY RequestKnows DEF Accept, Underway

\* A registration joins with its invitation.
LEMMA RegisterJoins ==
    ASSUME TypeOK, InvitationsKnow, RequestsKnow, NEW w \in Workers, CommitRegistration(w)
    PROVE  LET u == requests[w].uid
               i == requests[w].invite
               e == requests[w].email
           IN /\ requests[w].step = "created"
              /\ u \in Uids /\ i \in Invites /\ Exists(i) /\ e = invitations[i].email
              /\ UNCHANGED <<accounts, changes>>
              /\ \/ /\ UNCHANGED <<users, members, invitations, audits, given>>
                    /\ Moves(w, "unsure") \/ Moves(w, "denied")
                 \/ /\ RegisterAllowed(u, i, e) /\ Joins(u, i, "register")
                    /\ users' = [users EXCEPT ![u].email = e]
                    /\ Moves(w, "registered") \/ Moves(w, "unsure")
<1>1. requests[w].step = "created"
  BY DEF CommitRegistration
<1>2. /\ requests[w].uid \in Uids /\ requests[w].invite \in Invites /\ Exists(requests[w].invite)
      /\ requests[w].email = invitations[requests[w].invite].email
  BY <1>1, RequestKnows DEF Underway, Registering, RequestsKnow
<1> QED
  BY <1>1, <1>2 DEF CommitRegistration

\* The steps that change an invitation or write who joined.
InvitationsMove ==
    \/ \E a \in Uids, i \in Invites, e \in Addressees, grant \in Grants : Invite(a, i, e, grant)
    \/ \E a \in Uids, i \in Invites : Revoke(a, i)
    \/ \E i \in Invites : Expire(i)
    \/ \E u \in Uids, i \in Invites, action \in {"accept", "register"} :
          /\ Usable(i) /\ Joins(u, i, action)
          /\ action = "register" => \E w \in Workers : CommitRegistration(w) /\ requests[w].uid = u

\* Every step leaves the invitations, or moves them.
LEMMA InvitationsStep ==
    ASSUME TypeOK, InvitationsKnow, RequestsKnow, [Next]_vars
    PROVE  UNCHANGED <<invitations, audits>> \/ InvitationsMove
<1>1. ASSUME NEW a \in Uids, Manages(a)
      PROVE  UNCHANGED <<invitations, audits>> \/ InvitationsMove
  BY <1>1 DEF Manages, ChangeMember, InvitationsMove
<1>2. ASSUME NEW w \in Workers, Serves(w)
      PROVE  UNCHANGED <<invitations, audits>> \/ InvitationsMove
  <2>1. CASE Accept(w)
    BY <2>1, AcceptJoins DEF InvitationsMove, AcceptAllowed
  <2>2. CASE CommitRegistration(w)
    BY <2>2, RegisterJoins DEF InvitationsMove, RegisterAllowed
  <2> QED
    BY <1>2, <2>1, <2>2 DEF Serves, Preflight, Authenticate, CreateAccount, Look, Confirm, Crash
<1>3. CASE UNCHANGED vars
  BY <1>3 DEF vars
<1> QED
  BY <1>1, <1>2, <1>3 DEF Next, SignIn, Disable, ChangeEmail, InvitationsMove

\* What one step makes of one invitation.
IsSent(i) ==
    \E a \in Uids, e \in Addressees, grant \in Grants :
        invitations'[i] = [NoRow EXCEPT !.email = e, !.grant = Stored(grant), !.by = a]

Becomes(i) ==
    \/ invitations'[i] = invitations[i]
    \/ Exists(i) /\ invitations'[i] = [invitations[i] EXCEPT !.expired = TRUE]
    \/ Revocable(i) /\ invitations'[i] = [invitations[i] EXCEPT !.revoked = TRUE]
    \/ Usable(i) /\ invitations'[i] = [invitations[i] EXCEPT !.accepted = TRUE]
    \/ ~Exists(i) /\ IsSent(i)

\* What may become of one invitation.
LEMMA InvitationBecomes ==
    ASSUME TypeOK, InvitationsMove, NEW i \in Invites
    PROVE  Becomes(i)
<1>1. ASSUME NEW a \in Uids, NEW j \in Invites, NEW e \in Addressees, NEW grant \in Grants,
             Invite(a, j, e, grant)
      PROVE  Becomes(i)
  <2>1. CASE i = j
    BY <1>1, <2>1 DEF Invite, Becomes, IsSent
  <2>2. CASE i # j
    <3>1. invitations'[i] = [invitations[i] EXCEPT !.revoked = @ \/ i \in TakenBack(e)]
      BY <1>1, <2>2 DEF Invite
    <3>2. CASE i \in TakenBack(e)
      BY <3>1, <3>2 DEF TakenBack, Outstanding, Revocable, Becomes
    <3>3. CASE i \notin TakenBack(e)
      BY <3>1, <3>3 DEF TypeOK, InvitationRows, Becomes
    <3> QED
      BY <3>2, <3>3
  <2> QED
    BY <2>1, <2>2
<1>2. ASSUME NEW a \in Uids, NEW j \in Invites, Revoke(a, j)
      PROVE  Becomes(i)
  BY <1>2 DEF TypeOK, Revoke, Becomes
<1>3. ASSUME NEW j \in Invites, Expire(j)
      PROVE  Becomes(i)
  BY <1>3 DEF TypeOK, Expire, Outstanding, Becomes
<1>4. ASSUME NEW u \in Uids, NEW j \in Invites, NEW action, Usable(j), Joins(u, j, action)
      PROVE  Becomes(i)
  BY <1>4 DEF TypeOK, Joins, Becomes
<1> QED
  BY <1>1, <1>2, <1>3, <1>4 DEF InvitationsMove

\* An invitation that was sent stays, with its address, its sender and its grant.
LEMMA InvitationsKept ==
    ASSUME TypeOK, InvitationsKnow, RequestsKnow, [Next]_vars, NEW i \in Invites, Exists(i)
    PROVE  /\ Exists(i)' /\ invitations'[i].email = invitations[i].email
           /\ invitations'[i].by = invitations[i].by
           /\ invitations[i].accepted => invitations'[i].accepted
           /\ Outstanding(i)' => Outstanding(i)
<1>1. CASE UNCHANGED <<invitations, audits>>
  BY <1>1 DEF Exists, Outstanding
<1>2. CASE InvitationsMove
  BY <1>2, InvitationBecomes DEF Becomes, TypeOK, InvitationRows, Exists, Outstanding, Usable, Revocable
<1> QED
  BY <1>1, <1>2, InvitationsStep

\* What invitations know stays so.
LEMMA InvitationsKnowStays ==
    ASSUME TypeOK, InvitationsKnow, RequestsKnow, [Next]_vars
    PROVE  InvitationsKnow'
<1> SUFFICES ASSUME NEW i \in Invites
             PROVE  IF Exists(i)' THEN invitations'[i].by \in Uids
                    ELSE ~invitations'[i].accepted /\ ~invitations'[i].revoked
  BY DEF InvitationsKnow
<1>1. CASE Exists(i)
  BY <1>1, InvitationsKept DEF InvitationsKnow
<1>2. CASE ~Exists(i) /\ UNCHANGED <<invitations, audits>>
  BY <1>2 DEF InvitationsKnow, Exists
<1>3. CASE ~Exists(i) /\ InvitationsMove
  <2>1. CASE invitations'[i] = invitations[i]
    BY <1>3, <2>1 DEF InvitationsKnow, Exists
  <2>2. CASE IsSent(i)
    <3>1. PICK a \in Uids, e \in Addressees, grant \in Grants :
             invitations'[i] = [NoRow EXCEPT !.email = e, !.grant = Stored(grant), !.by = a]
      BY <2>2 DEF IsSent
    <3> QED
      BY <3>1, AccessAssumption DEF Exists, NoRow
  <2>3. ~Revocable(i) /\ ~Usable(i)
    BY <1>3 DEF Revocable, Usable, Outstanding
  <2> QED
    BY <1>3, <2>1, <2>2, <2>3, InvitationBecomes DEF Becomes
<1> QED
  BY <1>1, <1>2, <1>3, InvitationsStep

\* An invitation that is outstanding was so before, or it has just been sent and all
\* others to its address are taken back.
LEMMA OneOutstandingStays ==
    ASSUME TypeOK, InvitationsKnow, RequestsKnow, OneOutstanding, [Next]_vars
    PROVE  OneOutstanding'
<1>1. CASE UNCHANGED <<invitations, audits>>
  BY <1>1 DEF OneOutstanding, Outstanding, Exists
<1>2. ASSUME NEW a \in Uids, NEW i \in Invites, NEW e \in Addressees, NEW grant \in Grants,
             Invite(a, i, e, grant)
      PROVE  OneOutstanding'
  <2>1. invitations'[i].email = e
    BY <1>2 DEF Invite, NoRow
  <2>2. ASSUME NEW j \in Invites \ {i}, Outstanding(j)'
        PROVE  Outstanding(j) /\ invitations'[j].email = invitations[j].email /\ invitations[j].email # e
    <3>1. invitations'[j] = [invitations[j] EXCEPT !.revoked = @ \/ j \in TakenBack(e)]
      BY <1>2 DEF Invite
    <3>2. invitations[j] \in InvitationRows
      BY DEF TypeOK
    <3> QED
      BY <2>2, <3>1, <3>2 DEF Outstanding, Exists, TakenBack, InvitationRows
  <2> QED
    BY <2>1, <2>2 DEF OneOutstanding
<1>3. CASE \/ \E a \in Uids, i \in Invites : Revoke(a, i)
           \/ \E i \in Invites : Expire(i)
           \/ \E u \in Uids, i \in Invites, action \in {"accept", "register"} : Joins(u, i, action)
  <2>1. ASSUME NEW j \in Invites, Outstanding(j)'
        PROVE  Outstanding(j) /\ invitations'[j].email = invitations[j].email
    <3>1. ASSUME NEW a \in Uids, NEW i \in Invites, Revoke(a, i)
          PROVE  Outstanding(j) /\ invitations'[j].email = invitations[j].email
      BY <2>1, <3>1 DEF TypeOK, InvitationRows, Revoke, Outstanding, Exists
    <3>2. ASSUME NEW i \in Invites, Expire(i)
          PROVE  Outstanding(j) /\ invitations'[j].email = invitations[j].email
      BY <2>1, <3>2 DEF TypeOK, InvitationRows, Expire, Outstanding, Exists
    <3>3. ASSUME NEW u, NEW i \in Invites, NEW action, Joins(u, i, action)
          PROVE  Outstanding(j) /\ invitations'[j].email = invitations[j].email
      BY <2>1, <3>3 DEF TypeOK, InvitationRows, Joins, Outstanding, Exists
    <3> QED
      BY <1>3, <3>1, <3>2, <3>3
  <2> QED
    BY <2>1 DEF OneOutstanding
<1> QED
  BY <1>1, <1>2, <1>3, InvitationsStep DEF InvitationsMove

\* No step uses a link again.
LEMMA LinkUsedOnceStays ==
    ASSUME TypeOK, InvitationsKnow, RequestsKnow, LinkUsedOnce, [Next]_vars
    PROVE  LinkUsedOnce'
<1>1. CASE UNCHANGED <<invitations, audits>>
  BY <1>1 DEF LinkUsedOnce
<1>2. ASSUME UNCHANGED audits,
             \A i \in Invites : /\ invitations'[i].accepted <=> invitations[i].accepted
                                /\ invitations'[i].accepted /\ invitations'[i].revoked
                                      => invitations[i].revoked
      PROVE  LinkUsedOnce'
  BY <1>2 DEF LinkUsedOnce
<1>3. ASSUME NEW u \in Uids, NEW i \in Invites, NEW action \in {"accept", "register"},
             Usable(i), Joins(u, i, action)
      PROVE  LinkUsedOnce'
  <2>1. \A a \in audits : a.invite # i
    BY <1>3 DEF LinkUsedOnce, Usable, Outstanding
  <2>2. /\ invitations'[i].accepted /\ ~invitations'[i].revoked
        /\ \A j \in Invites \ {i} : invitations'[j] = invitations[j]
    BY <1>3 DEF TypeOK, InvitationRows, Joins, Usable, Outstanding
  <2>3. audits' = audits \cup {[uid |-> u, invite |-> i, action |-> action]}
    BY <1>3 DEF Joins
  <2> SUFFICES ASSUME NEW j \in Invites
               PROVE  /\ invitations'[j].accepted <=> \E a \in audits' : a.invite = j
                      /\ \A a, b \in audits' : a.invite = j /\ b.invite = j => a = b
                      /\ ~(invitations'[j].accepted /\ invitations'[j].revoked)
    BY DEF LinkUsedOnce
  <2>4. CASE j = i
    <3> DEFINE row == [uid |-> u, invite |-> i, action |-> action]
    <3>1. row \in audits' /\ row.invite = i
      BY <2>3
    <3>2. \A a \in audits' : a.invite = i => a = row
      BY <2>1, <2>3
    <3> QED
      BY <2>2, <2>4, <3>1, <3>2
  <2>5. CASE j # i
    BY <2>2, <2>3, <2>5 DEF LinkUsedOnce
  <2> QED
    BY <2>4, <2>5
<1>4. ASSUME NEW a \in Uids, NEW i \in Invites, NEW e \in Addressees, NEW grant \in Grants,
             Invite(a, i, e, grant)
      PROVE  LinkUsedOnce'
  <2>1. ASSUME NEW j \in Invites
        PROVE  /\ invitations'[j].accepted <=> invitations[j].accepted
               /\ invitations'[j].accepted /\ invitations'[j].revoked => invitations[j].revoked
    <3>1. CASE j = i
      <4>1. ~invitations'[j].accepted
        BY <1>4, <3>1, NoRowTyped DEF Invite, InvitationRows
      <4>2. ~invitations[j].accepted
        BY <1>4, <3>1 DEF Invite, InvitationsKnow
      <4> QED
        BY <4>1, <4>2
    <3>2. CASE j # i
      BY <1>4, <3>2 DEF TypeOK, InvitationRows, Invite, TakenBack, Outstanding
    <3> QED
      BY <3>1, <3>2
  <2> QED
    BY <1>2, <1>4, <2>1 DEF Invite
<1>5. ASSUME NEW i \in Invites, Expire(i) \/ \E a \in Uids : Revoke(a, i)
      PROVE  LinkUsedOnce'
  <2>1. ASSUME NEW j \in Invites
        PROVE  /\ invitations'[j].accepted <=> invitations[j].accepted
               /\ invitations'[j].accepted /\ invitations'[j].revoked => invitations[j].revoked
    BY <1>5 DEF TypeOK, InvitationRows, Expire, Revoke, Revocable
  <2> QED
    BY <1>2, <1>5, <2>1 DEF Expire, Revoke
<1> QED
  BY <1>1, <1>3, <1>4, <1>5, InvitationsStep DEF InvitationsMove

-----------------------------------------------------------------------------
(* Requests                                                                 *)

\* What ending does to a request.
LEMMA EndsStep ==
    ASSUME TypeOK, NEW w \in Workers, Ends(w)
    PROVE  /\ requests'[w].step = "over"
           /\ \A v \in Workers \ {w} : requests'[v] = requests[v]
  BY DEF TypeOK, Ends, Idle

\* What moving on does to a request.
LEMMA MovesStep ==
    ASSUME TypeOK, NEW w \in Workers, NEW step, Moves(w, step)
    PROVE  /\ requests'[w].step = step /\ requests'[w].uid = requests[w].uid
           /\ requests'[w].invite = requests[w].invite /\ requests'[w].email = requests[w].email
           /\ \A v \in Workers \ {w} : requests'[v] = requests[v]
  BY DEF TypeOK, RequestRows, Moves

\* An account that was made stays.
LEMMA AccountsKept ==
    ASSUME TypeOK, InvitationsKnow, RequestsKnow, [Next]_vars, NEW u \in Uids, accounts[u] # NoEmail
    PROVE  accounts'[u] # NoEmail
<1>1. ASSUME NEW a \in Uids, Manages(a)
      PROVE  accounts' = accounts
  BY <1>1 DEF Manages, ChangeMember, Revoke, Invite
<1>2. ASSUME NEW v \in Uids, NEW e \in Emails, ChangeEmail(v, e)
      PROVE  accounts'[u] # NoEmail
  BY <1>2, AccessAssumption DEF TypeOK, ChangeEmail
<1>3. ASSUME NEW w \in Workers, Serves(w)
      PROVE  accounts'[u] # NoEmail
  <2>1. ASSUME NEW v \in Uids, CreateAccount(w, v)
        PROVE  accounts'[u] # NoEmail
    BY <2>1 DEF TypeOK, CreateAccount
  <2> QED
    BY <1>3, <2>1 DEF Serves, Preflight, Authenticate, Accept, Look, CommitRegistration, Confirm, Crash
<1>4. CASE UNCHANGED vars
  BY <1>4 DEF vars
<1> QED
  BY <1>1, <1>2, <1>3, <1>4 DEF Next, Expire, SignIn, Disable

\* What one step makes of one request.
MakesAccount(w) ==
    \E u \in Uids :
        /\ requests[w].step = "creating" /\ accounts[u] = NoEmail
        /\ accounts' = [accounts EXCEPT ![u] = requests[w].email]
        /\ requests'[w] = [requests[w] EXCEPT !.step = "created", !.uid = u]

StartsWith(w) ==
    \E i \in Invites :
        Exists(i) /\ \/ requests'[w] = [step |-> "looking", uid |-> NoUid, invite |-> i,
                                       email |-> invitations[i].email]
                     \/ \E u \in Uids : /\ accounts[u] # NoEmail
                                       /\ requests'[w] = [step |-> "accepting", uid |-> u,
                                                          invite |-> i, email |-> accounts[u]]

\* moves on, with what it knows, and is registered only if the audit row says so
MovesOn(w) ==
    /\ requests'[w].uid = requests[w].uid /\ requests'[w].invite = requests[w].invite
    /\ requests'[w].email = requests[w].email
    /\ \/ requests[w].step = "looking" /\ requests'[w].step = "creating"
       \/ requests[w].step = "created" /\ requests'[w].step \in {"unsure", "denied"}
       \/ /\ requests[w].step \in {"created", "unsure", "denied"}
          /\ requests'[w].step = "registered"
          /\ [uid |-> requests[w].uid, invite |-> requests[w].invite, action |-> "register"]
                \in audits'
       \/ requests[w].step = "denied" /\ requests'[w].step = "refused"

\* What may become of one request.
LEMMA RequestBecomes ==
    ASSUME TypeOK, InvitationsKnow, RequestsKnow, [Next]_vars, NEW w \in Workers
    PROVE  \/ requests'[w] = requests[w]
           \/ /\ \A v \in Workers \ {w} : requests'[v] = requests[v]
              /\ requests'[w].step = "over" \/ MakesAccount(w) \/ StartsWith(w) \/ MovesOn(w)
<1>1. ASSUME NEW v \in Workers, Serves(v)
      PROVE  /\ \A x \in Workers \ {v} : requests'[x] = requests[x]
             /\ requests'[v].step = "over" \/ MakesAccount(v) \/ StartsWith(v) \/ MovesOn(v)
  <2>1. ASSUME NEW i \in Invites, Preflight(v, i)
        PROVE  StartsWith(v) /\ \A x \in Workers \ {v} : requests'[x] = requests[x]
    BY <2>1 DEF TypeOK, Preflight, StartsWith, Usable, Outstanding
  <2>2. ASSUME NEW i \in Invites, NEW u \in Uids, Authenticate(v, u, i)
        PROVE  StartsWith(v) /\ \A x \in Workers \ {v} : requests'[x] = requests[x]
    BY <2>2 DEF TypeOK, Authenticate, FollowsAccount, StartsWith
  <2>3. ASSUME NEW u \in Uids, CreateAccount(v, u)
        PROVE  /\ requests'[v].step = "over" \/ MakesAccount(v)
               /\ \A x \in Workers \ {v} : requests'[x] = requests[x]
    <3>1. CASE Ends(v)
      BY <3>1, EndsStep
    <3>2. CASE /\ requests' = [requests EXCEPT ![v].step = "created", ![v].uid = u]
               /\ accounts' = [accounts EXCEPT ![u] = requests[v].email]
      BY <2>3, <3>2 DEF TypeOK, CreateAccount, MakesAccount
    <3> QED
      BY <2>3, <3>1, <3>2 DEF CreateAccount
  <2>4. CASE Accept(v) \/ Crash(v)
    BY <2>4, EndsStep DEF Accept, Crash
  <2>5. CASE Look(v)
    BY <2>5, EndsStep, MovesStep DEF Look, MovesOn
  <2>6. CASE CommitRegistration(v)
    <3>1. CASE Moves(v, "unsure") \/ Moves(v, "denied")
      BY <2>6, <3>1, RegisterJoins, MovesStep DEF MovesOn
    <3>2. CASE Moves(v, "registered") /\ Joins(requests[v].uid, requests[v].invite, "register")
      <4>1. [uid |-> requests[v].uid, invite |-> requests[v].invite, action |-> "register"]
              \in audits'
        BY <3>2 DEF Joins
      <4> QED
        BY <2>6, <3>2, <4>1, RegisterJoins, MovesStep DEF MovesOn
    <3> QED
      BY <2>6, <3>1, <3>2, RegisterJoins
  <2>7. CASE Confirm(v)
    <3>1. CASE Moves(v, "registered") /\ Registered(requests[v].uid, requests[v].invite)
      BY <2>7, <3>1, MovesStep DEF Confirm, MovesOn, Registered
    <3>2. CASE Moves(v, "refused") /\ requests[v].step = "denied"
      BY <3>2, MovesStep DEF MovesOn
    <3>3. CASE Moves(v, "over")
      BY <3>3, MovesStep
    <3> QED
      BY <2>7, <3>1, <3>2, <3>3 DEF Confirm
  <2> QED
    BY <1>1, <2>1, <2>2, <2>3, <2>4, <2>5, <2>6, <2>7 DEF Serves
<1>2. ASSUME NEW a \in Uids, Manages(a)
      PROVE  requests' = requests
  BY <1>2 DEF Manages, ChangeMember, Revoke, Invite
<1>3. CASE UNCHANGED vars
  BY <1>3 DEF vars
<1>4. CASE \E v \in Workers : Serves(v)
  <2>1. PICK v \in Workers : Serves(v)
    BY <1>4
  <2>2. CASE v = w
    BY <1>1, <2>1, <2>2
  <2>3. CASE v # w
    BY <1>1, <2>1, <2>3
  <2> QED
    BY <2>2, <2>3
<1> QED
  BY <1>2, <1>3, <1>4 DEF Next, Expire, SignIn, Disable, ChangeEmail

\* What requests know stays so.
LEMMA RequestsKnowStays ==
    ASSUME TypeOK, InvitationsKnow, RequestsKnow, [Next]_vars
    PROVE  RequestsKnow'
<1> USE DEF Underway, Registering
<1> SUFFICES ASSUME NEW w \in Workers
             PROVE  LET r == requests'[w] IN
                    /\ r.step \in Underway \cup Registering =>
                          r.invite \in Invites /\ invitations'[r.invite].email # NoEmail
                    /\ r.step \in {"looking", "creating", "created"} =>
                          r.email = invitations'[r.invite].email
                    /\ r.step \in Registering => r.uid \in Uids /\ accounts'[r.uid] # NoEmail
                    /\ r.step = "accepting" => r.uid \in Uids
  BY DEF RequestsKnow, Exists
<1>1. ASSUME NEW i \in Invites, Exists(i)
      PROVE  invitations'[i].email # NoEmail /\ invitations'[i].email = invitations[i].email
  BY <1>1, InvitationsKept DEF Exists
<1>2. CASE requests'[w] = requests[w]
  BY <1>1, <1>2, AccountsKept DEF RequestsKnow
<1>3. CASE MakesAccount(w)
  <2>1. PICK u \in Uids :
           /\ requests[w].step = "creating" /\ accounts[u] = NoEmail
           /\ accounts' = [accounts EXCEPT ![u] = requests[w].email]
           /\ requests'[w] = [requests[w] EXCEPT !.step = "created", !.uid = u]
    BY <1>3 DEF MakesAccount
  <2>2. /\ requests[w] \in RequestRows /\ requests[w].email \in Emails
        /\ requests[w].invite \in Invites /\ Exists(requests[w].invite)
        /\ requests[w].email = invitations[requests[w].invite].email
    BY <2>1, RequestKnows DEF RequestsKnow
  <2>3. /\ requests'[w].step = "created" /\ requests'[w].uid = u
        /\ requests'[w].invite = requests[w].invite /\ requests'[w].email = requests[w].email
    BY <2>1, <2>2 DEF RequestRows
  <2>4. accounts'[u] # NoEmail
    BY <2>1, <2>2, AccessAssumption DEF TypeOK
  <2> QED
    BY <1>1, <2>2, <2>3, <2>4
<1>4. CASE StartsWith(w)
  <2>1. PICK i \in Invites :
           Exists(i) /\ \/ requests'[w] = [step |-> "looking", uid |-> NoUid, invite |-> i,
                                          email |-> invitations[i].email]
                        \/ \E u \in Uids : requests'[w] = [step |-> "accepting", uid |-> u,
                                                           invite |-> i, email |-> accounts[u]]
    BY <1>4 DEF StartsWith
  <2>2. CASE requests'[w] = [step |-> "looking", uid |-> NoUid, invite |-> i,
                             email |-> invitations[i].email]
    BY <1>1, <2>1, <2>2
  <2>3. ASSUME NEW u \in Uids, requests'[w] = [step |-> "accepting", uid |-> u,
                                               invite |-> i, email |-> accounts[u]]
        PROVE  /\ requests'[w].step = "accepting" /\ requests'[w].uid \in Uids
               /\ requests'[w].invite = i
    BY <2>3
  <2> QED
    BY <1>1, <2>1, <2>2, <2>3
<1>5. CASE MovesOn(w)
  BY <1>1, <1>5, AccountsKept DEF MovesOn, RequestsKnow
<1>6. CASE requests'[w].step = "over"
  BY <1>6
<1> QED
  BY <1>2, <1>3, <1>4, <1>5, <1>6, RequestBecomes

\* A request does not start in the middle of a registration.
LEMMA StartsUnregistered ==
    ASSUME NEW w \in Workers, StartsWith(w)
    PROVE  requests'[w].step \notin Registering
<1>1. PICK i \in Invites :
         \/ requests'[w] = [step |-> "looking", uid |-> NoUid, invite |-> i,
                            email |-> invitations[i].email]
         \/ \E u \in Uids : /\ accounts[u] # NoEmail
                            /\ requests'[w] = [step |-> "accepting", uid |-> u,
                                               invite |-> i, email |-> accounts[u]]
  BY DEF StartsWith
<1>2. CASE requests'[w] = [step |-> "looking", uid |-> NoUid, invite |-> i,
                           email |-> invitations[i].email]
  BY <1>2 DEF Registering
<1>3. ASSUME NEW u \in Uids,
             requests'[w] = [step |-> "accepting", uid |-> u, invite |-> i, email |-> accounts[u]]
      PROVE  requests'[w].step \notin Registering
  BY <1>3 DEF Registering
<1> QED
  BY <1>1, <1>2, <1>3

\* Every registration goes on with an account of its own.
LEMMA OwnAccountsStays ==
    ASSUME TypeOK, InvitationsKnow, RequestsKnow, OwnAccounts, [Next]_vars
    PROVE  OwnAccounts'
<1> USE DEF Registering
<1>1. ASSUME NEW v \in Workers, NEW w \in Workers, v # w, requests'[v] = requests[v],
             requests'[v].step \in Registering, requests'[w].step \in Registering
      PROVE  requests'[v].uid # requests'[w].uid
  <2>1. CASE requests'[w] = requests[w]
    BY <1>1, <2>1 DEF OwnAccounts
  <2>2. CASE MakesAccount(w)
    <3>1. PICK u \in Uids :
             accounts[u] = NoEmail /\ requests'[w] = [requests[w] EXCEPT !.step = "created", !.uid = u]
      BY <2>2 DEF MakesAccount
    <3>2. requests'[w].uid = u
      BY <3>1 DEF TypeOK, RequestRows
    <3>3. accounts[requests[v].uid] # NoEmail
      BY <1>1 DEF RequestsKnow
    <3> QED
      BY <1>1, <3>1, <3>2, <3>3
  <2>3. CASE StartsWith(w)
    BY <1>1, <2>3, StartsUnregistered
  <2>4. CASE MovesOn(w)
    <3>1. requests[w].step \in Registering /\ requests'[w].uid = requests[w].uid
      BY <1>1, <2>4 DEF MovesOn
    <3>2. requests[v].step \in Registering /\ requests'[v].uid = requests[v].uid
      BY <1>1
    <3> QED
      BY <1>1, <3>1, <3>2 DEF OwnAccounts
  <2> QED
    BY <1>1, <2>1, <2>2, <2>3, <2>4, RequestBecomes
<1>2. ASSUME NEW v \in Workers, NEW w \in Workers, v # w
      PROVE  requests'[v] = requests[v] \/ requests'[w] = requests[w]
  BY <1>2, RequestBecomes
<1> QED
  BY <1>1, <1>2 DEF OwnAccounts


-----------------------------------------------------------------------------
(* Registrations and what is said of them                                   *)

\* A row of AuditLog is written in the steps of a request that joins.
LEMMA AuditsStep ==
    ASSUME TypeOK, InvitationsKnow, RequestsKnow, [Next]_vars, NEW a \in audits' \ audits,
           a.action = "register"
    PROVE  \E w \in Workers :
              /\ requests[w].step = "created" /\ a.uid = requests[w].uid
              /\ a.invite = requests[w].invite
              /\ requests'[w].step \in {"unsure", "registered"}
<1>1. ASSUME NEW w \in Workers, Accept(w)
      PROVE  FALSE
  <2>1. UNCHANGED audits \/ audits' = audits \cup {[uid |-> requests[w].uid,
                                  invite |-> requests[w].invite, action |-> "accept"]}
    BY <1>1, AcceptJoins DEF Joins
  <2> QED
    BY <2>1
<1>2. ASSUME NEW w \in Workers, CommitRegistration(w)
      PROVE  /\ requests[w].step = "created" /\ a.uid = requests[w].uid
             /\ a.invite = requests[w].invite
             /\ requests'[w].step \in {"unsure", "registered"}
  <2>1. CASE UNCHANGED audits
    BY <2>1
  <2>2. CASE Joins(requests[w].uid, requests[w].invite, "register")
             /\ (Moves(w, "registered") \/ Moves(w, "unsure"))
    <3>1. a = [uid |-> requests[w].uid, invite |-> requests[w].invite, action |-> "register"]
      BY <2>2 DEF Joins
    <3>2. requests'[w].step \in {"unsure", "registered"}
      BY <2>2, MovesStep
    <3> QED
      BY <1>2, <3>1, <3>2 DEF CommitRegistration
  <2> QED
    BY <1>2, <2>1, <2>2, RegisterJoins
<1>3. ASSUME NEW w \in Workers, Serves(w)
      PROVE  Accept(w) \/ CommitRegistration(w) \/ UNCHANGED audits
  BY <1>3 DEF Serves, Preflight, Authenticate, CreateAccount, Look, Confirm, Crash
<1>4. ASSUME NEW b \in Uids, Manages(b)
      PROVE  UNCHANGED audits
  BY <1>4 DEF Manages, ChangeMember, Revoke, Invite
<1>5. CASE UNCHANGED vars
  BY <1>5 DEF vars
<1> QED
  BY <1>1, <1>2, <1>3, <1>4, <1>5 DEF Next, Expire, SignIn, Disable, ChangeEmail

\* The audit log only grows.
LEMMA AuditsKept ==
    ASSUME TypeOK, InvitationsKnow, RequestsKnow, [Next]_vars
    PROVE  audits \subseteq audits'
<1>1. CASE InvitationsMove
  BY <1>1 DEF InvitationsMove, Joins, Invite, Revoke, Expire
<1> QED
  BY <1>1, InvitationsStep

\* Who is registered goes on having an account.
LEMMA RegisteredStays ==
    ASSUME TypeOK, TypeOK', InvitationsKnow, RequestsKnow, OwnAccounts, RegisteredHaveAccounts,
           [Next]_vars
    PROVE  RegisteredHaveAccounts'
<1>1. ASSUME NEW a \in audits', a.action = "register"
      PROVE  accounts'[a.uid] # NoEmail
  <2>1. CASE a \in audits
    <3>1. a.uid \in Uids /\ accounts[a.uid] # NoEmail
      BY <1>1, <2>1 DEF TypeOK, AuditRows, RegisteredHaveAccounts
    <3> QED
      BY <3>1, AccountsKept
  <2>2. CASE a \notin audits
    <3>1. PICK w \in Workers : requests[w].step = "created" /\ a.uid = requests[w].uid
      BY <1>1, <2>2, AuditsStep
    <3>2. a.uid \in Uids /\ accounts[a.uid] # NoEmail
      BY <3>1 DEF RequestsKnow, Registering
    <3> QED
      BY <3>2, AccountsKept
  <2> QED
    BY <2>1, <2>2
<1>2. ASSUME NEW w \in Workers, NEW a \in audits', requests'[w].step = "created",
             a.action = "register", a.uid = requests'[w].uid
      PROVE  FALSE
  <2>1. CASE requests'[w] = requests[w]
    <3>1. a \notin audits
      BY <1>2, <2>1 DEF RegisteredHaveAccounts
    <3>2. PICK v \in Workers : /\ requests[v].step = "created" /\ a.uid = requests[v].uid
                               /\ requests'[v].step \in {"unsure", "registered"}
      BY <1>2, <3>1, AuditsStep
    <3>3. v = w
      BY <1>2, <2>1, <3>2 DEF OwnAccounts, Registering
    <3> QED
      BY <1>2, <3>2, <3>3
  <2>2. CASE requests'[w] # requests[w]
    <3>1. MakesAccount(w)
      <4>1. ~StartsWith(w)
        BY <1>2, StartsUnregistered DEF Registering
      <4>2. ~MovesOn(w) /\ requests'[w].step # "over"
        BY <1>2 DEF MovesOn
      <4> QED
        BY <2>2, <4>1, <4>2, RequestBecomes
    <3>2. PICK u \in Uids :
             /\ requests[w].step = "creating" /\ accounts[u] = NoEmail
             /\ requests'[w] = [requests[w] EXCEPT !.step = "created", !.uid = u]
      BY <3>1 DEF MakesAccount
    <3>3. a.uid = u
      BY <1>2, <3>2 DEF TypeOK, RequestRows
    <3>4. a \notin audits
      BY <1>2, <3>2, <3>3 DEF RegisteredHaveAccounts
    <3>5. PICK v \in Workers : requests[v].step = "created" /\ a.uid = requests[v].uid
      BY <1>2, <3>4, AuditsStep
    <3> QED
      BY <3>2, <3>3, <3>5 DEF RequestsKnow, Registering
  <2> QED
    BY <2>1, <2>2
<1> QED
  BY <1>1, <1>2 DEF RegisteredHaveAccounts

\* Registered is what the audit row says; nobody whose request was denied has one.
Joined(w) == \E a \in audits : /\ a.uid = requests[w].uid /\ a.action = "register"
                               /\ a.invite = requests[w].invite

\* What was answered stays true.
LEMMA AnswersStay ==
    ASSUME TypeOK, InvitationsKnow, RequestsKnow, OwnAccounts, RegisteredHaveAccounts,
           AnswersAreTrue, [Next]_vars
    PROVE  AnswersAreTrue'
<1> SUFFICES ASSUME NEW w \in Workers
             PROVE  /\ requests'[w].step = "registered" => Joined(w)'
                    /\ requests'[w].step \in {"denied", "refused"} => ~Joined(w)'
  BY DEF AnswersAreTrue, Joined
<1>1. /\ requests[w].step = "registered" => Joined(w)
      /\ requests[w].step \in {"denied", "refused"} => ~Joined(w)
      /\ requests[w].step = "created" => ~Joined(w)
  BY DEF AnswersAreTrue, Joined, RegisteredHaveAccounts
<1>2. ASSUME requests'[w].uid = requests[w].uid, requests'[w].invite = requests[w].invite
      PROVE  Joined(w) => Joined(w)'
  BY <1>2, AuditsKept DEF Joined
<1>3. ASSUME requests'[w].uid = requests[w].uid, requests'[w].invite = requests[w].invite,
             requests[w].step \in Registering, requests'[w].step \in {"denied", "refused"},
             Joined(w)'
      PROVE  Joined(w)
  <2>1. PICK a \in audits' : /\ a.uid = requests[w].uid /\ a.action = "register"
                             /\ a.invite = requests[w].invite
    BY <1>3 DEF Joined
  <2>2. CASE a \in audits
    BY <2>1, <2>2 DEF Joined
  <2>3. CASE a \notin audits
    <3>1. PICK v \in Workers : /\ requests[v].step = "created" /\ a.uid = requests[v].uid
                               /\ requests'[v].step \in {"unsure", "registered"}
      BY <2>1, <2>3, AuditsStep
    <3>2. v = w
      BY <1>3, <2>1, <3>1 DEF OwnAccounts, Registering
    <3> QED
      BY <1>3, <3>1, <3>2
  <2> QED
    BY <2>2, <2>3
<1>4. CASE requests'[w] = requests[w]
  BY <1>1, <1>2, <1>3, <1>4 DEF Registering
<1>5. CASE MakesAccount(w)
  <2>1. requests'[w].step = "created"
    BY <1>5 DEF MakesAccount, TypeOK, RequestRows
  <2> QED
    BY <2>1
<1>6. CASE StartsWith(w)
  BY <1>6, StartsUnregistered DEF Registering
<1>7. CASE MovesOn(w)
  <2>1. requests'[w].uid = requests[w].uid /\ requests'[w].invite = requests[w].invite
    BY <1>7 DEF MovesOn
  <2>2. CASE requests'[w].step = "registered"
    <3>1. [uid |-> requests[w].uid, invite |-> requests[w].invite, action |-> "register"]
            \in audits'
      BY <1>7, <2>2 DEF MovesOn
    <3> QED
      BY <2>1, <2>2, <3>1 DEF Joined
  <2>3. CASE requests'[w].step \in {"denied", "refused"}
    <3>1. requests[w].step \in {"created", "denied"}
      BY <1>7, <2>3 DEF MovesOn
    <3> QED
      BY <1>1, <1>3, <2>1, <2>3, <3>1 DEF Registering
  <2> QED
    BY <2>2, <2>3
<1> QED
  BY <1>4, <1>5, <1>6, <1>7, RequestBecomes

-----------------------------------------------------------------------------
(* Rights                                                                   *)

\* A grant never says more than the permissions there are, in the salons there are.
LEMMA RightsBounded ==
    ASSUME NEW grant \in GrantRecords
    PROVE  /\ PermissionsOf(grant) \subseteq PERMISSIONS
           /\ Rights(grant) \subseteq (PERMISSIONS \cup {"owner"}) \X Salons
<1>1. Granted(grant) \subseteq PERMISSIONS
  <2>1. {"reservation.write", "customer.write", "checkout.write", "chart.write"} \subseteq Writes
    BY DEF Writes
  <2>2. \A role \in Roles : RolePermissions[role] \subseteq PERMISSIONS
    BY <2>1 DEF Roles, RolePermissions, ReadPermissions, PERMISSIONS
  <2>3. grant.role \in Roles /\ grant.permissions \subseteq PERMISSIONS
    BY DEF GrantRecords
  <2> QED
    BY <2>2, <2>3 DEF Granted
<1>2. \A p \in PERMISSIONS : RequiredRead(p) \in PERMISSIONS
  BY DEF RequiredRead, PERMISSIONS, ReadOnly, Writes
<1>3. PermissionsOf(grant) \subseteq PERMISSIONS
  BY <1>1, <1>2 DEF PermissionsOf
<1> QED
  BY <1>3 DEF Rights, GrantRecords

\* Who may give something holds it: the comparison of assertAccessAssignment.
LEMMA GivenRightsAreHeld ==
    ASSUME NEW m \in MemberRows, NEW current, NEW grant \in GrantRecords,
           AssignmentAllowed(m, current, grant)
    PROVE  /\ m.status = "ACTIVE"
           /\ Rights(Stored(grant)) \subseteq Rights(m.grant)
<1>1. m.status = "ACTIVE" /\ m.grant \in GrantRecords
  BY DEF AssignmentAllowed, EffectivePermissions, MemberRows
<1>2. CASE m.grant.role = "OWNER"
  <2>1. Rights(m.grant) = (PERMISSIONS \cup {"owner"}) \X Salons
    BY <1>2 DEF Rights, PermissionsOf, ScopeOf
  <2> QED
    BY <1>1, <2>1, StoredTyped, RightsBounded
<1>3. CASE m.grant.role # "OWNER"
  <2>1. /\ grant.role # "OWNER" /\ PermissionsOf(grant) \subseteq PermissionsOf(m.grant)
        /\ Within(ScopeOf(m.grant), grant.salons)
    BY <1>1, <1>3 DEF AssignmentAllowed, EffectivePermissions
  <2>2. Stored(grant) = grant
    BY <2>1 DEF Stored
  <2>3. /\ ScopeOf(m.grant) = m.grant.salons /\ ScopeOf(grant) = grant.salons
        /\ grant.salons \subseteq Salons /\ m.grant.salons \subseteq Salons
    BY <1>1, <1>3, <2>1 DEF ScopeOf, GrantRecords
  <2>4. (IF ScopeOf(grant) = {} THEN Salons ELSE grant.salons)
           \subseteq (IF ScopeOf(m.grant) = {} THEN Salons ELSE m.grant.salons)
    BY <2>1, <2>3 DEF Within
  <2> QED
    BY <1>1, <1>3, <2>1, <2>2, <2>4 DEF Rights
<1> QED
  BY <1>2, <1>3

AllGiven == UNION {Rights(grant) : grant \in given}

\* What a member gives was given to the member, or an owner gives it.
LEMMA GivenByMember ==
    ASSUME TypeOK, RightsAreGiven, NEW a \in Uids, NEW current, NEW grant \in GrantRecords,
           AssignmentAllowed(members[a], current, grant), Gives(a, grant)
    PROVE  /\ Rights(Stored(grant)) \subseteq AllGiven'
           /\ AllGiven \subseteq AllGiven'
<1>1. given \subseteq given'
  BY DEF Gives
<1>2. AllGiven \subseteq AllGiven'
  BY <1>1 DEF AllGiven
<1>3. members[a] \in MemberRows
  BY DEF TypeOK
<1>4. CASE members[a].grant.role = "OWNER"
  <2>1. Stored(grant) \in given'
    BY <1>4 DEF Gives
  <2> QED
    BY <1>2, <2>1 DEF AllGiven
<1>5. CASE members[a].grant.role # "OWNER"
  <2>1. IsMember(a) /\ Rights(Stored(grant)) \subseteq Rights(members[a].grant)
    BY <1>3, GivenRightsAreHeld DEF IsMember
  <2>2. Rights(members[a].grant) \subseteq AllGiven
    BY <1>5, <2>1 DEF RightsAreGiven, AllGiven
  <2> QED
    BY <1>2, <2>1, <2>2
<1> QED
  BY <1>4, <1>5

\* An acceptance or a registration as it may be.
Admits(u, i) ==
    /\ Usable(i) /\ InviterMayStillInvite(i) /\ invitations[i].by # u
    /\ \E action \in {"accept", "register"} : Joins(u, i, action)
    /\ ~IsMember(u) /\ users'[u].email = invitations[i].email

\* How members, and what is given, can change.
LEMMA MembersStep ==
    ASSUME TypeOK, InvitationsKnow, RequestsKnow, [Next]_vars
    PROVE  \/ /\ UNCHANGED <<members, given, audits>>
              /\ \A i \in Invites : invitations'[i].accepted => invitations[i].accepted
           \/ \E a, u \in Uids, grant \in Grants, status \in {"ACTIVE", "SUSPENDED"} :
                 ChangeMember(a, u, grant, status)
           \/ \E u \in Uids, i \in Invites : Admits(u, i)
<1>1. ASSUME NEW w \in Workers, Accept(w)
      PROVE  \/ UNCHANGED <<members, given, audits, invitations>>
             \/ \E u \in Uids, i \in Invites : Admits(u, i)
  BY <1>1, AcceptJoins DEF AcceptAllowed, AddressedTo, Admits
<1>2. ASSUME NEW w \in Workers, CommitRegistration(w)
      PROVE  \/ UNCHANGED <<members, given, audits, invitations>>
             \/ \E u \in Uids, i \in Invites : Admits(u, i)
  <2> DEFINE u == requests[w].uid
             i == requests[w].invite
             e == requests[w].email
  <2>1. u \in Uids /\ i \in Invites /\ e = invitations[i].email
    BY <1>2, RegisterJoins
  <2>2. CASE /\ RegisterAllowed(u, i, e) /\ Joins(u, i, "register")
             /\ users' = [users EXCEPT ![u].email = e]
    <3>1. users'[u].email = e
      BY <2>1, <2>2 DEF TypeOK
    <3> QED
      BY <2>1, <2>2, <3>1 DEF RegisterAllowed, Admits
  <2> QED
    BY <1>2, <2>2, RegisterJoins
<1>3. ASSUME NEW w \in Workers, Serves(w)
      PROVE  \/ UNCHANGED <<members, given, audits, invitations>>
             \/ \E u \in Uids, i \in Invites : Admits(u, i)
  BY <1>1, <1>2, <1>3 DEF Serves, Preflight, Authenticate, CreateAccount, Look, Confirm, Crash
<1>4. ASSUME NEW a \in Uids, NEW i \in Invites, NEW e \in Addressees, NEW grant \in Grants,
             Invite(a, i, e, grant)
      PROVE  /\ UNCHANGED <<members, given, audits>>
             /\ \A j \in Invites : invitations'[j].accepted => invitations[j].accepted
  <2>1. ASSUME NEW j \in Invites
        PROVE  invitations'[j].accepted => invitations[j].accepted
    <3>1. CASE j = i
      BY <1>4, <3>1, NoRowTyped DEF Invite, InvitationRows
    <3>2. CASE j # i
      BY <1>4, <3>2 DEF TypeOK, InvitationRows, Invite
    <3> QED
      BY <3>1, <3>2
  <2> QED
    BY <1>4, <2>1 DEF Invite
<1>5. ASSUME NEW i \in Invites, Expire(i) \/ \E a \in Uids : Revoke(a, i)
      PROVE  /\ UNCHANGED <<members, given, audits>>
             /\ \A j \in Invites : invitations'[j].accepted => invitations[j].accepted
  BY <1>5 DEF TypeOK, InvitationRows, Expire, Revoke
<1>6. CASE UNCHANGED vars
  BY <1>6 DEF vars
<1> QED
  BY <1>3, <1>4, <1>5, <1>6 DEF Next, Manages, SignIn, Disable, ChangeEmail

\* Nobody gets rights that were not given.
LEMMA RightsAreGivenStays ==
    ASSUME TypeOK, InvitationsKnow, RequestsKnow, RightsAreGiven, [Next]_vars
    PROVE  RightsAreGiven'
<1>1. CASE UNCHANGED <<members, given>>
  BY <1>1 DEF RightsAreGiven, IsMember
<1>2. ASSUME NEW a \in Uids, NEW u \in Uids, NEW current, NEW grant \in GrantRecords, NEW status,
             AssignmentAllowed(members[a], current, grant), Gives(a, grant),
             members' = [members EXCEPT ![u] = [status |-> status, grant |-> Stored(grant)]]
      PROVE  RightsAreGiven'
  <2>1. /\ Rights(Stored(grant)) \subseteq AllGiven' /\ AllGiven \subseteq AllGiven'
    BY <1>2, GivenByMember
  <2>2. members'[u].grant = Stored(grant) /\ \A v \in Uids \ {u} : members'[v] = members[v]
    BY <1>2 DEF TypeOK
  <2> QED
    BY <2>1, <2>2 DEF RightsAreGiven, IsMember, AllGiven
<1>3. ASSUME NEW a \in Uids, NEW u \in Uids, NEW grant \in Grants, NEW status,
             ChangeMember(a, u, grant, status)
      PROVE  RightsAreGiven'
  BY <1>2, <1>3, AccessAssumption DEF ChangeMember
<1>4. ASSUME NEW u \in Uids, NEW i \in Invites, Admits(u, i)
      PROVE  RightsAreGiven'
  <2>1. invitations[i].by \in Uids /\ invitations[i].grant \in GrantRecords
    BY <1>4 DEF TypeOK, InvitationRows, InvitationsKnow, Admits, Usable, Outstanding
  <2> QED
    BY <1>2, <1>4, <2>1 DEF Admits, InviterMayStillInvite, Joins
<1> QED
  BY <1>1, <1>3, <1>4, MembersStep

-----------------------------------------------------------------------------
(* The theorems                                                             *)

\* At the start the invariant holds.
LEMMA InvInitially == Init => AccessInv
<1> SUFFICES ASSUME Init
             PROVE  AccessInv
  OBVIOUS
<1> USE AccessAssumption
<1>1. TypeOK
  <2>1. given \subseteq GrantRecords
    BY DEF Init, FirstOthers, MemberRows
  <2>2. /\ invitations \in [Invites -> InvitationRows]
        /\ requests \in [Workers -> RequestRows]
    BY NoRowTyped, RequestsTyped DEF Init
  <2>3. /\ users \in [Uids -> [email: Emails \cup {NoEmail}, disabled: BOOLEAN]]
        /\ accounts \in [Uids -> Emails \cup {NoEmail}]
    BY DEF Init
  <2> QED
    BY <2>1, <2>2, <2>3 DEF Init, TypeOK
<1>2. \A i \in Invites : ~Exists(i) /\ ~invitations[i].accepted /\ ~invitations[i].revoked
  BY NoRowTyped DEF Init, Exists
<1>3. InvitationsKnow /\ OneOutstanding
  BY <1>2 DEF InvitationsKnow, OneOutstanding, Outstanding
<1>4. LinkUsedOnce
  BY <1>2 DEF LinkUsedOnce, Init
<1>5. \A w \in Workers : requests[w].step = "idle"
  BY DEF Init, Idle
<1>6. RequestsKnow /\ OwnAccounts /\ RegisteredHaveAccounts /\ AnswersAreTrue
  BY <1>5 DEF Init, RequestsKnow, OwnAccounts, RegisteredHaveAccounts, AnswersAreTrue,
              Registering, Underway
<1>7. RightsAreGiven
  <2>1. ASSUME NEW u \in Uids, IsMember(u), u \notin FirstOwners
        PROVE  members[u].grant \in given
    BY <2>1 DEF Init, IsMember, FirstOthers
  <2>2. ASSUME NEW u \in FirstOwners
        PROVE  members[u].grant.role = "OWNER"
    BY DEF Init, FirstOwners
  <2> QED
    BY <2>1, <2>2 DEF RightsAreGiven
<1> QED
  BY <1>1, <1>3, <1>4, <1>6, <1>7 DEF AccessInv

\* The invariant of access management: invitations are used once and one at a time,
\* requests know what they are about and own the accounts they made, and rights come
\* from an owner (access-routes.ts, invitation-registration.ts).
THEOREM InvariantHolds == Spec => []AccessInv
<1>1. Init => AccessInv
  BY InvInitially
<1>2. AccessInv /\ [Next]_vars => AccessInv'
  <2> SUFFICES ASSUME AccessInv, [Next]_vars
               PROVE  AccessInv'
    OBVIOUS
  <2>1. TypeOK'
    BY TypesStay DEF AccessInv
  <2> QED
    BY <2>1, InvitationsKnowStays, OneOutstandingStays, LinkUsedOnceStays, RequestsKnowStays,
       OwnAccountsStays, RegisteredStays, AnswersStay, RightsAreGivenStays DEF AccessInv
<1> QED
  BY <1>1, <1>2, PTL DEF Spec

\* Type correctness of access management.
THEOREM TypesHold == Spec => []TypeOK
<1>1. AccessInv => TypeOK
  BY DEF AccessInv
<1> QED
  BY <1>1, InvariantHolds, PTL

\* A link is accepted once, by one person and one route, and not if it was revoked.
THEOREM LinksAreUsedOnce == Spec => []LinkUsedOnce
<1>1. AccessInv => LinkUsedOnce
  BY DEF AccessInv
<1> QED
  BY <1>1, InvariantHolds, PTL

\* At most one link to an address works.
THEOREM OneLinkWorks == Spec => []OneWorkingLink
<1>1. AccessInv => OneWorkingLink
  BY DEF AccessInv, OneOutstanding, OneWorkingLink, Usable
<1> QED
  BY <1>1, InvariantHolds, PTL

\* No sequence of changes, invitations and acceptances gives a right, or a salon, that
\* no owner gave (assertAccessAssignment).
THEOREM RightsComeFromOwners == Spec => []RightsAreGiven
<1>1. AccessInv => RightsAreGiven
  BY DEF AccessInv
<1> QED
  BY <1>1, InvariantHolds, PTL

\* Who is told registered has joined, and who is told refused has not.
THEOREM AnswersStayTrue == Spec => []AnswersAreTrue
<1>1. AccessInv => AnswersAreTrue
  BY DEF AccessInv
<1> QED
  BY <1>1, InvariantHolds, PTL

\* A step that marks an invitation accepted is one that admits a person with it.
LEMMA AdmittedWithIt ==
    ASSUME AccessInv, [Next]_vars, NEW i \in Invites,
           invitations'[i].accepted, ~invitations[i].accepted
    PROVE  \E u \in Uids : Admits(u, i)
<1> USE DEF AccessInv
<1>1. ASSUME NEW a \in Uids, NEW u \in Uids, NEW grant \in Grants, NEW status,
             ChangeMember(a, u, grant, status)
      PROVE  FALSE
  BY <1>1 DEF ChangeMember
<1>2. ASSUME NEW u \in Uids, NEW j \in Invites, Admits(u, j)
      PROVE  i = j
  BY <1>2 DEF Admits, Joins, TypeOK
<1> QED
  BY <1>1, <1>2, MembersStep

\* The step that admits a person is entitled by the sender's rights.
LEMMA SenderIsEntitledInStep ==
    ASSUME AccessInv, [Next]_vars, NEW i \in Invites,
           invitations'[i].accepted, ~invitations[i].accepted
    PROVE  LET g == invitations[i].by IN
           /\ ~users[g].disabled /\ "access.manage" \in EffectivePermissions(members[g])
           /\ \A u \in Uids : members'[u] # members[u] =>
                 u # g /\ Rights(members'[u].grant) \subseteq Rights(members[g].grant)
<1> USE DEF AccessInv
<1> DEFINE g == invitations[i].by
<1>1. PICK v \in Uids : Admits(v, i)
  BY AdmittedWithIt
<1>2. /\ g \in Uids /\ members[g] \in MemberRows /\ invitations[i].grant \in GrantRecords
      /\ g # v
  BY <1>1 DEF TypeOK, InvitationRows, InvitationsKnow, Admits, Usable, Outstanding
<1>3. ~users[g].disabled /\ AssignmentAllowed(members[g], {}, invitations[i].grant)
  BY <1>1 DEF Admits, InviterMayStillInvite
<1>4. Rights(Stored(invitations[i].grant)) \subseteq Rights(members[g].grant)
  BY <1>2, <1>3, GivenRightsAreHeld
<1>5. ASSUME NEW u \in Uids, members'[u] # members[u]
      PROVE  u = v /\ members'[u].grant = Stored(invitations[i].grant)
  BY <1>1, <1>5 DEF Admits, Joins, TypeOK
<1>6. "access.manage" \in EffectivePermissions(members[g])
  BY <1>3 DEF AssignmentAllowed
<1> QED
  BY <1>2, <1>3, <1>4, <1>5, <1>6

\* What a person joins with is what the sender has at that moment and may give,
\* however old the invitation is.
THEOREM SendersAreEntitled == Spec => SenderIsEntitled
<1>1. AccessInv /\ [Next]_vars =>
         [\A i \in Invites : invitations'[i].accepted /\ ~invitations[i].accepted =>
             LET g == invitations[i].by IN
             /\ ~users[g].disabled /\ "access.manage" \in EffectivePermissions(members[g])
             /\ \A u \in Uids : members'[u] # members[u] =>
                   u # g /\ Rights(members'[u].grant) \subseteq Rights(members[g].grant)]_vars
  BY SenderIsEntitledInStep
<1> QED
  BY <1>1, InvariantHolds, PTL DEF Spec, SenderIsEntitled

\* The step that admits a person admits the one invited.
LEMMA OnlyTheInvitedInStep ==
    ASSUME AccessInv, [Next]_vars, NEW a \in audits' \ audits
    PROVE  users'[a.uid].email = invitations[a.invite].email /\ ~IsMember(a.uid)
<1> USE DEF AccessInv
<1>1. ASSUME NEW u \in Uids, NEW i \in Invites, Admits(u, i)
      PROVE  users'[a.uid].email = invitations[a.invite].email /\ ~IsMember(a.uid)
  <2>1. a.uid = u /\ a.invite = i
    BY <1>1 DEF Admits, Joins
  <2> QED
    BY <1>1, <2>1 DEF Admits
<1>2. ASSUME NEW b, NEW u, NEW grant, NEW status, ChangeMember(b, u, grant, status)
      PROVE  FALSE
  BY <1>2 DEF ChangeMember
<1> QED
  BY <1>1, <1>2, MembersStep

\* Only a person with the address of the invitation, who is not a member, joins with it.
THEOREM OnlyTheInvited == Spec => OnlyTheInvitedJoin
<1>1. AccessInv /\ [Next]_vars =>
         [\A a \in audits' \ audits :
             users'[a.uid].email = invitations[a.invite].email /\ ~IsMember(a.uid)]_vars
  BY OnlyTheInvitedInStep
<1> QED
  BY <1>1, InvariantHolds, PTL DEF Spec, OnlyTheInvitedJoin
=============================================================================
