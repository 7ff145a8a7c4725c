\* Two invitations and two requests of invited persons, one change from outside.
SPECIFICATION Spec
CONSTANTS
    boss = boss
    aide = aide
    fresh = fresh
    s1 = s1
    s2 = s2
    Salons <- MCSalons
    Uids <- MCUids
    Emails <- MCEmails
    NoEmail = NoEmail
    Addressees = {"new"}
    Invites = {i1, i2}
    Workers = {w1, w2}
    NoUid = NoUid
    NoInvite = NoInvite
    FirstMembers <- MCFirstMembers
    FirstEmails <- MCFirstEmails
    Grants <- MCGrants
    MaxChanges = 1
SYMMETRY MCSymmetry
INVARIANTS LinkUsedOnce RightsAreGiven AnswersAreTrue
PROPERTY SenderIsEntitled
CHECK_DEADLOCK FALSE
