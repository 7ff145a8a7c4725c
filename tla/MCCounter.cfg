\* Bookings: two calls, two keys, two salons, one booking allowed.
\* Membership: one program, two tenants and customers, one enrolment under way.
\* Card reader: two cards, three lookups, one change by others.  Till: three presses.
\* Receipts: four requests, three changes of the settings.
SPECIFICATION MCSpec
CONSTANTS
    Calls = {k1, k2}
    Keys = {id1, id2}
    Asks = {a1, a2}
    Salons = {s1, s2}
    SalonOf <- MCSalonOf
    NoCall = NoCall
    MaxFuture = 1
    MaxAttempts = 1
    MaxRepeats = 1
    MaxDesk = 1
    MaxFaults = 1
    Tenants = {t1, t2}
    Programs = {p1}
    Members = {m1}
    Customers = {c1, c2}
    Enrolments = {e1}
    None = None
    MaxStamp = 1
    Cards = {d1, d2}
    NoCard = NoCard
    MaxPoints = 1
    MaxVersion = 2
    MaxLookups = 3
    MaxChanges = 1
    Lines = {l}
    Fresh = Fresh
    Entries = {1, 2}
    MaxPresses = 3
    MaxElsewhere = 1
    Fields = {f}
    Issuers = {i, j}
    Unset = Unset
    MaxTries = 4
    MaxSettings = 3
INVARIANTS RepeatsGetTheReservation LimitHolds EnrolledProgramsStay SentAsConfirmed
PROPERTIES AppliesWhatWasReviewed PressesAreExact MemberIsTheCardRead
SYMMETRY Symmetry
CHECK_DEADLOCK FALSE
