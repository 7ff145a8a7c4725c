\* A desk with two clerks, registers of two days, a member's points: see focus.
SPECIFICATION MCSpec
CONSTANTS
    x1 = x1 x2 = x2 c1 = c1 c2 = c2 m1 = m1 r1 = r1 r2 = r2 s1 = s1 s2 = s2 w1 = w1 w2 = w2
    NoAccount = NoAccount NoCheckout = NoCheckout NoSession = NoSession NoRequest = NoRequest
    CustomerOf <- CustomerOfDef
    PriceOf <- PriceOfDef
    AccountOf <- AccountOfDef
    Accounts = {m1}
    Reservations = {r1, r2}
    Contexts = {x1, x2}
    Customers = {c1, c2}
    Checkouts = {k1, k2}
    Sessions = {s1, s2}
    Clerks = {w1, w2}
    CreateRequests = {q1, q2}
    LegacyPaid = {r2}
    Drafts <- Drafted
    Openings = {0, 1, 4}
    Amounts = {1}
    PointChoices = {0, 1}
    InitialPoints = 0
    EarnYenUnit = 1
    EarnPoints = 1
    LastDay = 1
    MaxVersion = 2
    MaxEntries = 4
INVARIANTS
    CheckoutsAreSound TotalSpentIsExact
    RegistersAreTrue PointsFollowTheMoney
PROPERTY ImplementsBook
SYMMETRY Symmetry
CHECK_DEADLOCK FALSE
