SPECIFICATION Spec
CONSTANTS
    Tenants = {t1}
    Dates = {d1, d2}
    Filters = {"all", "some"}
    Unfiltered = "all"
    Histories = {h1}
    Lives = {r1}
    BoardOf <- BoardOfDef
    Slots = {1, 2}
    FirstSlot = 1
    MaxLoads = 3
    MaxSteps = 3
    Keys = {1, 2, 3}
    Ids = {1, 2, 3}
    PageSize = 1
    MaxChanges = 1
    Staff = {s1, s2}
    Menus = {m1}
    Categories = {p1}
    Equipment = {e1}
    Customers = {u1}
    Cards = {c1, h1}
    Records = {h1}
    Nobody = Nobody
    \* before the opening hours, and behind them
    CardStarts = {510}
    CardEnds = {1270}
    NoEnd = NoEnd
    Opening = 540
    Closing = 1200
    MaxWrites = 3
INVARIANTS
    ShowsTheContext
    BoardIsDrawnTrue
    ListsShowOnePage
    EveryCardHasItsPlace
PROPERTY
    UndoTakesBackOwnMove
SYMMETRY Symmetry
CHECK_DEADLOCK FALSE
