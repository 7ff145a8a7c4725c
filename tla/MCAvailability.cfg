\* Every small set of rows of a short day, and salons of up to five rows over two
\* days at every minute; checkouts of up to three lines.
SPECIFICATION MCSpec
CONSTANTS
    i1 = i1  i2 = i2  i3 = i3  s1 = s1  s2 = s2
    Ids = {i1, i2, i3}
    Staff = {s1, s2}
    Nobody = Nobody
    DayLength = 4
    Days = 2
    BusyRows <- AllBusy
    ShiftRows <- AllShifts
    SettingsChoices <- AllSettings
    Capacities <- TwoCapacities
    Duration = 2
    MinInterval = 1
    MaxInterval = 3
    LastInstant = 7
    MaxRows = 5
    MaxYen = 17
    MaxLines = 3
    Grosses = {1, 5, 11}
    Discounts = {0, 5}
    TaxRates = {8, 10}
SYMMETRY Symmetry
INVARIANTS AlgorithmsAreExact SlotsAreAccepted
CHECK_DEADLOCK FALSE
