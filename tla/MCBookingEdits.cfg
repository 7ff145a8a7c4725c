\* One reservation edited, cancelled, settled, refunded and charted by two requests.
SPECIFICATION Spec
CONSTANTS
    r1 = r1  r2 = r2  c1 = c1  c2 = c2  s1 = s1  w1 = w1  w2 = w2
    Reservations = {r1}
    Customers = {c1, c2}
    Staff = {s1}
    Workers = {w1, w2}
    NoCustomer = NoCustomer
    Nobody = Nobody
    NoReservation = NoReservation
    NoWorker = NoWorker
    Slots <- TwoSlots
    RequestedStatuses = {"CONFIRMED", "CANCELLED"}
    EditShapes <- EditFields
    SettingsChoices <- OneLimit
    StaffChoices <- OneStaff
    ShiftRows <- FewRows
    Recordable = {r1}
    BookingCutoff = 0
    CancelCutoff = 0
    LastInstant = 1
    MaxStamp = 2
SYMMETRY Symmetry
PROPERTIES
    SettledContextFrozen
    OnlyNamedFieldsChange
    KeepsBook
CHECK_DEADLOCK FALSE
