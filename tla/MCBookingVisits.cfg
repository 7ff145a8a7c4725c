\* Two customers whose visits are recounted by two requests; fair handlers.
SPECIFICATION FairSpec
CONSTANTS
    r1 = r1  r2 = r2  c1 = c1  c2 = c2  s1 = s1  w1 = w1  w2 = w2
    Reservations = {r1, r2}
    Customers = {c1, c2}
    Staff = {}
    Workers = {w1, w2}
    NoCustomer = NoCustomer
    Nobody = Nobody
    NoReservation = NoReservation
    NoWorker = NoWorker
    Slots <- OneSlot
    RequestedStatuses = {"CONFIRMED", "COMPLETED"}
    EditShapes <- VisitFields
    SettingsChoices = {}
    StaffChoices <- CapacityStaff
    ShiftRows <- NoRows
    Recordable = {}
    BookingCutoff = 0
    CancelCutoff = 0
    LastInstant = 0
    MaxStamp = 2
INVARIANTS
    VisitCountStaleOnlyInFlight
PROPERTIES
    VisitCountsCatchUp
CHECK_DEADLOCK FALSE
