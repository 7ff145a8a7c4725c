\* Two reservations, a salon and a staff member whose limits move between 1 and 2.
SPECIFICATION Spec
CONSTANTS
    r1 = r1  r2 = r2  c1 = c1  c2 = c2  s1 = s1  w1 = w1  w2 = w2
    Reservations = {r1, r2}
    Customers = {c1}
    Staff = {s1}
    Workers = {w1, w2}
    NoCustomer = NoCustomer
    Nobody = Nobody
    NoReservation = NoReservation
    NoWorker = NoWorker
    Slots <- CapacitySlots
    RequestedStatuses = {"CONFIRMED", "CANCELLED"}
    EditShapes <- CapacityShapes
    SettingsChoices <- CapacitySettings
    StaffChoices <- CapacityStaff
    ShiftRows <- NoRows
    Recordable = {}
    BookingCutoff = 0
    CancelCutoff = 0
    LastInstant = 0
    MaxStamp = 2
SYMMETRY RequestSymmetry
INVARIANTS
    StoreNotOverbooked
    StaffNotOverbooked
CHECK_DEADLOCK FALSE
