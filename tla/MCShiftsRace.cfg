\* Two PATCH requests on the same shift, one naming startsAt and one endsAt.
SPECIFICATION Spec
CONSTANTS
    Shifts = {s1}
    Editors = {e1, e2}
    Instants = {1, 2, 3, 4}
INVARIANT ShiftsEndAfterTheyStart
CHECK_DEADLOCK FALSE
