------------------------------ MODULE MCBooking ------------------------------
(* Instances of Booking for TLC.                                            *)
EXTENDS Booking, TLC

CONSTANTS r1, r2, c1, c2, s1, w1, w2

Slot(from, to) == [start |-> from, end |-> to]
Open(n) == [exists |-> TRUE, accepting |-> TRUE, max |-> n]
Works(n) == [active |-> TRUE, capacity |-> n]
Left == [active |-> FALSE, capacity |-> 1]
Row(s, type, from, to) == [who |-> s, type |-> type, start |-> from, end |-> to]

\* capacity: a long and a short slot that meet, limits moving between 1 and 2
CapacitySlots == {Slot(0, 2), Slot(1, 2)}
CapacityShapes == {{}, {"time"}}
CapacitySettings == {Open(1), Open(2)}
CapacityStaff == {Works(1), Works(2)}
NoRows == {}

\* edits: one reservation edited by two requests while it is settled and charted
OneSlot == {Slot(2, 3)}
TwoSlots == {Slot(1, 2), Slot(2, 3)}
EditFields == {{"time"}, {"staff"}, {"status"}, {"customer"}}
OneLimit == {Open(1)}
OneStaff == {Works(1), Left}
FewRows == {Row(s1, "AVAILABLE", 1, 3), Row(Nobody, "BREAK", 1, 2)}

\* recounts
VisitFields == {{"status"}, {"customer"}}

Symmetry == Permutations({w1, w2})
RequestSymmetry == Permutations({w1, w2}) \cup Permutations({r1, r2})
=============================================================================
