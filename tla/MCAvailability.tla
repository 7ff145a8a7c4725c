--------------------------- MODULE MCAvailability ---------------------------
(* The algorithms of the salon, checked against what they are to compute:   *)
(* the rows of a salon (Availability) and the lines of a checkout (Amounts).*)
EXTENDS Availability, TLC

CONSTANTS i1, i2, i3, s1, s2, MaxYen, MaxLines, Grosses, Discounts, TaxRates

VARIABLE lines  \* of a draft checkout

A == INSTANCE Amounts

Busy(s, from, to) == [staff |-> s, start |-> from, end |-> to]
Shift(s, type, from, to) == [staff |-> s, type |-> type, start |-> from, end |-> to]

\* every interval of a four-minute day, for the sweep
ShortDayRows == {row \in {Busy(Nobody, from, to) : from \in 0 .. 3, to \in 1 .. 4} : row.start < row.end}
OneSetting == {[accepting |-> TRUE, open |-> 0, close |-> 4, interval |-> 1, max |-> 1,
                window |-> 1, closedDays |-> {}, mode |-> "hours", amount |-> 0, time |-> 0]}
OneCapacity == [s \in Staff |-> 1]

\* pieces of working time, nested, adjacent and inverted, and what closes them
PieceRows ==
    {Shift(s1, "AVAILABLE", from, to) : from \in 0 .. 3, to \in 1 .. 4}
    \cup {Shift(s1, "TRAINING", 2, 3), Shift(Nobody, "BREAK", 1, 2),
          Shift(s1, "OFF", 3, 2), Shift(Nobody, "AVAILABLE", 0, 4)}

\* two days of four minutes, two staff members, a service of two minutes
DayBusy == {Busy(s1, 0, 2), Busy(s1, 5, 7), Busy(s2, 6, 7), Busy(Nobody, 2, 6)}
DayShifts == {Shift(s1, "AVAILABLE", 0, 3), Shift(s1, "AVAILABLE", 3, 8),
              Shift(s2, "AVAILABLE", 4, 8), Shift(Nobody, "SALES_STOP", 1, 5),
              Shift(s2, "TRAINING", 7, 8), Shift(s1, "BREAK", 3, 3)}
TwoCapacities == [s \in Staff |-> IF s = s1 THEN 1 ELSE 2]
DaySettings ==
    {[accepting |-> TRUE, open |-> o, close |-> 4, interval |-> i, max |-> m,
      window |-> win, closedDays |-> closed, mode |-> cut.mode, amount |-> cut.amount,
      time |-> cut.time] :
        o \in {0, 1}, i \in {1, 2}, m \in {1, 2}, win \in {0, 1}, closed \in {{}, {1}},
        cut \in {[mode |-> "hours", amount |-> 1, time |-> 0],
                 [mode |-> "days", amount |-> 1, time |-> 2],
                 [mode |-> "days", amount |-> 0, time |-> 3]}}
    \cup {[accepting |-> FALSE, open |-> 0, close |-> 4, interval |-> 1, max |-> 1,
           window |-> 1, closedDays |-> {}, mode |-> "unknown", amount |-> 0, time |-> 0]}

AllBusy == ShortDayRows \cup DayBusy
AllShifts == PieceRows \cup DayShifts
AllSettings == OneSetting \cup DaySettings

(* One run, two worlds, told apart by the settings: every small set of rows *)
(* for the algorithms, which look at nothing else, and days of rows of both *)
(* kinds, at every minute, for the list of slots.                           *)
Algorithms ==
    /\ settings \in OneSetting /\ now = 0
    /\ Range(busy) \subseteq ShortDayRows \cup {NoRow} /\ shifts \subseteq PieceRows
    /\ shifts = {} \/ Rows(Ids) = {}

Offers ==
    /\ settings \in DaySettings
    /\ Cardinality(Rows(Ids)) <= 2 /\ Range(busy) \subseteq DayBusy \cup {NoRow}
    /\ shifts \subseteq DayShifts

\* The third world has a draft and no rows.
AddLine ==
    /\ UNCHANGED vars /\ Len(lines) < MaxLines
    /\ settings \in OneSetting /\ Rows(Ids) = {} /\ shifts = {}
    /\ \E gross \in Grosses, discount \in Discounts, rate \in TaxRates :
          lines' = Append(lines, [gross |-> gross, discount |-> discount, rate |-> rate])

MCInit == Init /\ lines = <<>>
MCNext == (lines = <<>> /\ UNCHANGED lines /\ Next /\ (Algorithms' \/ Offers')) \/ AddLine
MCSpec == MCInit /\ [][MCNext]_<<vars, lines>>

\* The sweep returns the largest crowd of any instant, pieces of working time cover a
\* slot exactly when they cover each instant of it, and the receipt of every checkout
\* adds up (see PeakIsLargestCrowd, CoverageIsPointwise and ReceiptAddsUp).
AlgorithmsAreExact ==
    IF lines = <<>> THEN Algorithms => PeakIsLargestCrowd /\ CoverageIsPointwise
    ELSE \A used \in 0 .. A!AfterDiscount(lines) : A!ReceiptAddsUp(lines, used)

\* The slots offered are those a creation accepts (see OfferedIsAccepted).
SlotsAreAccepted == Offers => OfferedIsAccepted

Symmetry == Permutations(Ids)
=============================================================================
