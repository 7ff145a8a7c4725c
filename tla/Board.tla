-------------------------------- MODULE Board --------------------------------
(***************************************************************************)
(* Where the cards of one row of the board are drawn, and where a dragged  *)
(* card comes to lie (schedule-layout.ts, schedule-drag.ts, and the        *)
(* interaction of reservation-dashboard.tsx).  The steps only put more     *)
(* cards into the row.                                                     *)
(*                                                                         *)
(* Times are minutes of the day; widths are counted in units of which a    *)
(* minute has PerMinute (132 px an hour are 11 fifths of a px a minute).   *)
(***************************************************************************)
EXTENDS Integers, FiniteSets, Sequences, SequencesExt

CONSTANTS
    Keys,               \* of the cards
    Starts, Ends,       \* of the cards put into the row
    Open, Close,        \* hours.start and hours.end of the board
    Step,               \* hours.stepMinutes
    PerMinute, MinWidth, Gap,   \* 132 px an hour; 72 px; 8 px
    NoEnd               \* a card of the history without an end

VARIABLES cards         \* function from some keys to their [start, end]

Init == cards = [k \in {} |-> 0]

-----------------------------------------------------------------------------
Least(a, b) == IF a < b THEN a ELSE b
Most(a, b) == IF a > b THEN a ELSE b

MarkerMinutes == 30
EndOf(card) == IF card.end = NoEnd THEN card.start + MarkerMinutes ELSE card.end

\* what a card takes of its lane, in units from the left edge
VisibleStart(card) == Least(Close - 1, Most(Open, card.start))
Left(card) == (VisibleStart(card) - Open) * PerMinute
Width(card) ==
    Least((Close - VisibleStart(card)) * PerMinute,
          Most(MinWidth,
               (Least(Close, Most(EndOf(card), card.start + 1)) - VisibleStart(card)) * PerMinute - Gap))
Right(card) == Left(card) + Width(card)

\* variant: the order of the cards is that of their keys
OrderedByKey(k, l) == k < l

Ordered(k, l) ==
    \/ Left(cards[k]) < Left(cards[l])
    \/ /\ Left(cards[k]) = Left(cards[l])
       /\ \/ Right(cards[k]) < Right(cards[l])
          \/ Right(cards[k]) = Right(cards[l]) /\ k < l

\* buildScheduleLayout: each card goes into the first lane that is free at its
\* start; "ends" is how far each lane is taken
Lanes ==
    LET put(acc, k) ==
            LET free == {i \in DOMAIN acc.ends : acc.ends[i] <= Left(cards[k])}
                lane == IF free = {} THEN Len(acc.ends) + 1
                        ELSE CHOOSE i \in free : \A j \in free : i <= j
            IN [ends |-> IF free = {} THEN Append(acc.ends, Right(cards[k]))
                         ELSE [acc.ends EXCEPT ![lane] = Right(cards[k])],
                of |-> [l \in DOMAIN acc.of \cup {k} |-> IF l = k THEN lane ELSE acc.of[l]]]
    IN FoldLeft(put, [ends |-> <<>>, of |-> [k \in {} |-> 0]],
                SetToSortSeq(DOMAIN cards, Ordered))

-----------------------------------------------------------------------------
Ceiling(a, b) == -((-a) \div b)
Off == "off"            \* null

\* scheduleMoveStart: the minutes past the step are kept, also at the edges
ScheduleMoveStart(original, delta, from, to) ==
    LET least == Ceiling(from - original, Step) * Step
        most == ((to - original) \div Step) * Step
    IN IF least > most THEN Off ELSE original + Least(most, Most(least, delta))

\* updateInteractionPosition for a move of a card of this length
MovedStart(card, delta) ==
    ScheduleMoveStart(card.start, delta, Open,
                      Least(24 * 60 - 1, Close - (EndOf(card) - card.start)))

\* variant: the card is pulled past the end of the board
ResizedEndAnywhere(card, delta) == card.start + Most(Step, EndOf(card) - card.start + delta)

\* and for a resize
ResizedEnd(card, delta) ==
    card.start + Least(Close - card.start, Most(Step, EndOf(card) - card.start + delta))

-----------------------------------------------------------------------------
Put(k) ==
    /\ k \notin DOMAIN cards /\ \A l \in Keys : l < k => l \in DOMAIN cards
    /\ \E from \in Starts, to \in Ends \cup {NoEnd} :
          /\ IF to = NoEnd THEN TRUE ELSE from < to
          /\ cards' = [l \in DOMAIN cards \cup {k} |->
                          IF l = k THEN [start |-> from, end |-> to] ELSE cards[l]]

Next == \E k \in Keys : Put(k)
Spec == Init /\ [][Next]_cards

-----------------------------------------------------------------------------
Covering(x) == {k \in DOMAIN cards : Left(cards[k]) <= x /\ x < Right(cards[k])}

\* Cards of one lane never lie on each other, no card leaves the board, and a row
\* is no higher than its fullest moment asks for.
CardsLieApart ==
    LET lanes == Lanes
        crowds == {Cardinality(Covering(Left(cards[k]))) : k \in DOMAIN cards}
    IN /\ \A k \in DOMAIN cards : /\ Width(cards[k]) > 0
                                  /\ 0 <= Left(cards[k])
                                  /\ Right(cards[k]) <= (Close - Open) * PerMinute
       /\ \A k, l \in DOMAIN cards : k # l /\ lanes.of[k] = lanes.of[l] =>
             Right(cards[k]) <= Left(cards[l]) \/ Right(cards[l]) <= Left(cards[k])
       /\ cards # [k \in {} |-> 0] => Len(lanes.ends) \in crowds
       /\ \A n \in crowds : n <= Len(lanes.ends)

\* A dragged card moves by whole steps, stays on the board, goes as far as the
\* pointer asks and the board allows, and is refused only if it fits nowhere.
MovesKeepTheMinute ==
    \A k \in DOMAIN cards : \A n \in -4 .. 4 :
        LET card == cards[k]
            length == EndOf(card) - card.start
            steps == (Close - Open) \div Step + 1
            fits == {t \in {card.start + i * Step : i \in -steps .. steps} :
                        Open <= t /\ t <= 1439 /\ t + length <= Close}
            moved == MovedStart(card, n * Step)
        IN IF fits = {} THEN moved = Off
           ELSE /\ moved \in fits
                /\ card.start + n * Step \in fits => moved = card.start + n * Step

\* A live card whose end is pulled keeps its start and at least one step, stays on the
\* board, and ends as near to the pointer as that allows.
ResizesStayInside ==
    \A k \in {l \in DOMAIN cards : cards[l].end # NoEnd /\ cards[l].start < Close} :
    \A n \in -4 .. 4 :
        LET card == cards[k]
            within == {t \in card.start + 1 .. Close : t >= card.start + Step \/ t = Close}
            resized == ResizedEnd(card, n * Step)
            far(t) == LET d == t - (card.end + n * Step) IN Most(d, -d)
        IN resized \in within /\ \A t \in within : far(resized) <= far(t)

\* Cards lie where their times say, and come to lie where they are dropped or pulled.
BoardIsDrawnTrue == CardsLieApart /\ MovesKeepTheMinute /\ ResizesStayInside
=============================================================================
