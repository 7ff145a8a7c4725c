-------------------------------- MODULE MCCash --------------------------------
(* Instances of Cash for TLC.                                              *)
EXTENDS Cash, TLC

CONSTANTS x1, x2, c1, c2, m1, r1, r2, s1, s2, w1, w2

CustomerOfDef == [x \in Contexts |-> IF x = x1 THEN c1 ELSE IF x = x2 THEN c2 ELSE c1]
PriceOfDef == [x \in Contexts |-> IF x = x1 THEN 1 ELSE 2]
AccountOfDef == [c \in Customers |-> IF c = c1 THEN m1 ELSE NoAccount]

Plain(price, cash, external, other, ack) ==
    [price |-> price, points |-> 0, account |-> NoAccount,
     cash |-> cash, external |-> external, other |-> other, ack |-> ack]

\* all in cash, by card, paid before and acknowledged, and one that does not add up
DeskDrafts == {Plain(1, 1, 0, 0, FALSE), Plain(2, 0, 2, 0, TRUE), Plain(2, 1, 0, 0, FALSE)}
CashDrafts == {Plain(1, 1, 0, 0, FALSE), Plain(2, 0, 0, 2, FALSE)}
PointDrafts == {Plain(2, 0, 2, 0, TRUE),
                [Plain(2, 2, 0, 0, FALSE) EXCEPT !.account = m1],
                [Plain(2, 0, 0, 0, FALSE) EXCEPT !.account = m1, !.points = 2]}

(* One run, three worlds: what cannot matter to a question is kept still,   *)
(* so that the rest can be large.                                           *)
VARIABLE focus

\* one reservation that changes hands, two clerks, one register
Desk ==
    /\ today = 0
    /\ reservation[r2] = [context |-> x1, released |-> FALSE, payment |-> "UNPAID"]
    /\ LiveOf(r2) = {} /\ ReversedOf(r2) = {}
    /\ register[s2] = NoRegister /\ \A m \in movements : m.kind \in {"SALE", "REFUND"}
    /\ \A s \in Sessions : register[s].opening = 0
    /\ \A c \in Checkouts : checkout[c].draft.account = NoAccount

OneClerk == view[w2] = NoView /\ \A r \in Reservations : reservation[r].context = x1

\* registers over two days, and cash that goes in, out and back
Drawer ==
    /\ OneClerk
    /\ reservation[r2].payment = "UNPAID" /\ ~reservation[r2].released
    /\ \A s \in Sessions : register[s].opening < 2
    /\ LiveOf(r2) = {} /\ ReversedOf(r2) = {}
    /\ \A c \in Checkouts : /\ checkout[c].draft.account = NoAccount
                            /\ checkout[c].draft \notin DeskDrafts \ CashDrafts

\* two reservations of a member who earns on one and spends on the other
Points ==
    /\ OneClerk
    /\ register[s2] = NoRegister /\ \A m \in movements : m.kind \in {"SALE", "REFUND"}
    /\ \A s \in Sessions : register[s].opening # 1
    /\ today = 0 /\ \A c \in Checkouts : checkout[c].draft \notin CashDrafts

InFocus == CASE focus = "desk" -> Desk [] focus = "drawer" -> Drawer [] OTHER -> Points

MCInit == focus \in {"desk", "drawer", "points"} /\ Init /\ InFocus
MCNext == Next /\ UNCHANGED focus /\ InFocus'
MCSpec == MCInit /\ [][MCNext]_<<vars, focus>>

Drafted == DeskDrafts \cup CashDrafts \cup PointDrafts
Symmetry == Permutations(Checkouts) \cup Permutations(CreateRequests)
=============================================================================
