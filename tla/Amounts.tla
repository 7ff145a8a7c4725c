-------------------------------- MODULE Amounts --------------------------------
(***************************************************************************)
(* The money of one checkout: what calculateCashDraft (cash-domain.ts)     *)
(* makes of the lines and the points of a draft, and what                  *)
(* receiptSnapshotSchema (receipt-email.ts) demands of a receipt.  Prices  *)
(* contain the tax.  Points are spread over the lines in proportion, the   *)
(* tax is rounded once for each rate and spread over the lines of it.      *)
(***************************************************************************)
EXTENDS Integers, Sequences, FiniteSets, Functions, FiniteSetsExt

CONSTANT MaxYen     \* CASH_MAX_YEN

\* A line is [gross, discount, rate]; gross is quantity times price.
SumOver(S, Op(_)) == MapThenSumSet(Op, S)
Gross(lines) == SumOver(DOMAIN lines, LAMBDA k : lines[k].gross)
Discount(lines) == SumOver(DOMAIN lines, LAMBDA k : lines[k].discount)
Net(lines, k) == lines[k].gross - lines[k].discount
AfterDiscount(lines) == Gross(lines) - Discount(lines)

\* what calculateCashDraft takes at all
Accepted(lines, used) ==
    /\ \A k \in DOMAIN lines : lines[k].discount <= lines[k].gross
    /\ Gross(lines) <= MaxYen /\ used <= AfterDiscount(lines)

\* proportional share of a line, and what the division leaves
Quotient(lines, used, k) == (used * Net(lines, k)) \div AfterDiscount(lines)
Remainder(lines, used, k) == (used * Net(lines, k)) % AfterDiscount(lines)

\* variant: the first lines get what is left
ComesFirstInOrder(lines, used, j, k) == j < k

\* larger remainders come first, earlier lines among equal ones
ComesFirst(lines, used, j, k) ==
    LET l == Remainder(lines, used, j)
        r == Remainder(lines, used, k)
    IN l > r \/ (l = r /\ j < k)

\* pointsDiscountYen of a line
Share(lines, used, k) ==
    LET left == used - SumOver(DOMAIN lines, LAMBDA j : Quotient(lines, used, j))
        before == {j \in DOMAIN lines : ComesFirst(lines, used, j, k)}
    IN IF used = 0 THEN 0
       ELSE Quotient(lines, used, k) + (IF Cardinality(before) < left THEN 1 ELSE 0)

TaxOf(yen, rate) == (yen * rate) \div (100 + rate)
Total(lines, used, k) == Net(lines, k) - Share(lines, used, k)

Rates(lines) == {lines[k].rate : k \in DOMAIN lines}
LinesAt(lines, rate) == {k \in DOMAIN lines : lines[k].rate = rate}

\* taxBreakdown
Group(lines, used, rate) ==
    LET taxable == SumOver(LinesAt(lines, rate), LAMBDA k : Total(lines, used, k))
    IN [rate |-> rate, taxable |-> taxable, tax |-> TaxOf(taxable, rate)]

\* taxYen of a line: what the rounding of the group leaves goes to its first lines
LineTax(lines, used, k) ==
    LET rate == lines[k].rate
        rows == LinesAt(lines, rate)
        own(j) == TaxOf(Total(lines, used, j), rate)
        left == Group(lines, used, rate).tax - SumOver(rows, own)
    IN own(k) + (IF Cardinality({j \in rows : j < k}) < left THEN 1 ELSE 0)

\* calculateCashDraft
Calculated(lines, used) ==
    [items |-> [k \in DOMAIN lines |->
        [gross |-> lines[k].gross, discount |-> lines[k].discount, rate |-> lines[k].rate,
         points |-> Share(lines, used, k), total |-> Total(lines, used, k),
         tax |-> LineTax(lines, used, k)]],
     subtotal |-> Gross(lines), discount |-> Discount(lines), points |-> used,
     total |-> AfterDiscount(lines) - used,
     groups |-> {Group(lines, used, rate) : rate \in Rates(lines)},
     tax |-> SumOver(Rates(lines), LAMBDA rate : Group(lines, used, rate).tax)]

\* receiptSnapshotSchema (superRefine) and the range of its yen
Consistent(r) ==
    LET sum(field) == SumOver(DOMAIN r.items, LAMBDA k : r.items[k][field])
        at(rate) == {k \in DOMAIN r.items : r.items[k].rate = rate}
    IN /\ \A k \in DOMAIN r.items :
             /\ r.items[k].gross - r.items[k].discount - r.items[k].points = r.items[k].total
             /\ \A field \in {"discount", "points", "total", "tax"} : r.items[k][field] \in 0 .. MaxYen
       /\ sum("gross") = r.subtotal /\ sum("discount") = r.discount
       /\ sum("points") = r.points /\ sum("total") = r.total /\ sum("tax") = r.tax
       /\ r.subtotal - r.discount - r.points = r.total
       /\ \A k \in DOMAIN r.items : \E g \in r.groups : g.rate = r.items[k].rate
       /\ \A g \in r.groups :
             /\ at(g.rate) # {}
             /\ SumOver(at(g.rate), LAMBDA k : r.items[k].total) = g.taxable
             /\ SumOver(at(g.rate), LAMBDA k : r.items[k].tax) = g.tax
             /\ TaxOf(g.taxable, g.rate) = g.tax

-----------------------------------------------------------------------------
\* Whatever is sold, discounted and paid with points: no line falls below nothing or
\* gets more than a yen more or less than its share of the points, and the receipt of the
\* checkout adds up line by line, rate by rate and in total, so that it can be issued.
ReceiptAddsUp(lines, used) ==
    Accepted(lines, used) =>
        /\ Consistent(Calculated(lines, used))
        /\ used > 0 => \A k \in DOMAIN lines :
              Share(lines, used, k) - Quotient(lines, used, k) \in 0 .. 1
=============================================================================
