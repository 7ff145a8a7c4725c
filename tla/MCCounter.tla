------------------------------ MODULE MCCounter ------------------------------
(* The parts of the counter, checked in one run: bookings of members (part    *)
(* "booking"), cards and programs ("membership"), the card reader ("reader"), *)
(* checkout and register ("till") and receipts ("receipt").  The variables of *)
(* the other parts keep their values.                                         *)
EXTENDS Counter, TLC

VARIABLE part

receptionVars ==
    <<tenant, program, account, cardLinks, actor, role, enrolment, shown, reviewed>>
readerVars ==
    <<saved, link, points, draft, form, sent, reader, lookups, found, asked, changes>>
tillVars == <<kind, row, log, screen, pressed, told, presses, elsewhere>>
mailVars == <<checkout, issuer, settings, outbox, panel, mails, reply, tries, agreed>>

AnyAsk == CHOOSE a \in Asks : TRUE
AnySalon == CHOOSE s \in Salons : TRUE
MCSalonOf == [a \in Asks |-> IF a = AnyAsk THEN AnySalon ELSE CHOOSE s \in Salons : s # AnySalon]

Symmetry == Permutations(Tenants) \cup Permutations(Cards)

\* What does not matter to a part is kept at one value of its initial ones, and the
\* cards have points to begin with.
MCInit ==
    /\ part \in {"booking", "membership", "reader", "till", "receipt"}
    /\ Init /\ Reception!Init /\ Reader!Init /\ Desk!Init /\ Mail!Init
    /\ \A c \in Cards : points[c] = MaxPoints /\ (part # "reader" => link[c] = "none")
    /\ part # "till" => kind = "checkout" /\ screen.first = 1
    /\ part # "receipt" => issuer = Unset

MCNext ==
    /\ UNCHANGED part
    /\ \/ /\ part = "booking" /\ Next
          /\ UNCHANGED <<receptionVars, readerVars, tillVars, mailVars>>
       \/ /\ part = "membership" /\ Reception!Next
          /\ UNCHANGED <<vars, readerVars, tillVars, mailVars>>
       \/ /\ part = "reader" /\ Reader!Next
          /\ UNCHANGED <<vars, receptionVars, tillVars, mailVars>>
       \/ /\ part = "till" /\ Desk!Next
          /\ UNCHANGED <<vars, receptionVars, readerVars, mailVars>>
       \/ /\ part = "receipt" /\ Mail!Next
          /\ UNCHANGED <<vars, receptionVars, readerVars, tillVars>>

MCSpec == MCInit /\ [][MCNext]_<<part, vars, receptionVars, readerVars, tillVars, mailVars>>
=============================================================================
