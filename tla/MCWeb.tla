-------------------------------- MODULE MCWeb --------------------------------
(* The screens of the web application, checked in one run: the board of one    *)
(* clerk with a card of the history (part "history") or a live one ("live"),   *)
(* the page around it, with its seed, renderings and rights to read ("page"),  *)
(* how a row of it is drawn ("row"), the lists ("list") and what a day refers  *)
(* to ("day").  The variables of the other parts keep their values.            *)
EXTENDS Web, TLC

CONSTANT Keys

VARIABLES
    part,
    row             \* Board

Symmetry == Permutations(Staff)

\* every card is on the first board
FirstBoard == CHOOSE b \in [tenant: Tenants, date: Dates] : TRUE
BoardOfDef == [c \in Histories \cup Lives |-> FirstBoard]

\* a day of two hours, in fifths of a pixel: 132 px an hour, 72 px at least, 8 px apart
B == INSTANCE Board WITH
        cards <- row, Starts <- {540, 555, 600, 660}, Ends <- {560, 600, 720},
        Open <- 540, Close <- 660, Step <- 30, PerMinute <- 11, MinWidth <- 360, Gap <- 40

boardVars == <<log, screen, preload, loads, save, form>>
listVars == <<table, changes, list, requests, removal>>
dayVars == <<entry, cards, shifts, removing, reading, writes>>

\* What does not matter to a part is kept at one value of its initial ones.
Init ==
    /\ part \in {"history", "live", "page", "row", "list", "day"}
    /\ D!Init /\ B!Init /\ L!Init /\ C!Init
    /\ part \notin {"history", "live", "page"} => screen.at = CHOOSE at \in D!Entrances : TRUE
    /\ part # "page" => ~screen.loading
    /\ part # "list" => list.list = L!MasterList /\ \A i \in Ids : table[i] = "absent"
    /\ part # "day" => \A e \in C!Entries : entry[e] = "active"
    /\ part = "day" /\ (\E u \in Customers : entry[u] = "absent") =>
          \A s \in Staff : entry[s] = "active"
    /\ \A i, j \in Ids : table[i] = "absent" => table[j] # "miss"
    /\ Cardinality({i \in Ids : table[i] # "hit"}) # 2

\* The live card is left alone, or the one of the history.  The live one has both views and
\* all rights; on the page all searches and renderings are there, but nothing is moved.  There
\* are as many loads as there may be, or as many steps, but not both.
Focus ==
    /\ IF part = "live"
       THEN /\ \A c \in Histories : log'[c] = log[c]
            /\ screen'.writes
            /\ screen'.drag.kind = "drag" => screen'.drag.card \in Lives
       ELSE /\ \A c \in Lives : log'[c] = log[c]
            /\ screen'.at.mode = "timeline" /\ screen'.editor = screen.editor
            /\ screen'.drag.kind = "drag" => screen'.drag.card \in Histories
    /\ IF part = "page" THEN screen'.drag = screen.drag
       ELSE screen'.at.filter = Unfiltered /\ preload'.props = preload.props
    /\ \A c \in Histories \cup Lives :
          Len(log'[c]) + screen'.asked <=
              MaxSteps + MaxLoads - (CASE part = "history" -> 0 [] part = "live" -> 1 [] OTHER -> 2)

\* Only staff changes, or is deleted, together with what else happens on the day.
DayFocus ==
    \/ writes' <= 1
    \/ /\ \A e \in C!Entries \ Staff : entry'[e] = "active"
       /\ removing' # C!None => removing'.of \in Staff

Next ==
    /\ UNCHANGED part
    /\ \/ /\ \/ part = "live" /\ D!BoardNext
             \/ part \in {"history", "page"} /\ D!Next
          /\ Focus
          /\ UNCHANGED <<row, listVars, dayVars>>
       \/ part = "row" /\ B!Next /\ UNCHANGED <<boardVars, listVars, dayVars>>
       \/ part = "list" /\ L!Next /\ UNCHANGED <<boardVars, row, dayVars>>
       \/ part = "day" /\ C!Next /\ DayFocus /\ UNCHANGED <<boardVars, row, listVars>>

Spec == Init /\ [][Next]_<<part, boardVars, row, listVars, dayVars>>

\* Cards of a row are drawn apart, and dragged cards land where they can: see Board.
BoardIsDrawnTrue == B!BoardIsDrawnTrue
=============================================================================
