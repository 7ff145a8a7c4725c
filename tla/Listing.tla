------------------------------- MODULE Listing -------------------------------
(***************************************************************************)
(* The lists of the screens and the pages the API answers for them, while  *)
(* others write the rows: reservations, customers, checkouts, registers,   *)
(* master data, the history and, by a cursor, the charts.                  *)
(*                                                                         *)
(* A list is a record of what tells the screens apart: "typed" lists load  *)
(* after each change of their fields, "searched" ones when asked to, with  *)
(* the fields as applied last, and the charts walk along a cursor.         *)
(***************************************************************************)
EXTENDS Integers, FiniteSets, Sequences, FiniteSetsExt, SequencesExt

CONSTANTS
    Ids,            \* of the rows, in the order of the list: the highest first
    PageSize,
    MaxChanges, MaxLoads    \* bounds on the writes of others, on the loads of the screen

Searches == {"all", "some"}      \* without a search, and with one

VARIABLES
    table,      \* what a row is for the search: "absent", "hit" or "miss"
    changes,    \* how many writes there were (history variable)
    screen,     \* the state of the component
    loads,      \* its requests on their way
    removal     \* the DELETE of a row on its way

vars == <<table, changes, screen, loads, removal>>

-----------------------------------------------------------------------------
(* The lists                                                               *)

CustomerList == [style |-> "typed", mounted |-> TRUE, removes |-> TRUE]
MasterList == [style |-> "typed", mounted |-> FALSE, removes |-> TRUE]
ReservationChoice == [style |-> "typed", mounted |-> TRUE, removes |-> FALSE]
ReservationList == [style |-> "searched", mounted |-> FALSE, removes |-> FALSE]
CheckoutList == ReservationList
RegisterList == ReservationList
HistoryList == ReservationList
ChartList == [style |-> "cursor", mounted |-> FALSE, removes |-> FALSE]

Lists == {CustomerList, MasterList, ReservationChoice, ReservationList, CheckoutList,
          RegisterList, HistoryList, ChartList}

-----------------------------------------------------------------------------
(* The pages of the API                                                    *)

\* whereFor
Matching(rows, filter) ==
    {r \in Ids : rows[r] \in (IF filter = "all" THEN {"hit", "miss"} ELSE {"hit"})}

InOrder(ids) ==
    CHOOSE s \in [1 .. Cardinality(ids) -> ids] : \A i, j \in DOMAIN s : i < j => s[i] > s[j]
TotalPages(total) == Max({1, (total + PageSize - 1) \div PageSize})
Clamped(page, total) == Min({page, TotalPages(total)})
OnPage(ids, page) ==
    SubSeq(InOrder(ids), (page - 1) * PageSize + 1, Min({page * PageSize, Cardinality(ids)}))

\* variant: the two statements of a page read what is committed
SnapshotNone(l) == table

\* both statements of a page read what the first one read (RepeatableRead)
Snapshot(l) == l.rows

NoPage == [filter |-> "all", page |-> 1, total |-> 0, rows |-> <<>>, at |-> 0, next |-> 0]

PageOf(rows, filter, page) ==
    LET ids == Matching(rows, filter)
        actual == Clamped(page, Cardinality(ids))
    IN [filter |-> filter, page |-> actual, total |-> Cardinality(ids),
        rows |-> OnPage(ids, actual), at |-> changes, next |-> 0]

\* GET /api/charts: those after the cursor, and the last of them if there are more
PageFrom(rows, start) ==
    LET ids == {r \in Matching(rows, "all") : start = 0 \/ r < start}
        shown == OnPage(ids, 1)
    IN [NoPage EXCEPT !.rows = shown, !.at = changes,
                      !.next = IF Cardinality(ids) > PageSize THEN Last(shown) ELSE 0]

Count(l) ==
    /\ l.stage = "sent" /\ screen.list.style # "cursor" /\ screen.list # ReservationChoice
    /\ loads' = (loads \ {l}) \cup
         {[l EXCEPT !.stage = "counted", !.rows = table, !.at = changes,
                    !.answer.total = Cardinality(Matching(table, l.filter))]}
    /\ UNCHANGED <<table, changes, screen, removal>>

Find(l) ==
    LET page == Clamped(l.page, l.answer.total) IN
    /\ l.stage = "counted"
    /\ loads' = (loads \ {l}) \cup
         {[l EXCEPT !.stage = "read", !.rows = <<>>, !.at = 0,
                    !.answer = [NoPage EXCEPT !.filter = l.filter, !.page = page, !.at = l.at,
                                   !.total = l.answer.total,
                                   !.rows = OnPage(Matching(Snapshot(l), l.filter), page)]]}
    /\ UNCHANGED <<table, changes, screen, removal>>

\* reservationOptions: one statement for the first of the hits, without page or total
FindOptions(l) ==
    LET rows == OnPage(Matching(table, l.filter), 1) IN
    /\ l.stage = "sent" /\ screen.list = ReservationChoice
    /\ loads' = (loads \ {l}) \cup
         {[l EXCEPT !.stage = "read",
                    !.answer = [NoPage EXCEPT !.filter = l.filter, !.total = Len(rows),
                                              !.rows = rows, !.at = changes]]}
    /\ UNCHANGED <<table, changes, screen, removal>>

FindFrom(l) ==
    /\ l.stage = "sent" /\ screen.list.style = "cursor"
    /\ loads' = (loads \ {l}) \cup {[l EXCEPT !.stage = "read", !.answer = PageFrom(table, l.start)]}
    /\ UNCHANGED <<table, changes, screen, removal>>

\* Charts are only added, the other rows come, go and change.
Write(r, kind) ==
    /\ changes < MaxChanges /\ kind # table[r]
    /\ screen.list.style = "cursor" => table[r] = "absent"
    /\ table' = [table EXCEPT ![r] = kind]
    /\ changes' = changes + 1
    /\ UNCHANGED <<screen, loads, removal>>

-----------------------------------------------------------------------------
(* The screens                                                             *)

\* A load replaces the one before it, whose answer is ignored from now on.
Loading(x, filter, page, start, target) ==
    /\ x.n < MaxLoads
    /\ screen' = [x EXCEPT !.n = @ + 1, !.busy = TRUE, !.since = changes]
    /\ loads' = {l \in loads : l.stage # "waiting"} \cup
         {[n |-> x.n + 1, filter |-> filter, page |-> page, start |-> start, target |-> target,
           stage |-> IF x.list.style = "typed" THEN "waiting" ELSE "sent",
           rows |-> <<>>, at |-> 0, answer |-> NoPage]}

\* the effect of a typed list: 250 ms pass before it asks
Effect(x) == Loading(x, x.typed, x.asked, 0, 0)

ShownAtFirst(list) ==
    CASE list.style = "cursor" -> PageFrom(table, 0)
      [] list = ReservationChoice -> NoPage
      [] OTHER -> PageOf(table, "all", 1)

Init ==
    /\ table \in [Ids -> {"absent", "hit", "miss"}]
    /\ changes = 0
    /\ \E list \in Lists :
          /\ list.style = "cursor" => \A r \in Ids : table[r] # "miss"
          /\ LET x == [list |-> list, typed |-> "all", asked |-> 1, applied |-> "all", n |-> 0,
                       since |-> 0, busy |-> FALSE, failed |-> FALSE, shown |-> ShownAtFirst(list),
                       place |-> 0, starts |-> <<0>>]
             IN IF list.mounted
                THEN /\ screen = [x EXCEPT !.n = 1, !.busy = TRUE]
                     /\ loads = {[n |-> 1, filter |-> "all", page |-> 1, start |-> 0, target |-> 0,
                                  stage |-> "waiting", rows |-> <<>>, at |-> 0, answer |-> NoPage]}
                ELSE screen = x /\ loads = {}
    /\ removal = 0

\* a key in the search field, another status or type
Type(filter) ==
    LET x == [screen EXCEPT !.typed = filter, !.asked = 1] IN
    /\ screen.list.style # "cursor" /\ filter # screen.typed
    /\ IF screen.list.style = "typed" THEN Effect(x)
       ELSE screen' = [screen EXCEPT !.typed = filter] /\ UNCHANGED loads
    /\ UNCHANGED <<table, changes, removal>>

\* the search button
Search ==
    /\ screen.list.style = "searched" /\ ~screen.busy
    /\ Loading(screen, screen.typed, 1, 0, 0)
    /\ UNCHANGED <<table, changes, removal>>

\* The pages of a typed list: the effect runs only if the number is another one.
TurnTyped(page) ==
    /\ screen.list.style = "typed" /\ ~screen.busy
    /\ page \in 1 .. TotalPages(screen.shown.total) /\ page \in {screen.shown.page - 1, screen.shown.page + 1}
    /\ page # screen.asked
    /\ screen.list = MasterList => removal = 0
    /\ Effect([screen EXCEPT !.asked = page])
    /\ UNCHANGED <<table, changes, removal>>

\* and those of a searched one stay with the fields as they were applied
TurnSearched(page) ==
    /\ screen.list.style = "searched" /\ ~screen.busy
    /\ page \in 1 .. TotalPages(screen.shown.total) /\ page \in {screen.shown.page - 1, screen.shown.page + 1}
    /\ Loading(screen, screen.applied, page, 0, 0)
    /\ UNCHANGED <<table, changes, removal>>

\* the next page of the charts begins at the cursor, an earlier one where it began
TurnCharts(target) ==
    /\ screen.list.style = "cursor" /\ ~screen.busy
    /\ target >= 0 /\ target \in {screen.place - 1, screen.place + 1}
    /\ target > screen.place => screen.shown.next # 0
    /\ Loading(screen, "all", 1,
               IF target > screen.place THEN screen.shown.next ELSE screen.starts[target + 1], target)
    /\ UNCHANGED <<table, changes, removal>>

\* the timer of the effect
Send(l) ==
    /\ l.stage = "waiting"
    /\ loads' = (loads \ {l}) \cup {[l EXCEPT !.stage = "sent"]}
    /\ UNCHANGED <<table, changes, screen, removal>>

\* signal.aborted, and the sequence number
Ignored(l) == l.n # screen.n

\* setResult and setRequestedPage: a page that was clamped is asked for again
ReceiveTyped(l) ==
    LET x == [screen EXCEPT !.shown = l.answer, !.asked = l.answer.page, !.busy = FALSE,
                            !.failed = FALSE]
    IN IF l.answer.page = screen.asked THEN screen' = x /\ loads' = loads \ {l}
       ELSE Effect(x)

ReceiveSearched(l) ==
    /\ screen' = [screen EXCEPT !.shown = l.answer, !.applied = l.filter, !.busy = FALSE]
    /\ loads' = loads \ {l}

ReceiveCharts(l) ==
    /\ screen' = [screen EXCEPT !.shown = l.answer, !.place = l.target, !.busy = FALSE,
                     !.starts = IF l.target > screen.place
                                THEN Append(SubSeq(@, 1, l.target), l.start) ELSE @]
    /\ loads' = loads \ {l}

Receive(l) ==
    /\ l.stage = "read"
    /\ IF Ignored(l) THEN loads' = loads \ {l} /\ UNCHANGED screen
       ELSE CASE screen.list.style = "typed" -> ReceiveTyped(l)
              [] screen.list.style = "searched" -> ReceiveSearched(l)
              [] OTHER -> ReceiveCharts(l)
    /\ UNCHANGED <<table, changes, removal>>

\* a refusal or a lost answer: the message, and what was shown before
Lose(l) ==
    /\ l.stage # "waiting"
    /\ loads' = loads \ {l}
    /\ screen' = IF Ignored(l) THEN screen ELSE [screen EXCEPT !.busy = FALSE, !.failed = TRUE]
    /\ UNCHANGED <<table, changes, removal>>

\* The DELETE of a row on the page, or of the customer looked at, and its answer,
\* which loads the page again.
RemoveRow(r) ==
    /\ screen.list.removes /\ removal = 0 /\ changes < MaxChanges /\ table[r] # "absent"
    /\ screen.list = MasterList =>
          ~screen.busy /\ \E i \in DOMAIN screen.shown.rows : screen.shown.rows[i] = r
    /\ table' = [table EXCEPT ![r] = "absent"]
    /\ changes' = changes + 1
    /\ removal' = r
    /\ UNCHANGED <<screen, loads>>

Removed ==
    /\ removal # 0
    /\ removal' = 0
    /\ Effect(screen)
    /\ UNCHANGED <<table, changes>>

RemovalLost ==
    /\ removal # 0
    /\ removal' = 0
    /\ UNCHANGED <<table, changes, screen, loads>>

Next ==
    \/ \E r \in Ids : RemoveRow(r) \/ \E kind \in {"absent", "hit", "miss"} : Write(r, kind)
    \/ \E filter \in Searches : Type(filter)
    \/ \E page \in 1 .. Cardinality(Ids) : TurnTyped(page) \/ TurnSearched(page)
    \/ \E target \in 0 .. Cardinality(Ids) : TurnCharts(target)
    \/ Search \/ Removed \/ RemovalLost
    \/ \E l \in loads : Send(l) \/ Count(l) \/ Find(l) \/ FindOptions(l) \/ FindFrom(l)
                      \/ Receive(l) \/ Lose(l)

Spec == Init /\ [][Next]_vars

-----------------------------------------------------------------------------
\* The number of hits, the number of the page and its rows fit together.
PageIsWhole ==
    LET s == screen.shown IN
    screen.list.style # "cursor" =>
        /\ s.page <= TotalPages(s.total)
        /\ Len(s.rows) = Min({PageSize, s.total - (s.page - 1) * PageSize})

\* What is shown at rest is what was asked for last, read since it was asked.
PageIsTheOneAskedFor ==
    CASE screen.list.style = "typed" ->
           ~screen.busy /\ ~screen.failed =>
               /\ screen.shown.filter = screen.typed /\ screen.shown.page = screen.asked
               /\ screen.shown.at >= screen.since
      [] screen.list.style = "searched" -> screen.shown.filter = screen.applied
      [] OTHER ->
           \* the pages of the charts follow each other without a gap or a repeat
           /\ \A i \in 1 .. screen.place : screen.starts[i + 1] < (IF i = 1 THEN Cardinality(Ids) + 1
                                                                  ELSE screen.starts[i])
           /\ screen.place > 0 =>
                 \A i \in DOMAIN screen.shown.rows : screen.shown.rows[i] < screen.starts[screen.place + 1]

\* Whatever is typed, turned, removed or answered late, a list shows one page of
\* one moment of what was asked for.
ListsShowOnePage == PageIsWhole /\ PageIsTheOneAskedFor
=============================================================================
