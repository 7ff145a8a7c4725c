------------------------------ MODULE Dashboard ------------------------------
(***************************************************************************)
(* The reservation board on a clerk's screen (reservation-dashboard.tsx,   *)
(* timeline-reservation-editor.tsx, dashboard-preload.ts,                  *)
(* schedule-drag.ts) over the rows it moves (history-schedule.ts; PATCH of *)
(* a reservation is in module Booking).  What others do with the cards is  *)
(* the action Elsewhere.                                                   *)
(*                                                                         *)
(* A document brings rows with it, the seed; the page rendered again by    *)
(* the server brings other props, or those of the document once more out   *)
(* of the cache of the router.                                             *)
(*                                                                         *)
(* A card of the history has a version and may be put back; a live         *)
(* reservation has none.  A request and its answer are two steps, and      *)
(* between them the clerk goes on.  A handler of the browser and the       *)
(* effects of its render are one step.                                     *)
(***************************************************************************)
EXTENDS Integers, Sequences, SequencesExt

CONSTANTS
    Tenants, Dates,     \* a tenant and its salon; the days of the board
    Filters, Unfiltered,    \* search and status; the one that leaves nothing out
    Histories, Lives,   \* cards
    BoardOf,            \* the board [tenant, date] a card is on
    Slots, FirstSlot,   \* start and row of a card
    MaxLoads, MaxSteps  \* bounds on the loads of the screen, on the moves of a card

Modes == {"timeline", "agenda"}
Boards == [tenant: Tenants, date: Dates]
Contexts == [board: Boards, filter: Filters, mode: Modes]
BoardCards == Histories \cup Lives

VARIABLES
    log,        \* where each card was put, by whom and why, oldest first
    screen,     \* the state of the component
    preload,    \* its props, and what is remembered of the seed
    loads,      \* GET /api/dashboard on its way: which, for what, the answer
    save,       \* the PATCH of a card on its way
    form        \* that of the editor

vars == <<log, screen, preload, loads, save, form>>

-----------------------------------------------------------------------------
Where(c) == Last(log[c]).slot
Version(c) == Len(log[c]) - 1
CardsOf(b) == {c \in BoardCards : BoardOf[c] = b}
\* what GET answers for a board at this moment
Rows(b) == [c \in CardsOf(b) |-> [slot |-> Where(c), version |-> Version(c)]]
Versions == [c \in BoardCards |-> Version(c)]

None == [kind |-> "none"]
Nothing == [c \in {} |-> 0]

\* the context without the mode of the view, which loads nothing
Request(at) == [board |-> at.board, filter |-> at.filter]

-----------------------------------------------------------------------------
(* The seed                                                                *)

\* whose rendering the props are of: renderId, and the identity of initialData
Renderings == {"document", "later"}

\* What the effect of the load depends on.  That refreshKey has left 0 counts, not how far.
RequestKey(x, p) ==
    [request |-> Request(x.at), refreshed |-> p.refreshed, reads |-> x.reads, props |-> p.props]

MatchingDashboardPreload(x, p) ==
    /\ p.props = "document" /\ p.seed # None /\ p.seed.board = x.at.board
    /\ x.reads /\ ~p.refreshed /\ x.at.filter = Unfiltered

\* variant: the seed is taken as well where the component comes back
PreloadStateHydrated(x, seed, props, hydrating) ==
    [seed |-> seed, props |-> props, refreshed |-> FALSE,
     key |-> RequestKey(x, [props |-> props, refreshed |-> FALSE]), invalidated |-> FALSE]

\* dashboardPreloadState, at the first render of the component
DashboardPreloadState(x, seed, props, hydrating) ==
    [seed |-> seed, props |-> props, refreshed |-> FALSE,
     key |-> RequestKey(x, [props |-> props, refreshed |-> FALSE]), invalidated |-> ~hydrating]

\* variant: a seed that matches is taken whatever was asked for meanwhile
InvalidatedAtFirst(x, p) == p.invalidated

\* for good, once the request or the props have changed
Invalidated(x, p) == p.invalidated \/ p.key # RequestKey(x, p)

TakeDashboardPreload(x, p) == ~Invalidated(x, p) /\ MatchingDashboardPreload(x, p)

\* what takeDashboardPreload remembers
Remembered(x, p) == [p EXCEPT !.key = RequestKey(x, p), !.invalidated = Invalidated(x, p)]

-----------------------------------------------------------------------------
(* The load effect                                                         *)

\* What is shown stays until the answer, and cannot be touched.  The effects of
\* earlier renders are over, also when this one sends nothing.
Loading(x, p) ==
    LET begun == [x EXCEPT !.asked = @ + 1, !.since = Versions, !.drag = None, !.editor = None]
        still == [begun EXCEPT !.of = Request(x.at), !.loading = FALSE]
    IN IF ~x.reads THEN [still EXCEPT !.shown = Nothing]
       ELSE IF TakeDashboardPreload(x, p)
       THEN [still EXCEPT !.shown = p.seed.rows, !.failed = FALSE]
       ELSE [begun EXCEPT !.loading = TRUE, !.failed = FALSE]

Sending(x) ==
    IF x.loading
    THEN {[n |-> x.asked, request |-> Request(x.at), rows |-> Nothing, stage |-> "sent"]} ELSE {}

\* a render that runs the effect
Rerender(x, p) ==
    /\ x.asked < MaxLoads
    /\ screen' = Loading(x, p) /\ preload' = Remembered(x, p)
    /\ loads' = loads \cup Sending(Loading(x, p))

\* a component that was just put on the page
Mounted(at, reads, writes, asked) ==
    [at |-> at, reads |-> reads, writes |-> writes, loading |-> FALSE, failed |-> FALSE,
     asked |-> asked, since |-> Versions, of |-> Request(at), shown |-> Nothing,
     editor |-> None, drag |-> None, undo |-> None]

Entrances == {at \in Contexts : at.filter = Unfiltered /\ at.mode = "timeline"}

\* A document, whose rows were read when it was asked for, if they could be, and for the
\* day and the salon that the server took it to be about.
Init ==
    /\ log = [c \in BoardCards |-> <<[slot |-> FirstSlot, by |-> "import", kind |-> "first"]>>]
    /\ \E at \in Entrances, seed \in {None} \cup {[kind |-> "seed", board |-> b, rows |-> Rows(b)] :
                                                b \in Boards} :
          LET x == Mounted(at, TRUE, TRUE, 0) IN
          /\ preload = DashboardPreloadState(x, seed, "document", TRUE)
          /\ screen = Loading(x, preload)
    /\ loads = Sending(screen)
    /\ save = None /\ form = None

-----------------------------------------------------------------------------
(* Where the clerk is                                                      *)

\* changeDate or another salon, for which the server renders the page again; a search, a
\* status, the view mode
Navigate(at, props) ==
    LET x == [screen EXCEPT !.at = at, !.drag = None, !.undo = None]
        p == [preload EXCEPT !.props = props]
    IN /\ at # screen.at
       /\ at.board = screen.at.board => screen.reads /\ props = preload.props
       /\ IF Request(at) = Request(screen.at)
          THEN screen' = x /\ UNCHANGED <<preload, loads>> ELSE Rerender(x, p)
       /\ UNCHANGED <<log, save, form>>

Refreshed == [preload EXCEPT !.refreshed = TRUE]

\* the refresh button
Refresh == screen.reads /\ Rerender(screen, Refreshed) /\ UNCHANGED <<log, save, form>>

\* The server renders the page again where the clerk is.
Rendered(props) ==
    /\ preload.props = "document" => props # "document"
    /\ Rerender(screen, [preload EXCEPT !.props = props])
    /\ UNCHANGED <<log, save, form>>

\* The clerk has gone to another page and comes back.  What was on its way is answered
\* to a component that is no more.
Unawaited(w) == IF w = None THEN None ELSE [w EXCEPT !.context = None]

Return(at, props) ==
    LET x == Mounted(at, screen.reads, screen.writes, screen.asked) IN
    /\ Rerender(x, DashboardPreloadState(x, preload.seed, props, FALSE))
    /\ save' = Unawaited(save) /\ form' = Unawaited(form)
    /\ UNCHANGED log

\* reservation.write is given or taken, and reservation.read
ChangeRights ==
    /\ screen' = [screen EXCEPT !.writes = ~@, !.drag = None, !.undo = None, !.editor = None]
    /\ UNCHANGED <<log, preload, loads, save, form>>

ChangeReading ==
    /\ Rerender([screen EXCEPT !.reads = ~@], preload)
    /\ UNCHANGED <<log, save, form>>

Read(l) ==
    /\ l.stage = "sent"
    /\ loads' = (loads \ {l}) \cup {[l EXCEPT !.rows = Rows(l.request.board), !.stage = "read"]}
    /\ UNCHANGED <<log, screen, preload, save, form>>

\* variant: the answer is taken whichever request it is for
IgnoredNever(l) == FALSE

\* the effect that sent the request has been cleaned up
Ignored(l) == l.n # screen.asked

Receive(l) ==
    /\ l.stage = "read"
    /\ loads' = loads \ {l}
    /\ screen' = IF Ignored(l) THEN screen
                 ELSE [screen EXCEPT !.of = l.request, !.shown = l.rows, !.loading = FALSE]
    /\ UNCHANGED <<log, preload, save, form>>

LoseLoad(l) ==
    /\ loads' = loads \ {l}
    /\ screen' = IF Ignored(l) THEN screen
                 ELSE [screen EXCEPT !.of = Request(screen.at), !.shown = Nothing,
                                     !.failed = TRUE, !.loading = FALSE]
    /\ UNCHANGED <<log, preload, save, form>>

-----------------------------------------------------------------------------
(* What the clerk does with a card                                         *)

\* what can be touched
InReach(c) ==
    /\ screen.reads /\ screen.writes /\ ~screen.loading
    /\ screen.of.board.date = screen.at.board.date
    /\ screen.at.mode = "timeline" /\ c \in DOMAIN screen.shown

\* startHistoryInteraction and startReservationInteraction; an open form covers the cards
Grab(c) ==
    /\ InReach(c) /\ save = None /\ screen.editor = None
    /\ screen' = [screen EXCEPT !.drag = [kind |-> "drag", context |-> screen.at, card |-> c,
                                          row |-> screen.shown[c]]]
    /\ UNCHANGED <<log, preload, loads, save, form>>

\* Escape, a resize, a scroll, the loss of the pointer
CancelInteraction ==
    /\ screen.drag # None
    /\ screen' = [screen EXCEPT !.drag = None]
    /\ UNCHANGED <<log, preload, loads, save, form>>

Sent(kind, c, row, to, expected) ==
    [kind |-> kind, context |-> screen.at, card |-> c, row |-> row, to |-> to,
     expected |-> expected, stage |-> "sent", result |-> 0]

\* finishReservationInteraction: a drop outside the board, or on the same place,
\* sends nothing; saveHistoryMove and saveTimelineChange send the new place
Drop(to) ==
    LET d == screen.drag IN
    /\ d # None /\ screen.writes /\ d.context = screen.at /\ save = None
    /\ screen' = [screen EXCEPT !.drag = None]
    /\ to # d.row.slot
    /\ save' = Sent(IF d.card \in Histories THEN "move" ELSE "edit",
                    d.card, d.row, to, d.row.version)
    /\ UNCHANGED <<log, preload, loads, form>>

Editing(c) == [kind |-> "editor", card |-> c, busy |-> FALSE]

\* a key on a live card, also while another is in the form or a card is being saved
OpenEditor(c) ==
    /\ c \in Lives /\ InReach(c)
    /\ screen.editor # None => screen.editor.card # c
    /\ screen' = [screen EXCEPT !.editor = Editing(c)]
    /\ UNCHANGED <<log, preload, loads, save, form>>

\* a click, which is a live card taken and let go where it is
Click ==
    LET d == screen.drag IN
    /\ d # None /\ d.card \in Lives /\ screen.writes /\ d.context = screen.at
    /\ screen' = [screen EXCEPT !.drag = None, !.editor = Editing(d.card)]
    /\ UNCHANGED <<log, preload, loads, save, form>>

\* A form that was sent cannot be closed, but a load or another card takes it away.
CloseEditor ==
    /\ screen.editor # None /\ ~screen.editor.busy
    /\ screen' = [screen EXCEPT !.editor = None]
    /\ UNCHANGED <<log, preload, loads, save, form>>

\* One form is on its way at a time, a bound: the one that took its place waits.
SubmitEditor(to) ==
    /\ screen.editor # None /\ form = None
    /\ form' = Sent("form", screen.editor.card, None, to, 0)
    /\ screen' = [screen EXCEPT !.editor.busy = TRUE]
    /\ UNCHANGED <<log, preload, loads, save>>

\* the version that the move to be taken back has made
UndoVersion(u) == u.expected

\* undoHistoryMove
UndoHistoryMove ==
    LET u == screen.undo IN
    /\ u # None /\ screen.writes /\ u.tenant = screen.at.board.tenant
    /\ screen.reads /\ ~screen.loading /\ save = None
    /\ save' = Sent("undo", u.card, None, u.to, UndoVersion(u))
    /\ UNCHANGED <<log, screen, preload, loads, form>>

-----------------------------------------------------------------------------
(* The server                                                              *)

\* variant: the last one wins
CurrentVersionAny(c, expected) == TRUE

CurrentVersion(c, expected) == expected = Version(c)

Put(c, to, who, kind) ==
    /\ Version(c) < MaxSteps
    /\ log' = [log EXCEPT ![c] = Append(@, [slot |-> to, by |-> who, kind |-> kind])]

Elsewhere(c, to) == Put(c, to, "other", "move") /\ UNCHANGED <<screen, preload, loads, save, form>>

\* PATCH .../schedule, which compares the version, and PATCH /api/reservations/:id
Serve ==
    /\ save # None /\ save.stage = "sent"
    /\ IF save.card \in Lives \/ CurrentVersion(save.card, save.expected)
       THEN /\ Put(save.card, save.to, "me", save.kind)
            /\ save' = [save EXCEPT !.stage = "saved", !.result = Version(save.card) + 1]
       ELSE save' = [save EXCEPT !.stage = "stale"] /\ UNCHANGED log
    /\ UNCHANGED <<screen, preload, loads, form>>

ServeForm ==
    /\ form # None /\ form.stage = "sent"
    /\ Put(form.card, form.to, "me", "form")
    /\ form' = [form EXCEPT !.stage = "saved"]
    /\ UNCHANGED <<screen, preload, loads, save>>

\* a refusal, or an answer that does not arrive, whatever was done
Fail ==
    /\ save # None /\ save' = None
    /\ UNCHANGED <<log, screen, preload, loads, form>>

FailForm ==
    /\ form # None /\ form' = None
    /\ screen' = (IF screen.editor = None THEN screen ELSE [screen EXCEPT !.editor.busy = FALSE])
    /\ UNCHANGED <<log, preload, loads, save>>

-----------------------------------------------------------------------------
(* The answers                                                             *)

\* the card of a move is put where it now is, before the board is loaded again
Patched(x) ==
    IF save.kind = "move" /\ save.card \in DOMAIN x.shown
    THEN [x EXCEPT !.shown[save.card] = [slot |-> save.to, version |-> save.result]] ELSE x

UndoOf(w) == [kind |-> "undo", tenant |-> w.context.board.tenant, card |-> w.card,
              to |-> w.row.slot, expected |-> w.result]

\* An answer to another context changes nothing.
Answer ==
    /\ save # None /\ save.stage \in {"saved", "stale"}
    /\ save' = None
    /\ IF save.context # screen.at THEN UNCHANGED <<screen, preload, loads>>
       ELSE IF save.stage = "saved"
       THEN Rerender([Patched(screen) EXCEPT
                !.undo = IF save.kind = "move" THEN UndoOf(save) ELSE None], Refreshed)
       ELSE Rerender([screen EXCEPT !.undo = None], Refreshed)
    /\ UNCHANGED <<log, form>>

\* onSaved, wherever on the page the clerk is by now
AnswerForm ==
    /\ form # None /\ form.stage = "saved"
    /\ form' = None
    /\ IF form.context = None THEN UNCHANGED <<screen, preload, loads>>
       ELSE Rerender([screen EXCEPT !.undo = None, !.editor = None], Refreshed)
    /\ UNCHANGED <<log, save>>

-----------------------------------------------------------------------------
\* what happens on the board
BoardNext ==
    \/ \E at \in Contexts, props \in Renderings : Navigate(at, props)
    \/ Refresh \/ ChangeRights
    \/ CancelInteraction \/ Click \/ CloseEditor \/ UndoHistoryMove
    \/ \E c \in BoardCards : \/ Grab(c) \/ OpenEditor(c)
                           \/ \E to \in Slots : Elsewhere(c, to)
    \/ \E to \in Slots : Drop(to) \/ SubmitEditor(to)
    \/ Serve \/ ServeForm \/ Fail \/ FailForm \/ Answer \/ AnswerForm
    \/ \E l \in loads : Read(l) \/ Receive(l) \/ LoseLoad(l)

\* and to the page it is on
PageNext ==
    \/ ChangeReading
    \/ \E props \in Renderings : Rendered(props) \/ \E at \in Entrances : Return(at, props)

Next == BoardNext \/ PageNext

Spec == Init /\ [][Next]_vars

-----------------------------------------------------------------------------
\* What the screen shows when it does not load is what was asked for last, and for
\* every card at least as new as the last asking, which each run of the load effect is:
\* after a navigation, a refresh, a save or another rendering neither a late answer nor
\* the seed of the document, nor a local patch, shows an older board or another one.
ShowsTheContext ==
    screen.reads /\ ~screen.loading /\ ~screen.failed =>
        /\ screen.of = Request(screen.at) /\ DOMAIN screen.shown = CardsOf(screen.at.board)
        /\ \A c \in DOMAIN screen.shown :
              LET row == screen.shown[c] IN
              /\ screen.since[c] <= row.version /\ row.version <= Version(c)
              /\ row.slot = log[c][row.version + 1].slot

\* Taking back the last move takes back the clerk's own one and no other: nobody
\* has touched the card since, and it goes where it was before.
UndoTakesBackOwnMove ==
    [][\A c \in BoardCards : log'[c] # log[c] /\ Last(log'[c]).kind = "undo" =>
          /\ Last(log[c]).kind = "move" /\ Last(log[c]).by = "me"
          /\ Last(log'[c]).slot = log[c][Version(c)].slot]_vars
=============================================================================
