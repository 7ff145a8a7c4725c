--------------------------------- MODULE Web ---------------------------------
(***************************************************************************)
(* The screens of the web application, whose requests are answered late:   *)
(* the board of one clerk (Dashboard), the lists (Listing), and what the   *)
(* board of a day is put together from (Catalog).  They share no state.    *)
(***************************************************************************)
EXTENDS Integers, FiniteSets, Sequences

CONSTANTS
    Tenants, Dates, Filters, Unfiltered, Histories, Lives, BoardOf, Slots, FirstSlot,
    MaxLoads, MaxSteps,                                                 \* Dashboard
    Ids, PageSize, MaxChanges,                                          \* Listing
    Staff, Menus, Categories, Equipment, Customers, Cards, Records, CardStarts, CardEnds, NoEnd,
    Opening, Closing, Nobody, MaxWrites                                 \* Catalog

VARIABLES
    log, screen, preload, loads, save, form,            \* Dashboard
    table, changes, list, requests, removal,            \* Listing
    entry, cards, shifts, removing, reading, writes     \* Catalog

D == INSTANCE Dashboard
L == INSTANCE Listing WITH screen <- list, loads <- requests
C == INSTANCE Catalog WITH Starts <- CardStarts, Ends <- CardEnds, Open <- Opening, Close <- Closing

\* A card is of the history or live and is on one board; staff, what cards refer to, and what
\* nothing refers to are different entries.  The rows of a list are numbered by their places.
ASSUME WebAssumption ==
    /\ Histories \cap Lives = {} /\ Unfiltered \in Filters
    /\ BoardOf \in [Histories \cup Lives -> [tenant : Tenants, date : Dates]]
    /\ IsFiniteSet(Cards) /\ CardStarts \subseteq Nat /\ CardEnds \subseteq Nat
    /\ NoEnd \notin CardEnds /\ Opening \in Nat /\ Closing \in Nat
    /\ Staff \cap (Categories \cup Equipment \cup Customers) = {}
    /\ IsFiniteSet(Ids) /\ Ids = 1 .. Cardinality(Ids) /\ PageSize \in Nat \ {0}

\* The board shows what was asked for last, read since it was asked: see Dashboard.
ShowsTheContext == D!ShowsTheContext

\* Taking back a move takes back the clerk's own last one: see Dashboard.
UndoTakesBackOwnMove == D!UndoTakesBackOwnMove

\* A list shows one page of one moment of what was asked for: see Listing.
ListsShowOnePage == L!ListsShowOnePage

\* No card of a day is without a row or outside the hours of the board: see Catalog.
EveryCardHasItsPlace == C!EveryCardHasItsPlace
=============================================================================
