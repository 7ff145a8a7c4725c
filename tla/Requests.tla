------------------------------- MODULE Requests -------------------------------
(***************************************************************************)
(* Requests that are made again, side by side: transactions that wait for  *)
(* each other's row locks and are repeated (Locks), imports whose chunks   *)
(* are sent again (Imports), and forms whose connection breaks (Forms).    *)
(* They share no state.                                                    *)
(***************************************************************************)
EXTENDS Locks, FiniteSets

CONSTANTS
    Clerks, Records, Files, ChunkSize, Keys, Publications, KeyOf, NoFile, Nobody,
    MaxStarts, MaxStaff, MaxEdits,                          \* Imports
    Values, Stopped, MaxChanges, MaxTouches, MaxRequests    \* Forms

VARIABLES
    kind, rows, deleted, runs, staff, hired, named, links, pages, posts, starts, edits,
    row, made, page, net, changes, touches

I == INSTANCE Imports
F == INSTANCE Forms

\* There are finitely many files, each a sequence of records that is cut into chunks, and
\* every record of the history names staff.
ASSUME RequestsAssumption ==
    /\ IsFiniteSet(Records) /\ IsFiniteSet(DOMAIN Files)
    /\ Files \in [DOMAIN Files -> Seq(Records)]
    /\ ChunkSize \in Nat \ {0} /\ KeyOf \in [Records -> Keys] /\ IsFiniteSet(Keys)
    /\ Publications \subseteq Keys /\ Nobody \notin Clerks /\ NoFile \notin DOMAIN Files

\* Every record of a file is imported once and linked as reviewed: see Imports.
ImportsAreExact == I!ImportsAreExact

\* A form saves what was changed in it and nothing that nobody saw: see Forms.
FormsSaveWhatWasChanged == F!FormsSaveWhatWasChanged
=============================================================================
