------------------------------ MODULE MCRequests ------------------------------
(* The models of requests that are sent again, checked in one run: what the   *)
(* transactions of the API lock (part "locks"), the imports, whose chunks are *)
(* repeated (part "imports", where each edit there may be takes the place of  *)
(* an import), and the forms (part "forms").  The variables of the other      *)
(* parts keep their values.                                                   *)
EXTENDS Requests, TLC

CONSTANTS first, second, rec1, rec2, rec3

\* Two files that overlap in all but one record; the first has a short last chunk.
FilesDef == (first :> <<rec1, rec2, rec3>>) @@ (second :> <<rec3, rec2>>)
\* One staff is named by an identifier, the other by a label.
KeyOfDef == (rec1 :> 1) @@ (rec2 :> 2) @@ (rec3 :> 2)

VARIABLE part

imported == <<kind, rows, deleted, runs, staff, hired, named, links, pages, posts, starts, edits>>
form == <<row, made, page, net, changes, touches>>

MCInit ==
    /\ part \in {"locks", "imports", "forms"}
    /\ Init /\ F!Init /\ (part # "forms" => page.kind = "new")
    /\ kind \in {"customers", "history"} /\ (part \in {"locks", "forms"} => kind = "customers")
    /\ rows = [r \in Records |-> 0] /\ deleted = rows /\ links = rows
    /\ runs = [f \in DOMAIN Files |-> I!NoRun]
    /\ staff = [k \in Keys |-> 0] /\ hired = 0 /\ named = {}
    /\ pages = [x \in Clerks |-> I!Fresh] /\ posts = {}
    /\ starts \in 0 .. MaxEdits /\ edits = MaxEdits - starts
    /\ part # "imports" => starts = 0

MCNext ==
    \/ part = "locks" /\ Next /\ UNCHANGED <<part, imported, form>>
    \/ part = "imports" /\ I!Next /\ UNCHANGED <<part, tx, form>>
    \/ part = "forms" /\ F!Next /\ UNCHANGED <<part, tx, imported>>

MCSpec == MCInit /\ [][MCNext]_<<part, tx, imported, form>> /\ Fairness
=============================================================================
