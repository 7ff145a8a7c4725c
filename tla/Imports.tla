------------------------------- MODULE Imports -------------------------------
(***************************************************************************)
(* Files of customers or of the reservation history, imported in chunks    *)
(* (customer-import-routes.ts, history-import-routes.ts), staff files      *)
(* (staff-import-routes.ts), the links of the history to its staff         *)
(* (history-staff-links.ts), and the pages of the clerks that send them.   *)
(*                                                                         *)
(* Answers get lost, requests outlive the page that sent them, and clerks  *)
(* work on overlapping files.  Files that do not parse and chunks that do  *)
(* not match their manifest are refused without a trace: the pages send    *)
(* none.  A refusal (rights, 409, 500) looks like a lost request here.     *)
(***************************************************************************)
EXTENDS Integers, FiniteSets, Sequences, FiniteSetsExt, Functions

CONSTANTS
    Clerks,
    Records,        \* external identities of customers or of reservations
    Files,          \* what each file holds: a sequence of records, by its checksum
    ChunkSize,
    Keys,           \* of the staff a record of the history names
    Publications,   \* the keys that are identifiers of the source; others are labels
    KeyOf,
    NoFile, Nobody,
    MaxStarts, MaxStaff, MaxEdits   \* bounds on imports begun, staff, edits

VARIABLES
    kind,       \* "customers" or "history": what the files hold
    rows,       \* how many local rows each record has
    deleted,    \* how many rows of a record were deleted (history variable)
    runs,       \* CustomerImportRun, HistoricalReservationImportRun, of each file
    staff,      \* StaffExternalRecord: the staff of a key, 0 if there is none
    hired,      \* how many staff there have been
    named,      \* labels that are also the name of other staff
    links,      \* the staff of each record of the history, 0 if there is none
    pages,      \* of the clerks
    posts,      \* requests and answers on their way
    starts, edits

vars == <<kind, rows, deleted, runs, staff, hired, named, links, pages, posts, starts, edits>>
database == <<rows, deleted, runs, staff, hired, named, links>>

-----------------------------------------------------------------------------
(* The manifests                                                           *)

NoRun == [offsets |-> {}, created |-> 0, skipped |-> 0, prepared |-> FALSE]

Offsets(f) == {i \in 0 .. (Len(Files[f]) - 1) : i % ChunkSize = 0}
Chunk(f, offset) == SubSeq(Files[f], offset + 1, Min({offset + ChunkSize, Len(Files[f])}))
InChunk(f, offset) == {Chunk(f, offset)[i] : i \in DOMAIN Chunk(f, offset)}

\* summary
Summary(f, run) == [offsets |-> run.offsets, completed |-> run.created + run.skipped = Len(Files[f])]

\* POST prepare: the run of the checksum, or a new one
Prepare(p) ==
    /\ runs' = [runs EXCEPT ![p.file].prepared = TRUE]
    /\ posts' = (posts \ {p}) \cup {[p EXCEPT !.served = TRUE, !.answer = Summary(p.file, runs[p.file])]}
    /\ UNCHANGED <<rows, deleted, staff, hired, named, links>>

\* variant: a chunk that was committed already is taken once more
AlreadyProcessedNever(run, offset) == FALSE

AlreadyProcessed(run, offset) == offset \in run.offsets

\* POST chunks, in one transaction under the lock of the salon
TakeChunk(p) ==
    LET run == runs[p.file]
        new == {r \in InChunk(p.file, p.offset) : rows[r] = 0}
        after == IF AlreadyProcessed(run, p.offset) THEN run
                 ELSE [run EXCEPT !.offsets = @ \cup {p.offset}, !.created = @ + Cardinality(new),
                                  !.skipped = @ + Len(Chunk(p.file, p.offset)) - Cardinality(new)]
    IN /\ runs' = [runs EXCEPT ![p.file] = after]
       /\ rows' = IF AlreadyProcessed(run, p.offset) THEN rows
                  ELSE [r \in Records |-> IF r \in new THEN rows[r] + 1 ELSE rows[r]]
       /\ posts' = (posts \ {p}) \cup {[p EXCEPT !.served = TRUE, !.answer = Summary(p.file, after)]}
       /\ UNCHANGED <<deleted, staff, hired, named, links>>

\* DELETE of an imported customer: its external record goes with it
DeleteCustomer(r) ==
    /\ kind = "customers" /\ rows[r] > 0
    /\ rows' = [rows EXCEPT ![r] = @ - 1]
    /\ deleted' = [deleted EXCEPT ![r] = @ + 1]
    /\ UNCHANGED <<runs, staff, hired, named, links>>

-----------------------------------------------------------------------------
(* Staff                                                                   *)

\* a staff file: those without an external record are created, all or none
ImportStaff(keys) ==
    LET new == {k \in keys : staff[k] = 0} IN
    /\ kind = "history" /\ hired + Cardinality(new) <= MaxStaff
    /\ hired' = hired + Cardinality(new)
    /\ staff' \in {s \in [Keys -> 0 .. hired'] :
                     /\ \A k \in Keys \ new : s[k] = staff[k]
                     /\ {s[k] : k \in new} = (hired + 1) .. hired'}
    /\ UNCHANGED <<rows, deleted, runs, named, links>>

\* DELETE of staff nothing refers to: its external record goes with it
DeleteStaff(k) ==
    /\ kind = "history" /\ staff[k] # 0 /\ \A r \in Records : links[r] # staff[k]
    /\ staff' = [staff EXCEPT ![k] = 0]
    /\ UNCHANGED <<rows, deleted, runs, hired, named, links>>

\* staff with the name of a label is saved, imported by name, or renamed
Name(k) ==
    /\ kind = "history" /\ k \notin Publications
    /\ named' = (named \ {k}) \cup ({k} \ named)
    /\ UNCHANGED <<rows, deleted, runs, staff, hired, links>>

-----------------------------------------------------------------------------
(* The links of the history                                                *)

History == {r \in Records : rows[r] > 0}
Groups == {KeyOf[r] : r \in History}

\* buildHistoryStaffLinkPlan: what the checksum is made of, and the rest
Checksum == [records |-> History, targets |-> [k \in Groups \cap Publications |-> staff[k]]]

Ready ==
    /\ History # {}
    /\ \A k \in Groups : staff[k] = 0 => k \notin Publications /\ k \notin named
    /\ \A r \in History : links[r] \in {0, staff[KeyOf[r]]}

Pending == {r \in History : staff[KeyOf[r]] = 0 \/ links[r] # staff[KeyOf[r]]}

Reviewed == [checksum |-> Checksum, ready |-> Ready, pending |-> Pending]

\* POST prepare of the links
Plan(p) ==
    /\ posts' = (posts \ {p}) \cup {[p EXCEPT !.served = TRUE, !.answer = Reviewed]}
    /\ UNCHANGED database

\* POST apply: 409 if what was reviewed is not what is there now.  Labels without
\* staff get staff that takes no bookings.
Apply(p) ==
    LET new == {k \in Groups : staff[k] = 0} IN
    IF p.checksum # Checksum \/ ~Ready
    THEN /\ posts' = (posts \ {p}) \cup {[p EXCEPT !.served = TRUE, !.answer = [linked |-> -1]]}
         /\ UNCHANGED database
    ELSE /\ hired + Cardinality(new) <= MaxStaff
         /\ hired' = hired + Cardinality(new)
         /\ staff' \in {s \in [Keys -> 0 .. hired'] :
                          /\ \A k \in Keys \ new : s[k] = staff[k]
                          /\ {s[k] : k \in new} = (hired + 1) .. hired'}
         /\ links' = [r \in Records |-> IF r \in History /\ links[r] = 0 THEN staff'[KeyOf[r]]
                                        ELSE links[r]]
         /\ posts' = (posts \ {p}) \cup
              {[p EXCEPT !.served = TRUE,
                         !.answer = [linked |-> Cardinality({r \in History : links'[r] # 0})]]}
         /\ UNCHANGED <<rows, deleted, runs, named>>

-----------------------------------------------------------------------------
(* The pages                                                               *)

NoPlan == [checksum |-> NoFile, ready |-> FALSE, pending |-> {}]
NoSummary == [offsets |-> {}, completed |-> FALSE]
Fresh == [file |-> NoFile, busy |-> FALSE, at |-> 0, progress |-> NoSummary, said |-> FALSE,
          plan |-> NoPlan, result |-> [linked |-> -1, reviewed |-> {}]]

Request(c, op, file, offset, checksum) ==
    [clerk |-> c, op |-> op, file |-> file, offset |-> offset, checksum |-> checksum,
     served |-> FALSE, answer |-> NoSummary]

\* chooseFile
Choose(c, f) ==
    /\ ~pages[c].busy
    /\ pages' = [pages EXCEPT ![c] = [Fresh EXCEPT !.file = f]]
    /\ UNCHANGED <<database, posts, starts>>

\* importCustomers, startImport: the whole file once more, also to go on
Start(c) ==
    /\ pages[c].file # NoFile /\ ~pages[c].busy /\ ~pages[c].progress.completed
    /\ starts < MaxStarts /\ starts' = starts + 1
    /\ pages' = [pages EXCEPT ![c].busy = TRUE, ![c].at = 0]
    /\ posts' = posts \cup {Request(c, "prepare", pages[c].file, 0, NoFile)}
    /\ UNCHANGED database

\* the loop: the next offset the last answer does not list, or the end
Progress(p) ==
    LET c == p.clerk
        left == {o \in Offsets(p.file) \ p.answer.offsets : o >= pages[c].at}
    IN IF left # {}
       THEN /\ pages' = [pages EXCEPT ![c].progress = p.answer, ![c].at = Min(left) + ChunkSize]
            /\ posts' = (posts \ {p}) \cup {Request(c, "chunk", p.file, Min(left), NoFile)}
       ELSE /\ pages' = [pages EXCEPT ![c].progress = p.answer, ![c].busy = FALSE,
                                      ![c].said = p.answer.completed]
            /\ posts' = posts \ {p}

\* the effect of the page of the links
OpenLinks(c) ==
    /\ kind = "history" /\ ~pages[c].busy /\ starts < MaxStarts /\ starts' = starts + 1
    /\ pages' = [pages EXCEPT ![c] = [Fresh EXCEPT !.busy = TRUE]]
    /\ posts' = posts \cup {Request(c, "plan", NoFile, 0, NoFile)}
    /\ UNCHANGED database

\* apply
ApplyLinks(c) ==
    /\ ~pages[c].busy /\ pages[c].plan.ready /\ pages[c].plan.pending # {}
    /\ pages' = [pages EXCEPT ![c].busy = TRUE]
    /\ posts' = posts \cup {Request(c, "apply", NoFile, 0, pages[c].plan.checksum)}
    /\ UNCHANGED <<database, starts>>

\* after an application, or its refusal, the plan is read again
Applied(p) ==
    LET c == p.clerk IN
    /\ pages' = IF p.answer.linked = -1 THEN pages
                ELSE [pages EXCEPT ![c].result = [linked |-> p.answer.linked,
                                                  reviewed |-> p.checksum.records]]
    /\ posts' = (posts \ {p}) \cup {Request(c, "plan", NoFile, 0, NoFile)}

Planned(p) ==
    /\ pages' = [pages EXCEPT ![p.clerk].plan = p.answer, ![p.clerk].busy = FALSE]
    /\ posts' = posts \ {p}

Receive(p) ==
    /\ p.served
    /\ IF p.clerk = Nobody THEN posts' = posts \ {p} /\ UNCHANGED pages
       ELSE CASE p.op = "apply" -> Applied(p)
              [] p.op = "plan" -> Planned(p)
              [] OTHER -> Progress(p)
    /\ UNCHANGED <<database, starts>>

\* The request or its answer is lost, or the page is left: what the server has not
\* seen yet it may still see.
GivenUp(p) == IF p.served THEN posts \ {p} ELSE (posts \ {p}) \cup {[p EXCEPT !.clerk = Nobody]}

Lose(p) ==
    /\ p.clerk # Nobody
    /\ pages' = [pages EXCEPT ![p.clerk].busy = p.op = "apply",
                              ![p.clerk].plan = IF p.op = "plan" THEN NoPlan ELSE @]
    /\ posts' = GivenUp(p) \cup
         (IF p.op = "apply" THEN {Request(p.clerk, "plan", NoFile, 0, NoFile)} ELSE {})
    /\ UNCHANGED <<database, starts>>

Leave(p) ==
    /\ p.clerk # Nobody
    /\ pages' = [pages EXCEPT ![p.clerk] = Fresh]
    /\ posts' = GivenUp(p)
    /\ UNCHANGED <<database, starts>>

Serve(p) ==
    /\ ~p.served
    /\ CASE p.op = "prepare" -> Prepare(p)
         [] p.op = "chunk" -> TakeChunk(p)
         [] p.op = "plan" -> Plan(p)
         [] OTHER -> Apply(p)
    /\ UNCHANGED <<pages, starts>>

-----------------------------------------------------------------------------
Init ==
    /\ kind \in {"customers", "history"}
    /\ rows = [r \in Records |-> 0] /\ deleted = rows /\ links = rows
    /\ runs = [f \in DOMAIN Files |-> NoRun]
    /\ staff = [k \in Keys |-> 0] /\ hired = 0 /\ named = {}
    /\ pages = [c \in Clerks |-> Fresh] /\ posts = {}
    /\ starts = 0 /\ edits = 0

Edit ==
    /\ edits < MaxEdits /\ edits' = edits + 1
    /\ \/ \E r \in Records : DeleteCustomer(r)
       \/ \E keys \in SUBSET Publications \ {{}} : ImportStaff(keys)
       \/ \E k \in Keys : DeleteStaff(k) \/ Name(k)
    /\ UNCHANGED <<pages, posts, starts>>

Next ==
    \/ Edit /\ UNCHANGED kind
    \/ /\ UNCHANGED <<kind, edits>>
       /\ \/ \E c \in Clerks : Start(c) \/ OpenLinks(c) \/ ApplyLinks(c)
                               \/ \E f \in DOMAIN Files : Choose(c, f)
          \/ \E p \in posts : Serve(p) \/ Receive(p) \/ Lose(p) \/ Leave(p)

Spec == Init /\ [][Next]_vars

-----------------------------------------------------------------------------
\* A run counts what its chunks did, each of them once, and every local row was
\* made by exactly one chunk of one run, however often chunks are sent.
RunsCountTheirChunks ==
    /\ \A f \in DOMAIN Files :
          runs[f].created + runs[f].skipped =
              SumFunction([o \in runs[f].offsets |-> Len(Chunk(f, o))])
    /\ \A r \in Records : rows[r] <= 1
    /\ SumFunction([f \in DOMAIN Files |-> runs[f].created]) =
          SumFunction([r \in Records |-> rows[r] + deleted[r]])

\* A page that says the import is complete has every record of its file in the salon.
CompleteMeansAll ==
    \A c \in Clerks : pages[c].said =>
        \A o \in Offsets(pages[c].file) : \A r \in InChunk(pages[c].file, o) :
            rows[r] + deleted[r] > 0

\* A record is linked to the staff of its own key, and what a page reports as linked
\* is all of what its clerk had reviewed, however the links were applied.
LinksAreTheReviewedOnes ==
    /\ \A r \in Records : links[r] # 0 => links[r] = staff[KeyOf[r]]
    /\ \A c \in Clerks : pages[c].result.linked # -1 =>
          /\ pages[c].result.linked = Cardinality(pages[c].result.reviewed)
          /\ \A r \in pages[c].result.reviewed : links[r] # 0

\* Every record of a file is imported once and linked as reviewed, although chunks
\* are repeated, files overlap and answers are lost.
ImportsAreExact == RunsCountTheirChunks /\ CompleteMeansAll /\ LinksAreTheReviewedOnes
=============================================================================
