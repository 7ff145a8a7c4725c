-------------------------------- MODULE Charts --------------------------------
(***************************************************************************)
(* The treatment chart of one reservation: the screens of the clerks       *)
(* (chart-new-form.tsx, chart-detail.tsx), the handlers (chart-routes.ts), *)
(* the photo objects in the bucket (chart-photo-storage.ts) and their      *)
(* removal (chart-photo-cleanup.ts).                                       *)
(*                                                                         *)
(* A handler under lockOperation is one step.  A photo is uploaded before  *)
(* the transaction that records it, and removed after the one that drops   *)
(* it, so these requests take several steps, any of which may be the last. *)
(***************************************************************************)
EXTENDS Integers, FiniteSets

CONSTANTS
    Screens, Requests,
    Photos,         \* ids, one for each upload
    Texts, Blank,   \* what performedServiceDetail may hold
    NoScreen, NoPhoto,
    MaxPhotos,      \* MAX_CHART_PHOTOS
    MaxVersion,     \* bound on the changes of the chart
    MaxFaults       \* bound on lost answers, outages and crashes

ASSUME ChartsAssumption ==
    /\ Blank \in Texts /\ NoScreen \notin Screens /\ NoPhoto \notin Photos
    /\ MaxPhotos \in Nat /\ MaxVersion \in Nat \ {0} /\ MaxFaults \in Nat

VARIABLES
    chart,      \* the TreatmentChart row: version (0: none) and revisions
    row,        \* the TreatmentChartPhoto rows: "none", "live", "pending" deletion or "gone"
    objects,    \* the photos stored in the bucket
    screen,     \* what each clerk sees
    request,    \* the requests on the server
    reported,   \* photos logged for reconciliation
    crashed,    \* photos whose request died between upload and record
    faults

vars == <<chart, row, objects, screen, request, reported, crashed, faults>>

Revisions == 1 .. MaxVersion
NoRevision == [status |-> "NONE", text |-> Blank, photos |-> {}]
NoChart == [version |-> 0, current |-> 0, revision |-> [n \in Revisions |-> NoRevision]]
NothingSeen == [version |-> 0, draft |-> FALSE, text |-> Blank, photos |-> {}]
Idle == [op |-> "none", stage |-> "free", by |-> NoScreen, expected |-> 0,
         text |-> Blank, over |-> Blank, photo |-> NoPhoto, left |-> {},
         result |-> NothingSeen, answer |-> "none"]

\* jsonDetail, as far as the screen works on it
Seen(c) ==
    IF c.version = 0 THEN NothingSeen
    ELSE LET now == c.revision[c.current]
         IN [version |-> c.version, draft |-> now.status = "DRAFT",
             text |-> now.text, photos |-> now.photos]
Linked(c) == UNION {c.revision[n].photos : n \in Revisions}

Init ==
    /\ chart = NoChart
    /\ row = [p \in Photos |-> "none"]
    /\ objects = {}
    /\ screen = [s \in Screens |-> [shown |-> NothingSeen, saved |-> Blank,
                                    conflict |-> FALSE, busy |-> FALSE]]
    /\ request = [q \in Requests |-> Idle]
    /\ reported = {} /\ crashed = {} /\ faults = 0

-----------------------------------------------------------------------------
(* The screens.                                                            *)

Locked(s) == screen[s].busy \/ screen[s].conflict

\* accept(data, true): the fields of the form are filled from the answer
AcceptAll(scr, seen) == [scr EXCEPT !.shown = seen, !.saved = seen.text]

\* ChartNewForm, ChartPhotoUpload and ChartPhotoGallery: what their buttons ask for
MayCreate(seen) == seen.version = 0
MayUpload(seen, p) ==
    /\ seen.draft /\ Cardinality(seen.photos) < MaxPhotos
    /\ row[p] = "none" /\ p \notin objects \cup reported \cup crashed
    /\ \A q \in Requests : request[q].photo # p
MayRemove(seen, p) == seen.draft /\ p \in seen.photos

\* which buttons ChartDetail shows
Offers(seen, op, p) ==
    CASE op = "create" -> MayCreate(seen)
      [] op = "upload" -> MayUpload(seen, p)
      [] op = "remove" -> MayRemove(seen, p)
      [] op = "draft" -> seen.draft
      [] op = "finalize" -> seen.draft /\ seen.text # Blank
      [] op = "amend" -> seen.version > 0 /\ ~seen.draft

\* the clerk fills in a text, or leaves the one shown, and presses a button
Send(s, q, op, text, photo) ==
    /\ request[q].stage = "free" /\ ~Locked(s) /\ Offers(screen[s].shown, op, photo)
    /\ request' = [request EXCEPT ![q] =
          [Idle EXCEPT !.op = op, !.stage = "sent", !.by = s, !.photo = photo,
                       !.expected = screen[s].shown.version,
                       !.text = text, !.over = screen[s].saved]]
    /\ screen' = [screen EXCEPT ![s].busy = TRUE]
    /\ UNCHANGED <<chart, row, objects, reported, crashed, faults>>

\* refreshLatest, and opening the page of a chart that exists already
Refresh(s) ==
    /\ ~screen[s].busy /\ chart.version > 0
    /\ screen[s].conflict \/ screen[s].shown.version = 0
    /\ screen' = [screen EXCEPT ![s] = [AcceptAll(@, Seen(chart)) EXCEPT !.conflict = FALSE]]
    /\ UNCHANGED <<chart, row, objects, request, reported, crashed, faults>>

\* the answer arrives: a chart, a conflict, or another refusal
Receive(q) ==
    LET r == request[q]
        s == r.by
        free == [screen[s] EXCEPT !.busy = FALSE]
    IN /\ r.stage = "done" /\ s # NoScreen
       /\ request' = [request EXCEPT ![q] = Idle]
       /\ screen' = [screen EXCEPT ![s] =
             CASE r.answer = "refused" -> free
               [] r.answer = "conflict" -> [free EXCEPT !.conflict = r.op # "create"]
               [] r.answer = "ok" /\ r.op \in {"upload", "remove"} -> [free EXCEPT !.shown = r.result]
               [] OTHER -> AcceptAll(free, r.result)]
       /\ UNCHANGED <<chart, row, objects, reported, crashed, faults>>

\* fetch fails on the clerk's side; the request goes on
LoseAnswer(q) ==
    /\ request[q].stage # "free" /\ request[q].by # NoScreen /\ faults < MaxFaults
    /\ faults' = faults + 1
    /\ screen' = [screen EXCEPT ![request[q].by].busy = FALSE]
    /\ request' = [request EXCEPT ![q] = IF @.stage = "done" THEN Idle
                                         ELSE [@ EXCEPT !.by = NoScreen]]
    /\ UNCHANGED <<chart, row, objects, reported, crashed>>

-----------------------------------------------------------------------------
(* The handlers.                                                           *)

Finish(q, stage, answer, result) ==
    request' = [request EXCEPT ![q] =
        IF stage = "done" /\ @.by = NoScreen THEN Idle
        ELSE [@ EXCEPT !.stage = stage, !.answer = answer, !.result = result, !.left = {}]]

\* variant: the version is not compared
RefusalUnversioned(r) == IF chart.version = 0 \/ (r.op = "amend") = Seen(chart).draft THEN "conflict" ELSE "none"

\* what findCurrent and the assertions say of a request
Refusal(r) ==
    IF chart.version # r.expected THEN "conflict"
    ELSE IF (r.op = "amend") = Seen(chart).draft THEN "conflict"
    ELSE IF r.op = "finalize" /\ Seen(chart).text = Blank THEN "refused"
    ELSE IF r.op = "remove" /\ r.photo \notin Seen(chart).photos THEN "refused"
    ELSE IF r.op = "upload" /\ Cardinality(Seen(chart).photos) >= MaxPhotos THEN "refused"
    ELSE "none"

Unlinked(revisions, n, p) == [revisions EXCEPT ![n].photos = @ \ {p}]

\* the chart after the transaction of r
Updated(r) ==
    LET n == chart.current
        revisions == chart.revision
        bumped == [chart EXCEPT !.version = @ + 1]
    IN CASE r.op = "draft" -> [bumped EXCEPT !.revision[n].text = r.text]
         [] r.op = "finalize" -> [bumped EXCEPT !.revision[n].status = "FINALIZED"]
         [] r.op = "amend" -> [bumped EXCEPT !.current = n + 1, !.revision[n + 1] =
                                  [revisions[n] EXCEPT !.status = "DRAFT"]]
         [] r.op = "upload" -> [bumped EXCEPT !.revision[n].photos = @ \cup {r.photo}]
         [] r.op = "remove" -> [bumped EXCEPT !.revision = Unlinked(revisions, n, r.photo)]

\* POST /api/charts: one chart for a reservation, with its first draft
Create(q) ==
    /\ request[q].op = "create" /\ request[q].stage = "sent"
    /\ IF chart.version > 0 THEN Finish(q, "done", "conflict", NothingSeen) /\ UNCHANGED chart
       ELSE /\ chart' = [version |-> 1, current |-> 1, revision |->
                [NoChart.revision EXCEPT ![1] = [status |-> "DRAFT", photos |-> {},
                                                 text |-> request[q].text]]]
            /\ Finish(q, "done", "ok", Seen(chart'))
    /\ UNCHANGED <<row, objects, screen, reported, crashed, faults>>

\* PATCH draft, POST finalize, POST amend
Change(q) ==
    LET r == request[q] IN
    /\ r.op \in {"draft", "finalize", "amend"} /\ r.stage = "sent" /\ chart.version < MaxVersion
    /\ IF Refusal(r) # "none" THEN Finish(q, "done", Refusal(r), NothingSeen) /\ UNCHANGED chart
       ELSE chart' = Updated(r) /\ Finish(q, "done", "ok", Seen(chart'))
    /\ UNCHANGED <<row, objects, screen, reported, crashed, faults>>

\* variant: a photo dropped from the draft is marked whatever finalized revision has it
AfterRemovalAlways(p, c) == [row EXCEPT ![p] = "pending"]

\* a photo no revision refers to is marked, others keep their row
AfterRemoval(p, c) == [row EXCEPT ![p] = IF p \in Linked(c) THEN @ ELSE "pending"]

\* DELETE photo
Remove(q) ==
    LET r == request[q] IN
    /\ r.op = "remove" /\ r.stage = "sent" /\ chart.version < MaxVersion
    /\ IF Refusal(r) # "none"
       THEN Finish(q, "done", Refusal(r), NothingSeen) /\ UNCHANGED <<chart, row>>
       ELSE /\ chart' = Updated(r)
            /\ row' = AfterRemoval(r.photo, chart')
            /\ Finish(q, "clean", "ok", Seen(chart'))
    /\ UNCHANGED <<objects, screen, reported, crashed, faults>>

\* normalizeChartPhoto refuses the image
RefusePhoto(q) ==
    /\ request[q].op = "upload" /\ request[q].stage = "sent" /\ Refusal(request[q]) = "none"
    /\ Finish(q, "done", "refused", NothingSeen)
    /\ UNCHANGED <<chart, row, objects, screen, reported, crashed, faults>>

\* storage.put: an error does not tell whether the object is there
StoragePut(p) == objects' = objects \cup {p}
StoragePutFails(p) == objects' \in {objects, objects \cup {p}}

\* POST photos, up to the upload of the object
Put(q) ==
    LET r == request[q] IN
    /\ r.op = "upload" /\ r.stage = "sent"
    /\ \/ /\ Refusal(r) # "none" /\ Finish(q, "done", Refusal(r), NothingSeen)
          /\ UNCHANGED <<objects, reported, faults>>
       \/ /\ Refusal(r) = "none" /\ Finish(q, "stored", "none", NothingSeen)
          /\ StoragePut(r.photo) /\ UNCHANGED <<reported, faults>>
       \/ /\ Refusal(r) = "none" /\ faults < MaxFaults /\ faults' = faults + 1
          /\ Finish(q, "done", "refused", NothingSeen)
          /\ StoragePutFails(r.photo)
          /\ reported' = reported \cup {r.photo}
    /\ UNCHANGED <<chart, row, screen, crashed>>

Recorded(r) == chart' = Updated(r) /\ row' = [row EXCEPT ![r.photo] = "live"]

\* the transaction that records the photo, whose outcome may stay unknown
Record(q) ==
    LET r == request[q]
        refusal == Refusal(r)
    IN
    /\ r.op = "upload" /\ r.stage = "stored" /\ chart.version < MaxVersion
    /\ \/ /\ refusal # "none" /\ Finish(q, "rejected", refusal, NothingSeen)
          /\ UNCHANGED <<chart, row, reported, faults>>
       \/ /\ refusal = "none" /\ Recorded(r) /\ Finish(q, "clean", "ok", Seen(chart'))
          /\ UNCHANGED <<reported, faults>>
       \/ /\ refusal = "none" /\ faults < MaxFaults /\ faults' = faults + 1
          /\ Recorded(r) \/ UNCHANGED <<chart, row>>
          /\ reported' = reported \cup {r.photo}
          /\ Finish(q, "done", "refused", NothingSeen)
    /\ UNCHANGED <<objects, screen, crashed>>

\* variant: a rejected upload is answered without a row for its object
MarkRejectedNever(q) ==
    /\ request[q].stage = "rejected"
    /\ Finish(q, "done", request[q].answer, NothingSeen)
    /\ UNCHANGED <<chart, row, objects, screen, reported, crashed, faults>>

\* a certain rollback leaves a row that cleanup finds, or a line in the log
MarkRejected(q) ==
    LET r == request[q] IN
    /\ r.stage = "rejected"
    /\ \/ /\ row' = [row EXCEPT ![r.photo] = "pending"]
          /\ Finish(q, "clean", r.answer, NothingSeen) /\ UNCHANGED <<reported, faults>>
       \/ /\ faults < MaxFaults /\ faults' = faults + 1
          /\ reported' = reported \cup {r.photo}
          /\ Finish(q, "done", r.answer, NothingSeen) /\ UNCHANGED row
    /\ UNCHANGED <<chart, objects, screen, crashed>>

-----------------------------------------------------------------------------
(* cleanupUnreferencedChartPhotos, run by a request after its transaction. *)

Unreferenced == {p \in Photos : row[p] = "pending" /\ p \notin Linked(chart)}

ReadPending(q) ==
    /\ request[q].stage = "clean"
    /\ IF Unreferenced = {} THEN Finish(q, "done", request[q].answer, request[q].result)
       ELSE request' = [request EXCEPT ![q].stage = "cleaning", ![q].left = Unreferenced]
    /\ UNCHANGED <<chart, row, objects, screen, reported, crashed, faults>>

\* storage.remove of the next row; a failure leaves the row to a later request
RemoveObject(q, p) ==
    /\ request[q].stage = "cleaning" /\ p \in request[q].left
    /\ \/ /\ objects' = objects \ {p} /\ UNCHANGED faults
          /\ request' = [request EXCEPT ![q].stage = "removed", ![q].photo = p]
       \/ /\ faults < MaxFaults /\ faults' = faults + 1 /\ UNCHANGED objects
          /\ request' = [request EXCEPT ![q].left = @ \ {p}]
    /\ UNCHANGED <<chart, row, screen, reported, crashed>>

DropRow(q) ==
    LET p == request[q].photo IN
    /\ request[q].stage = "removed"
    /\ \/ row' = [row EXCEPT ![p] = IF p \in Unreferenced THEN "gone" ELSE @] /\ UNCHANGED faults
       \/ faults < MaxFaults /\ faults' = faults + 1 /\ UNCHANGED row
    /\ request' = [request EXCEPT ![q].stage = "cleaning", ![q].left = @ \ {p}]
    /\ UNCHANGED <<chart, objects, screen, reported, crashed>>

EndCleanup(q) ==
    /\ request[q].stage = "cleaning" /\ request[q].left = {}
    /\ Finish(q, "done", request[q].answer, request[q].result)
    /\ UNCHANGED <<chart, row, objects, screen, reported, crashed, faults>>

\* the process dies; a stored photo without a row is left for the storage audit
Crash(q) ==
    LET r == request[q] IN
    /\ r.stage \notin {"free", "done"} /\ faults < MaxFaults /\ faults' = faults + 1
    /\ crashed' = crashed \cup (IF r.stage \in {"stored", "rejected"} THEN {r.photo} ELSE {})
    /\ Finish(q, "done", "refused", NothingSeen)
    /\ UNCHANGED <<chart, row, objects, screen, reported>>

Next ==
    \/ \E s \in Screens : Refresh(s)
    \/ \E s \in Screens, q \in Requests :
          \/ \E op \in {"finalize", "amend"} : Send(s, q, op, screen[s].saved, NoPhoto)
          \/ \E op \in {"create", "draft"}, text \in Texts : Send(s, q, op, text, NoPhoto)
          \/ \E op \in {"upload", "remove"}, p \in Photos : Send(s, q, op, screen[s].saved, p)
    \/ \E q \in Requests :
          \/ Receive(q) \/ LoseAnswer(q) \/ Create(q) \/ Change(q) \/ Remove(q)
          \/ RefusePhoto(q) \/ Put(q) \/ Record(q) \/ MarkRejected(q)
          \/ ReadPending(q) \/ DropRow(q) \/ EndCleanup(q) \/ Crash(q)
          \/ \E p \in Photos : RemoveObject(q, p)

Spec == Init /\ [][Next]_vars

-----------------------------------------------------------------------------
\* auditChartPhotoStorage: what the audit says of an object in the bucket
AuditReason(p) ==
    IF row[p] \in {"none", "gone"} THEN "NO_DATABASE_RECORD"
    ELSE IF p \in Linked(chart)
         THEN IF row[p] = "pending" THEN "PENDING_BUT_REFERENCED" ELSE "referenced"
         ELSE IF row[p] = "pending" THEN "PENDING_DELETION" ELSE "UNLINKED_DATABASE_PHOTO"

\* A photo that some revision shows has its row, is not marked for deletion
\* and has its object, whatever drafts, cleanups and lost uploads went on.
LinkedPhotosStay == \A p \in Linked(chart) : row[p] = "live" /\ p \in objects

\* What the storage audit can find: an object whose row is missing belongs to
\* an upload still working on it, was logged for reconciliation or was left by
\* a crash, and every other object is shown by a revision or due for deletion.
\* No refused upload and no cleanup loses track of what was stored.
OrphansAreKnown ==
    \A p \in objects :
        \/ AuditReason(p) \in {"referenced", "PENDING_DELETION"}
        \/ /\ AuditReason(p) = "NO_DATABASE_RECORD"
           /\ \/ p \in reported \cup crashed
              \/ \E q \in Requests : /\ request[q].photo = p
                                     /\ request[q].stage \in {"stored", "rejected"}

\* A finalized revision stays as it is, whatever corrections, removals and cleanups
\* follow; and the text of a draft is replaced only by a clerk who was shown that very
\* text, although another may have saved, corrected or lost an answer since.
SavesOverWhatWasShown ==
    [][\A n \in Revisions :
          LET before == chart.revision[n]
              after == chart'.revision[n]
          IN /\ before.status = "FINALIZED" => after = before
             /\ before.status = "DRAFT" /\ after.text # before.text =>
                   \E q \in Requests : /\ request[q].op = "draft" /\ request'[q] # request[q]
                                       /\ request[q].over = before.text]_vars
=============================================================================
