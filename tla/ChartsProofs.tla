----------------------------- MODULE ChartsProofs -----------------------------
(***************************************************************************)
(* Why the photos a chart shows keep their rows and objects, why the       *)
(* storage audit can account for every object, and why the text of a draft *)
(* is only replaced by a clerk who was shown it.  Photos: a photo that is  *)
(* being uploaded has no row, so no cleanup has it, and one that is being  *)
(* cleaned up can not be linked again.  Texts: every version a screen or a *)
(* request knows is a past one, or comes with the text of the present.     *)
(***************************************************************************)
EXTENDS Charts, TLAPS

Operations == {"create", "draft", "finalize", "amend", "upload", "remove"}
SeenRows == [version : Nat, draft : BOOLEAN, text : Texts, photos : SUBSET Photos]
RevisionRows ==
    [status : {"NONE", "DRAFT", "FINALIZED"}, text : Texts, photos : SUBSET Photos]
ChartRows == [version : Nat, current : Nat, revision : [Revisions -> RevisionRows]]
ScreenRows == [shown : SeenRows, saved : Texts, conflict : BOOLEAN, busy : BOOLEAN]
RequestRows ==
    [op : Operations \cup {"none"},
     stage : {"free", "sent", "stored", "rejected", "clean", "cleaning", "removed", "done"},
     by : Screens \cup {NoScreen}, expected : Nat, text : Texts, over : Texts,
     photo : Photos \cup {NoPhoto}, left : SUBSET Photos, result : SeenRows,
     answer : {"none", "ok", "conflict", "refused"}]

\* Every variable stays in its domain.
TypeOK ==
    /\ chart \in ChartRows
    /\ row \in [Photos -> {"none", "live", "pending", "gone"}]
    /\ objects \subseteq Photos
    /\ screen \in [Screens -> ScreenRows]
    /\ request \in [Requests -> RequestRows]

\* The current revision is the last one there is.
ChartShape ==
    /\ chart.version = 0 => chart = NoChart
    /\ chart.version > 0 =>
          /\ chart.current \in Revisions /\ chart.current <= chart.version
          /\ chart.revision[chart.current].status \in {"DRAFT", "FINALIZED"}
          /\ \A n \in Revisions : n > chart.current => chart.revision[n] = NoRevision

\* A request that still has to record what it uploads is the only one with that photo.
Uploading(q) == request[q].op = "upload" /\ request[q].stage \in {"sent", "stored", "rejected"}

UploadsAreNew ==
    /\ \A q \in Requests :
          /\ request[q].stage \in {"stored", "rejected"} =>
                request[q].op = "upload" /\ request[q].photo \in objects
          /\ Uploading(q) => request[q].photo \in Photos /\ row[request[q].photo] = "none"
    /\ \A q, o \in Requests :
          Uploading(q) /\ Uploading(o) /\ request[q].photo = request[o].photo => q = o

\* What a cleanup works on was given up, and an object it removed is not there.
CleanupsAreRight ==
    \A q \in Requests :
       /\ \A p \in request[q].left : row[p] \in {"pending", "gone"}
       /\ request[q].stage = "removed" =>
             /\ request[q].photo \in Photos \ objects
             /\ row[request[q].photo] \in {"pending", "gone"}

\* The rows agree with the revisions and the bucket.
RowsAreRight ==
    \A p \in Photos :
       /\ row[p] = "live" <=> p \in Linked(chart)
       /\ row[p] = "live" => p \in objects
       /\ row[p] = "gone" => p \notin objects
       /\ row[p] = "none" /\ p \in objects =>
             \/ p \in reported \cup crashed
             \/ \E q \in Requests : /\ request[q].photo = p
                                    /\ request[q].stage \in {"stored", "rejected"}

\* who knows version v with text t knows a past version, or the text of the present
Known(v, t) == v <= chart.version /\ (v = chart.version => t = Seen(chart).text)

\* the text a screen will have for the version it is answered
TextAnswered(r) == IF r.op \in {"upload", "remove"} THEN r.over ELSE r.result.text

ScreenKnows(s) ==
    /\ Known(screen[s].shown.version, screen[s].saved)
    /\ screen[s].shown.draft => screen[s].shown.version > 0

RequestKnows(q) ==
    LET r == request[q] IN
    /\ r.stage = "free" => r.by = NoScreen
    /\ r.stage # "free" =>
          /\ r.op \in Operations /\ (r.op # "create" => r.expected > 0)
          /\ Known(r.expected, r.over)
          /\ r.answer = "ok" => Known(r.result.version, TextAnswered(r))
                                /\ (r.result.draft => r.result.version > 0)
          /\ r.by # NoScreen => screen[r.by].busy /\ screen[r.by].saved = r.over
          /\ r.stage \notin {"sent", "stored"} => r.answer # "none"

ViewsAreTrue ==
    /\ \A s \in Screens : ScreenKnows(s)
    /\ \A q \in Requests : RequestKnows(q)
    /\ \A q, o \in Requests :
          request[q].by = request[o].by /\ request[q].by # NoScreen => q = o

ChartsInv ==
    /\ TypeOK /\ ChartShape /\ UploadsAreNew /\ CleanupsAreRight /\ RowsAreRight
    /\ ViewsAreTrue
-----------------------------------------------------------------------------
(* What the handlers make of the chart                                     *)

\* Which requests are refused.
LEMMA NotRefused ==
    ASSUME TypeOK, NEW r \in RequestRows, Refusal(r) = "none"
    PROVE  /\ r.expected = chart.version /\ (r.op = "amend") # Seen(chart).draft
           /\ r.op = "remove" => r.photo \in Seen(chart).photos
BY DEF Refusal

\* What a screen is shown of a chart.
LEMMA SeenOf ==
    ASSUME NEW c \in ChartRows, c.version > 0 => c.current \in Revisions
    PROVE  /\ Seen(c) \in SeenRows /\ Seen(c).version = c.version
           /\ Seen(c).draft => c.version > 0
           /\ c.version > 0 =>
                 LET now == c.revision[c.current] IN
                 /\ Seen(c).draft = (now.status = "DRAFT") /\ Seen(c).text = now.text
                 /\ Seen(c).photos = now.photos
<1>1. c.version \in Nat /\ NothingSeen \in SeenRows
  BY ChartsAssumption DEF ChartRows, NothingSeen, SeenRows
<1>2. CASE c.version = 0
  BY <1>1, <1>2 DEF Seen, NothingSeen
<1>3. CASE c.version > 0
  <2>1. c.revision[c.current] \in RevisionRows
    BY <1>3 DEF ChartRows
  <2> QED BY <1>1, <1>3, <2>1 DEF Seen, RevisionRows, SeenRows
<1> QED BY <1>1, <1>2, <1>3

\* What a screen is shown of the chart.
LEMMA SeenIs ==
    ASSUME TypeOK, ChartShape
    PROVE  /\ Seen(chart) \in SeenRows /\ Seen(chart).version = chart.version
           /\ Seen(chart).draft => chart.version > 0
           /\ chart.version > 0 =>
                 LET now == chart.revision[chart.current] IN
                 /\ Seen(chart).draft = (now.status = "DRAFT") /\ Seen(chart).text = now.text
                 /\ Seen(chart).photos = now.photos
BY SeenOf DEF TypeOK, ChartShape

\* A change of the draft writes the current revision.
LEMMA DraftUpdated ==
    ASSUME TypeOK, ChartShape, chart.version > 0, NEW r \in RequestRows,
           r.op \in {"draft", "finalize", "upload", "remove"},
           r.op = "upload" => r.photo \in Photos
    PROVE  LET n == chart.current
               old == chart.revision[n]
               c == Updated(r)
           IN /\ c \in ChartRows /\ c.version = chart.version + 1 /\ c.current = n
              /\ \A m \in Revisions \ {n} : c.revision[m] = chart.revision[m]
              /\ c.revision[n].status = IF r.op = "finalize" THEN "FINALIZED" ELSE old.status
              /\ c.revision[n].text = IF r.op = "draft" THEN r.text ELSE old.text
              /\ c.revision[n].photos = CASE r.op = "upload" -> old.photos \cup {r.photo}
                                          [] r.op = "remove" -> old.photos \ {r.photo}
                                          [] OTHER -> old.photos
<1> DEFINE n == chart.current
           old == chart.revision[n]
           next == chart.version + 1
           bumped == [chart EXCEPT !.version = next]
           revisions == chart.revision
<1>1. /\ n \in Revisions /\ old \in RevisionRows /\ next \in Nat
      /\ revisions \in [Revisions -> RevisionRows]
  BY DEF TypeOK, ChartRows, ChartShape
<1>2. bumped \in ChartRows /\ bumped.version = next /\ bumped.current = n
      /\ bumped.revision = revisions
  <2> HIDE DEF next
  <2> QED BY <1>1 DEF TypeOK, ChartRows
<1>3. ASSUME NEW new \in RevisionRows, Updated(r) = [bumped EXCEPT !.revision = [revisions EXCEPT ![n] = new]]
      PROVE  /\ Updated(r) \in ChartRows /\ Updated(r).version = next
             /\ Updated(r).current = n /\ Updated(r).revision[n] = new
             /\ \A m \in Revisions \ {n} : Updated(r).revision[m] = chart.revision[m]
  <2> DEFINE written == [revisions EXCEPT ![n] = new]
  <2>1. written \in [Revisions -> RevisionRows] /\ written[n] = new
        /\ \A m \in Revisions \ {n} : written[m] = revisions[m]
    BY <1>1
  <2> HIDE DEF bumped, written, next, n
  <2>2. Updated(r) \in ChartRows /\ Updated(r).version = next /\ Updated(r).current = n
        /\ Updated(r).revision = written
    BY <1>2, <1>3, <2>1 DEF ChartRows, written
  <2> QED BY <2>1, <2>2
<1>4. CASE r.op = "draft"
  <2> DEFINE new == [old EXCEPT !.text = r.text]
  <2>1. new \in RevisionRows /\ new.status = old.status /\ new.text = r.text
        /\ new.photos = old.photos
    BY <1>1 DEF RevisionRows, RequestRows
  <2>2. Updated(r) = [bumped EXCEPT !.revision = [revisions EXCEPT ![n] = new]]
    BY <1>2, <1>4 DEF Updated
  <2> HIDE DEF new, bumped, next
  <2> QED BY <1>3, <1>4, <2>1, <2>2 DEF next
<1>5. CASE r.op = "finalize"
  <2> DEFINE new == [old EXCEPT !.status = "FINALIZED"]
  <2>1. new \in RevisionRows /\ new.status = "FINALIZED" /\ new.text = old.text
        /\ new.photos = old.photos
    BY <1>1 DEF RevisionRows
  <2>2. Updated(r) = [bumped EXCEPT !.revision = [revisions EXCEPT ![n] = new]]
    BY <1>2, <1>5 DEF Updated
  <2> HIDE DEF new, bumped, next
  <2> QED BY <1>3, <1>5, <2>1, <2>2 DEF next
<1>6. CASE r.op = "upload"
  <2> DEFINE photos == old.photos \cup {r.photo}
             new == [old EXCEPT !.photos = photos]
  <2>1. photos \in SUBSET Photos
    BY <1>1, <1>6 DEF RevisionRows
  <2>2. new \in RevisionRows /\ new.status = old.status /\ new.text = old.text
        /\ new.photos = photos
    <3> HIDE DEF photos
    <3> QED BY <1>1, <2>1 DEF RevisionRows
  <2>3. Updated(r) = [bumped EXCEPT !.revision = [revisions EXCEPT ![n] = new]]
    BY <1>2, <1>6 DEF Updated
  <2> HIDE DEF new, bumped, next
  <2> QED BY <1>3, <1>6, <2>2, <2>3 DEF next
<1>7. CASE r.op = "remove"
  <2> DEFINE photos == old.photos \ {r.photo}
             new == [old EXCEPT !.photos = photos]
  <2>1. photos \in SUBSET Photos
    BY <1>1, <1>7 DEF RevisionRows
  <2>2. new \in RevisionRows /\ new.status = old.status /\ new.text = old.text
        /\ new.photos = photos
    <3> HIDE DEF photos
    <3> QED BY <1>1, <2>1 DEF RevisionRows
  <2>3. Updated(r) = [bumped EXCEPT !.revision = [revisions EXCEPT ![n] = new]]
    BY <1>2, <1>7 DEF Updated, Unlinked
  <2> HIDE DEF new, bumped, next
  <2> QED BY <1>3, <1>7, <2>2, <2>3 DEF next
<1> QED BY <1>4, <1>5, <1>6, <1>7
\* An amendment is a draft with what the finalized revision has.
LEMMA AmendUpdated ==
    ASSUME TypeOK, ChartShape, 0 < chart.version, chart.version < MaxVersion,
           NEW r \in RequestRows, r.op = "amend"
    PROVE  LET n == chart.current
               c == Updated(r)
           IN /\ n + 1 \in Revisions
              /\ c \in ChartRows /\ c.version = chart.version + 1 /\ c.current = n + 1
              /\ \A m \in Revisions \ {n + 1} : c.revision[m] = chart.revision[m]
              /\ c.revision[n + 1].status = "DRAFT"
              /\ c.revision[n + 1].text = chart.revision[n].text
              /\ c.revision[n + 1].photos = chart.revision[n].photos
<1> DEFINE n == chart.current
           k == n + 1
           next == chart.version + 1
           first == [chart EXCEPT !.version = next]
           second == [first EXCEPT !.current = k]
           new == [chart.revision[n] EXCEPT !.status = "DRAFT"]
           written == [chart.revision EXCEPT ![k] = new]
<1>1. /\ n \in Revisions /\ chart.revision[n] \in RevisionRows /\ next \in Nat
      /\ chart.revision \in [Revisions -> RevisionRows]
  BY DEF TypeOK, ChartRows, ChartShape
<1>2. k \in Revisions /\ k \in Nat
  <2>1. chart.current <= chart.version /\ chart.version \in Nat /\ chart.current \in Nat
        /\ MaxVersion \in Nat
    BY ChartsAssumption DEF TypeOK, ChartRows, ChartShape
  <2> QED BY <2>1 DEF Revisions
<1>3. second \in ChartRows /\ second.version = next /\ second.current = k
  <2>1. first \in ChartRows /\ first.version = next
    <3> HIDE DEF next
    <3> QED BY <1>1 DEF TypeOK, ChartRows
  <2> HIDE DEF first, k
  <2> QED BY <1>2, <2>1 DEF ChartRows
<1>4. new \in RevisionRows /\ new.status = "DRAFT" /\ new.text = chart.revision[n].text
      /\ new.photos = chart.revision[n].photos
  BY <1>1 DEF RevisionRows
<1>5. /\ written \in [Revisions -> RevisionRows] /\ written[k] = new
      /\ \A m \in Revisions \ {k} : written[m] = chart.revision[m]
  <2> HIDE DEF new, k
  <2> QED BY <1>1, <1>2, <1>4
<1>6. Updated(r) = [second EXCEPT !.revision = written]
  <2>1. Updated(r) = [second EXCEPT !.revision = [second.revision EXCEPT ![k] = new]]
    BY DEF Updated
  <2>2. second.revision = chart.revision
    BY DEF TypeOK, ChartRows
  <2> HIDE DEF second, new, k
  <2> QED BY <2>1, <2>2
<1>7. Updated(r) \in ChartRows /\ Updated(r).version = next /\ Updated(r).current = k
      /\ Updated(r).revision = written
  <2> HIDE DEF second, written, next, k
  <2> QED BY <1>3, <1>5, <1>6 DEF ChartRows
<1> HIDE DEF written, new
<1> QED BY <1>2, <1>4, <1>5, <1>7

\* A photo is linked if some revision has it.
LEMMA LinkedIs ==
    ASSUME NEW c, NEW p
    PROVE  p \in Linked(c) <=> \E n \in Revisions : p \in c.revision[n].photos
BY DEF Linked

\* An accepted request that is not a creation makes the next version of the chart.
LEMMA ChartChanges ==
    ASSUME TypeOK, ChartShape, NEW r \in RequestRows,
           r.op \in Operations \ {"create"}, r.expected > 0, chart.version < MaxVersion,
           r.op = "upload" => r.photo \in Photos,
           Refusal(r) = "none", chart' = Updated(r)
    PROVE  /\ chart' \in ChartRows /\ ChartShape' /\ chart'.version = chart.version + 1
           /\ chart'.version > 0 /\ r.expected = chart.version
           /\ r.op \notin {"upload", "remove"} => Linked(chart') = Linked(chart)
           /\ r.op = "upload" => Linked(chart') = Linked(chart) \cup {r.photo}
           /\ r.op = "remove" =>
                 /\ r.photo \in Linked(chart)
                 /\ Linked(chart') \cup {r.photo} = Linked(chart)
           /\ r.op # "draft" => Seen(chart').text = Seen(chart).text
           /\ \A n \in Revisions :
                 /\ chart.revision[n].status = "FINALIZED" => chart'.revision[n] = chart.revision[n]
                 /\ chart.revision[n].status = "DRAFT"
                    /\ chart'.revision[n].text # chart.revision[n].text =>
                       r.op = "draft" /\ Seen(chart).text = chart.revision[n].text
<1> DEFINE n == chart.current
<1>1. /\ r.expected = chart.version /\ (r.op = "amend") # Seen(chart).draft
      /\ r.op = "remove" => r.photo \in Seen(chart).photos
  BY NotRefused
<1>2. chart.version > 0 /\ chart.version \in Nat
  BY <1>1 DEF TypeOK, ChartRows
<1>3. /\ n \in Revisions /\ n <= chart.version /\ n \in Nat
      /\ chart.revision[n].status \in {"DRAFT", "FINALIZED"}
      /\ \A m \in Revisions : m > n => chart.revision[m] = NoRevision
      /\ chart.revision[n] \in RevisionRows
  BY <1>2 DEF ChartShape, TypeOK, ChartRows, Revisions
<1>4. /\ Seen(chart).draft = (chart.revision[n].status = "DRAFT")
      /\ Seen(chart).text = chart.revision[n].text
      /\ Seen(chart).photos = chart.revision[n].photos
  BY <1>2, SeenIs
<1>5. CASE r.op = "amend"
  <2> DEFINE k == n + 1
  <2>1. /\ k \in Revisions /\ chart' \in ChartRows /\ chart'.version = chart.version + 1
        /\ chart'.current = k
        /\ \A m \in Revisions \ {k} : chart'.revision[m] = chart.revision[m]
        /\ chart'.revision[k].status = "DRAFT" /\ chart'.revision[k].text = chart.revision[n].text
        /\ chart'.revision[k].photos = chart.revision[n].photos
    BY <1>2, <1>5, AmendUpdated
  <2>2. chart.revision[k] = NoRevision /\ k \in Nat /\ k > n
    BY <1>3, <2>1
  <2>3. Seen(chart').text = chart'.revision[k].text
    BY <1>2, <2>1 DEF Seen
  <2>4. \A p : (\E m \in Revisions : p \in chart'.revision[m].photos)
               <=> (\E m \in Revisions : p \in chart.revision[m].photos)
    <3> HIDE DEF k, n
    <3> QED BY <1>3, <2>1, <2>2 DEF NoRevision
  <2>5. Linked(chart') = Linked(chart)
    <3>1. \A p : p \in Linked(chart') <=> p \in Linked(chart)
      <4> HIDE DEF k, n
      <4> QED BY <2>4, LinkedIs
    <3> QED BY <3>1
  <2>6. ChartShape'
    <3>1. chart'.current <= chart'.version /\ chart'.version # 0
      BY <1>2, <1>3, <2>1
    <3>2. \A m \in Revisions : m > k => chart'.revision[m] = NoRevision
      <4>1. \A m \in Revisions : m > k => m > n /\ m # k
        BY <1>3 DEF Revisions
      <4> HIDE DEF k, n
      <4> QED BY <1>3, <2>1, <4>1
    <3> HIDE DEF k
    <3> QED BY <2>1, <3>1, <3>2 DEF ChartShape
  <2>7. \A m \in Revisions :
           /\ chart.revision[m].status = "FINALIZED" => chart'.revision[m] = chart.revision[m]
           /\ chart.revision[m].status = "DRAFT" => chart'.revision[m].text = chart.revision[m].text
    BY <2>1, <2>2 DEF NoRevision
  <2> HIDE DEF k, n
  <2> QED BY <1>1, <1>2, <1>4, <1>5, <2>1, <2>3, <2>5, <2>6, <2>7
<1>6. CASE r.op # "amend"
  <2> DEFINE old == chart.revision[n]
             new == chart'.revision[n]
  <2>1. r.op \in {"draft", "finalize", "upload", "remove"}
    BY <1>6 DEF Operations
  <2>2. /\ chart' \in ChartRows /\ chart'.version = chart.version + 1 /\ chart'.current = n
        /\ \A m \in Revisions \ {n} : chart'.revision[m] = chart.revision[m]
        /\ new.status = IF r.op = "finalize" THEN "FINALIZED" ELSE old.status
        /\ new.text = IF r.op = "draft" THEN r.text ELSE old.text
        /\ new.photos = CASE r.op = "upload" -> old.photos \cup {r.photo}
                          [] r.op = "remove" -> old.photos \ {r.photo}
                          [] OTHER -> old.photos
    BY <1>2, <2>1, DraftUpdated
  <2>3. old.status = "DRAFT"
    BY <1>1, <1>4, <1>6
  <2>4. Seen(chart').text = new.text
    BY <1>2, <2>2 DEF Seen
  <2>5. ChartShape'
    <3>1. chart'.current <= chart'.version /\ chart'.version # 0
      BY <1>2, <1>3, <2>2
    <3>2. \A m \in Revisions : m > n => chart'.revision[m] = NoRevision
      BY <1>3, <2>2
    <3> HIDE DEF n
    <3> QED BY <1>3, <2>2, <2>3, <3>1, <3>2 DEF ChartShape
  <2> HIDE DEF n
  <2>6. r.op \notin {"upload", "remove"} => Linked(chart') = Linked(chart)
    <3>1. r.op \notin {"upload", "remove"} =>
             \A m \in Revisions : chart'.revision[m].photos = chart.revision[m].photos
      BY <1>3, <2>2
    <3> QED BY <3>1, LinkedIs
  <2>7. r.op = "upload" => Linked(chart') = Linked(chart) \cup {r.photo}
    <3>1. r.op = "upload" => new.photos = old.photos \cup {r.photo}
      BY <2>2
    <3> QED BY <1>3, <2>2, <3>1, LinkedIs
  <2>8. r.op = "remove" => /\ r.photo \in Linked(chart)
                           /\ Linked(chart') \cup {r.photo} = Linked(chart)
    <3>1. r.op = "remove" => new.photos = old.photos \ {r.photo} /\ r.photo \in old.photos
      BY <1>1, <1>4, <2>2
    <3> QED BY <1>3, <2>2, <3>1, LinkedIs
  <2>9. \A m \in Revisions :
           /\ chart.revision[m].status = "FINALIZED" => chart'.revision[m] = chart.revision[m]
           /\ chart.revision[m].status = "DRAFT"
              /\ chart'.revision[m].text # chart.revision[m].text => m = n /\ r.op = "draft"
    BY <2>2, <2>3
  <2> QED BY <1>1, <1>2, <1>4, <1>6, <2>2, <2>4, <2>5, <2>6, <2>7, <2>8, <2>9
<1> QED BY <1>5, <1>6
\* The first version is a draft without photos.
LEMMA ChartBegins ==
    ASSUME TypeOK, ChartShape, NEW text \in Texts, chart.version = 0,
           chart' = [version |-> 1, current |-> 1, revision |->
                        [NoChart.revision EXCEPT ![1] = [status |-> "DRAFT", photos |-> {},
                                                         text |-> text]]]
    PROVE  /\ chart' \in ChartRows /\ ChartShape' /\ chart'.version = 1
           /\ Linked(chart') = Linked(chart)
           /\ \A n \in Revisions : chart.revision[n].status = "NONE"
<1> DEFINE new == [status |-> "DRAFT", photos |-> {}, text |-> text]
           written == [NoChart.revision EXCEPT ![1] = new]
<1>1. 1 \in Revisions
  BY ChartsAssumption DEF Revisions
<1>2. chart = NoChart /\ NoChart.revision = [n \in Revisions |-> NoRevision]
  BY DEF ChartShape, NoChart
<1>3. new \in RevisionRows /\ NoRevision \in RevisionRows
  BY ChartsAssumption DEF RevisionRows, NoRevision
<1>4. /\ written \in [Revisions -> RevisionRows] /\ written[1] = new
      /\ \A n \in Revisions \ {1} : written[n] = NoRevision
  <2> HIDE DEF new
  <2> QED BY <1>1, <1>2, <1>3
<1>5. chart'.revision = written /\ chart'.version = 1 /\ chart'.current = 1
  OBVIOUS
<1>6. chart' \in ChartRows
  <2> HIDE DEF written
  <2> QED BY <1>4, <1>5 DEF ChartRows
<1>7. \A n \in Revisions : chart.revision[n] = NoRevision
  BY <1>2
<1>8. \A n \in Revisions : chart'.revision[n].photos = chart.revision[n].photos
  <2>1. new.photos = {} /\ NoRevision.photos = {}
    BY DEF NoRevision
  <2> HIDE DEF written, new
  <2>2. \A n \in Revisions : written[n].photos = {}
    BY <1>4, <2>1
  <2> QED BY <1>5, <1>7, <2>1, <2>2
<1>9. Linked(chart') = Linked(chart)
  <2>1. \A p : p \in Linked(chart') <=> p \in Linked(chart)
    BY <1>8, LinkedIs
  <2> QED BY <2>1
<1>10. ChartShape'
  <2>1. \A n \in Revisions : n > 1 => chart'.revision[n] = NoRevision
    <3> HIDE DEF written
    <3> QED BY <1>4, <1>5
  <2> HIDE DEF written
  <2> QED BY <1>1, <1>4, <1>5, <2>1 DEF ChartShape
<1> QED BY <1>5, <1>6, <1>7, <1>9, <1>10 DEF NoRevision

-----------------------------------------------------------------------------
(* What the steps do to the requests                                       *)

\* of the requests only q changes
OnlyRequest(q) ==
    /\ request' \in [Requests -> RequestRows]
    /\ \A o \in Requests \ {q} : request'[o] = request[o]

\* q goes on with what it asked for, or is over
SameCall(q) ==
    /\ request'[q].op = request[q].op /\ request'[q].by = request[q].by
    /\ request'[q].expected = request[q].expected /\ request'[q].over = request[q].over
    /\ request'[q].stage # "free"

Handled(q) == OnlyRequest(q) /\ (request'[q] = Idle \/ SameCall(q))

\* The row of a request that is over is a row.
LEMMA IdleIs == Idle \in RequestRows /\ NothingSeen \in SeenRows /\ Idle.stage = "free"
BY ChartsAssumption DEF Idle, NothingSeen, RequestRows, SeenRows

\* An answer, or the next stage, ends what a request waits for.
LEMMA FinishHandles ==
    ASSUME TypeOK, NEW q \in Requests, NEW stage \in {"stored", "rejected", "clean", "done"},
           NEW answer \in {"none", "ok", "conflict", "refused"}, NEW result \in SeenRows,
           Finish(q, stage, answer, result)
    PROVE  /\ Handled(q)
           /\ \/ stage = "done" /\ request'[q] = Idle
              \/ /\ SameCall(q) /\ request'[q].photo = request[q].photo
                 /\ request'[q].stage = stage /\ request'[q].answer = answer
                 /\ request'[q].result = result /\ request'[q].left = {}
<1> DEFINE new == [request[q] EXCEPT !.stage = stage, !.answer = answer, !.result = result,
                                     !.left = {}]
           over == stage = "done" /\ request[q].by = NoScreen
           after == IF over THEN Idle ELSE new
<1>1. request[q] \in RequestRows
  BY DEF TypeOK
<1>2. request' = [request EXCEPT ![q] = after]
  BY DEF Finish
<1>3. /\ new \in RequestRows /\ new.op = request[q].op /\ new.by = request[q].by
      /\ new.expected = request[q].expected /\ new.over = request[q].over
      /\ new.photo = request[q].photo /\ new.stage = stage /\ new.answer = answer
      /\ new.result = result /\ new.left = {}
  BY <1>1 DEF RequestRows
<1>4. after \in RequestRows
  <2> HIDE DEF new, over
  <2> QED BY <1>3, IdleIs
<1> HIDE DEF new, after, over
<1>5. request'[q] = after /\ OnlyRequest(q)
  BY <1>2, <1>4 DEF TypeOK, OnlyRequest
<1> QED BY <1>3, <1>5 DEF Handled, SameCall, after, over
-----------------------------------------------------------------------------
(* Photos                                                                  *)

PhotosRight == UploadsAreNew /\ CleanupsAreRight /\ RowsAreRight

\* the photo of q is being uploaded, or is in the bucket without a row
Holds(r) == r.stage \in {"stored", "rejected"}

\* a step of q that leaves rows, objects and links, and loses no photo
Quiet(q) ==
    /\ OnlyRequest(q) /\ UNCHANGED <<row, objects>> /\ Linked(chart') = Linked(chart)
    /\ reported \subseteq reported' /\ crashed \subseteq crashed'
    /\ Holds(request'[q]) => Holds(request[q]) /\ request'[q].op = request[q].op
                             /\ request'[q].photo = request[q].photo
    /\ request'[q].stage = "sent" => request[q].stage = "sent"
                             /\ request'[q].op = request[q].op
                             /\ request'[q].photo = request[q].photo
    /\ Holds(request[q]) => Holds(request'[q]) \/ request[q].photo \in reported' \cup crashed'
    /\ \A p \in request'[q].left : row[p] \in {"pending", "gone"}
    /\ request'[q].stage = "removed" => request[q].stage = "removed"
                             /\ request'[q].photo = request[q].photo

\* A quiet step keeps what is known of the photos.
LEMMA QuietKeepsPhotos ==
    ASSUME TypeOK, PhotosRight, NEW q \in Requests, Quiet(q)
    PROVE  PhotosRight'
<1>1. \A o \in Requests : o # q => request'[o] = request[o]
  BY DEF Quiet, OnlyRequest
<1>2. \A o \in Requests : Uploading(o)' => Uploading(o) /\ request'[o].photo = request[o].photo
  BY <1>1 DEF Uploading, Quiet, Holds
<1>3. UploadsAreNew'
  <2>1. ASSUME NEW o \in Requests, request'[o].stage \in {"stored", "rejected"}
        PROVE  request'[o].op = "upload" /\ request'[o].photo \in objects'
    BY <1>1, <2>1 DEF PhotosRight, UploadsAreNew, Quiet, Holds
  <2>2. ASSUME NEW o \in Requests, Uploading(o)'
        PROVE  request'[o].photo \in Photos /\ row'[request'[o].photo] = "none"
    BY <1>2, <2>2 DEF PhotosRight, UploadsAreNew, Quiet
  <2>3. ASSUME NEW o \in Requests, NEW p \in Requests, Uploading(o)', Uploading(p)',
               request'[o].photo = request'[p].photo
        PROVE  o = p
    BY <1>2, <2>3 DEF PhotosRight, UploadsAreNew
  <2> QED BY <2>1, <2>2, <2>3 DEF UploadsAreNew
<1>4. CleanupsAreRight'
  BY <1>1 DEF PhotosRight, CleanupsAreRight, Quiet
<1>5. RowsAreRight'
  <2>1. UNCHANGED <<row, objects>> /\ Linked(chart') = Linked(chart)
    BY DEF Quiet
  <2>2. ASSUME NEW p \in Photos, row[p] = "none", p \in objects
        PROVE  \/ p \in reported' \cup crashed'
               \/ \E o \in Requests : request'[o].photo = p
                                      /\ request'[o].stage \in {"stored", "rejected"}
    <3>1. CASE p \in reported \cup crashed
      BY <3>1 DEF Quiet
    <3>2. ASSUME NEW o \in Requests, request[o].photo = p,
                 request[o].stage \in {"stored", "rejected"}
          PROVE  \/ p \in reported' \cup crashed'
                 \/ request'[o].photo = p /\ request'[o].stage \in {"stored", "rejected"}
      <4>1. CASE o # q
        BY <1>1, <3>2, <4>1
      <4>2. CASE o = q
        BY <3>2, <4>2 DEF Quiet, Holds
      <4> QED BY <4>1, <4>2
    <3> QED BY <2>2, <3>1, <3>2 DEF PhotosRight, RowsAreRight
  <2> QED BY <2>1, <2>2 DEF PhotosRight, RowsAreRight
<1> QED BY <1>3, <1>4, <1>5 DEF PhotosRight

\* A photo is sent only if nothing is known of it and no request has it.
LEMMA SendKeepsPhotos ==
    ASSUME TypeOK, PhotosRight, NEW q \in Requests, OnlyRequest(q),
           UNCHANGED <<chart, row, objects, reported, crashed>>,
           request[q].stage = "free", request'[q].stage = "sent", request'[q].left = {},
           request'[q].op = "upload" =>
              /\ request'[q].photo \in Photos /\ row[request'[q].photo] = "none"
              /\ \A o \in Requests : request[o].photo # request'[q].photo
    PROVE  PhotosRight'
<1>1. \A o \in Requests : o # q => request'[o] = request[o]
  BY DEF OnlyRequest
<1>2. \A o \in Requests : o # q => (Uploading(o)' <=> Uploading(o))
  BY <1>1 DEF Uploading
<1>3. UploadsAreNew'
  <2>1. ASSUME NEW o \in Requests, request'[o].stage \in {"stored", "rejected"}
        PROVE  request'[o].op = "upload" /\ request'[o].photo \in objects'
    BY <1>1, <2>1 DEF PhotosRight, UploadsAreNew
  <2>2. ASSUME NEW o \in Requests, Uploading(o)'
        PROVE  request'[o].photo \in Photos /\ row'[request'[o].photo] = "none"
    BY <1>1, <1>2, <2>2 DEF PhotosRight, UploadsAreNew, Uploading
  <2>3. ASSUME NEW o \in Requests, NEW p \in Requests, Uploading(o)', Uploading(p)',
               request'[o].photo = request'[p].photo
        PROVE  o = p
    <3>1. CASE o # q /\ p # q
      BY <1>1, <1>2, <2>3, <3>1 DEF PhotosRight, UploadsAreNew
    <3>2. CASE o = q /\ p # q
      BY <1>1, <2>3, <3>2 DEF Uploading
    <3>3. CASE o # q /\ p = q
      BY <1>1, <2>3, <3>3 DEF Uploading
    <3> QED BY <3>1, <3>2, <3>3
  <2> QED BY <2>1, <2>2, <2>3 DEF UploadsAreNew
<1>4. CleanupsAreRight'
  BY <1>1 DEF PhotosRight, CleanupsAreRight
<1>5. RowsAreRight'
  <2>1. \A o \in Requests : request[o].stage \in {"stored", "rejected"} => request'[o] = request[o]
    BY <1>1
  <2> QED BY <2>1 DEF PhotosRight, RowsAreRight
<1> QED BY <1>3, <1>4, <1>5 DEF PhotosRight

\* storage.put makes the object; the request holds it, or it is reported.
LEMMA PutKeepsPhotos ==
    ASSUME TypeOK, PhotosRight, NEW q \in Requests, OnlyRequest(q), Uploading(q),
           UNCHANGED <<chart, row, crashed>>, reported \subseteq reported',
           objects \subseteq objects', objects' \subseteq objects \cup {request[q].photo},
           request'[q].left = {},
           \/ /\ request'[q].stage = "stored" /\ request'[q].op = "upload"
              /\ request'[q].photo = request[q].photo /\ request[q].photo \in objects'
           \/ request'[q].stage \in {"free", "done"} /\ request[q].photo \in reported'
    PROVE  PhotosRight'
<1> DEFINE p == request[q].photo
<1>1. \A o \in Requests : o # q => request'[o] = request[o]
  BY DEF OnlyRequest
<1>2. /\ p \in Photos /\ row[p] = "none"
      /\ \A o \in Requests : Uploading(o)' => Uploading(o) /\ request'[o].photo = request[o].photo
  BY <1>1 DEF PhotosRight, UploadsAreNew, Uploading
<1>3. UploadsAreNew'
  <2>1. ASSUME NEW o \in Requests, request'[o].stage \in {"stored", "rejected"}
        PROVE  request'[o].op = "upload" /\ request'[o].photo \in objects'
    BY <1>1, <2>1 DEF PhotosRight, UploadsAreNew
  <2>2. ASSUME NEW o \in Requests, NEW r \in Requests, Uploading(o)', Uploading(r)',
               request'[o].photo = request'[r].photo
        PROVE  o = r
    BY <1>2, <2>2 DEF PhotosRight, UploadsAreNew
  <2>3. ASSUME NEW o \in Requests, Uploading(o)'
        PROVE  request'[o].photo \in Photos /\ row'[request'[o].photo] = "none"
    BY <1>2, <2>3 DEF PhotosRight, UploadsAreNew
  <2> QED BY <2>1, <2>2, <2>3 DEF UploadsAreNew
<1>4. CleanupsAreRight'
  <2>1. ASSUME NEW o \in Requests PROVE \A x \in request'[o].left : row'[x] \in {"pending", "gone"}
    BY <1>1 DEF PhotosRight, CleanupsAreRight
  <2>2. ASSUME NEW o \in Requests, request'[o].stage = "removed"
        PROVE  /\ request'[o].photo \in Photos \ objects'
               /\ row'[request'[o].photo] \in {"pending", "gone"}
    <3>1. request'[o] = request[o]
      BY <1>1, <2>2
    <3>2. request[o].photo \in Photos \ objects /\ row[request[o].photo] \in {"pending", "gone"}
      BY <2>2, <3>1 DEF PhotosRight, CleanupsAreRight
    <3> QED BY <1>2, <3>1, <3>2
  <2> QED BY <2>1, <2>2 DEF CleanupsAreRight
<1>5. RowsAreRight'
  <2>1. ASSUME NEW x \in Photos, x # p
        PROVE  /\ x \in objects' <=> x \in objects
               /\ \A o \in Requests : request[o].photo = x => request'[o] = request[o]
    BY <1>1, <2>1
  <2>2. ASSUME NEW x \in Photos, row[x] = "none", x \in objects'
        PROVE  \/ x \in reported' \cup crashed'
               \/ \E o \in Requests : request'[o].photo = x
                                      /\ request'[o].stage \in {"stored", "rejected"}
    <3>1. CASE x = p
      BY <3>1
    <3>2. CASE x # p
      BY <2>1, <2>2, <3>2 DEF PhotosRight, RowsAreRight
    <3> QED BY <3>1, <3>2
  <2>3. \A x \in Photos : row[x] = "gone" => x \notin objects'
    BY <1>2, <2>1 DEF PhotosRight, RowsAreRight
  <2> QED BY <2>2, <2>3 DEF PhotosRight, RowsAreRight
<1> QED BY <1>3, <1>4, <1>5 DEF PhotosRight
\* A photo that was uploaded gets its row: live and linked, or due for deletion.
LEMMA RowOfUploadKeepsPhotos ==
    ASSUME TypeOK, PhotosRight, NEW q \in Requests, OnlyRequest(q), Holds(request[q]),
           UNCHANGED objects, reported \subseteq reported', crashed \subseteq crashed',
           request'[q].left = {}, request'[q].stage \in {"free", "clean", "done"},
           \/ /\ row' = [row EXCEPT ![request[q].photo] = "live"]
              /\ Linked(chart') = Linked(chart) \cup {request[q].photo}
           \/ /\ row' = [row EXCEPT ![request[q].photo] = "pending"]
              /\ Linked(chart') = Linked(chart)
    PROVE  PhotosRight'
<1> DEFINE p == request[q].photo
<1>1. \A o \in Requests : o # q => request'[o] = request[o]
  BY DEF OnlyRequest
<1>2. p \in Photos /\ row[p] = "none" /\ p \in objects /\ p \notin Linked(chart) /\ Uploading(q)
  BY DEF PhotosRight, UploadsAreNew, Uploading, Holds, RowsAreRight
<1>3. /\ row'[p] \in {"live", "pending"} /\ row' \in [Photos -> {"none", "live", "pending", "gone"}]
      /\ \A x \in Photos \ {p} : row'[x] = row[x]
  BY <1>2 DEF TypeOK
<1>4. \A o \in Requests : Uploading(o)' => o # q /\ Uploading(o) /\ request'[o] = request[o]
  BY <1>1 DEF Uploading
<1>5. UploadsAreNew'
  <2>1. ASSUME NEW o \in Requests, request'[o].stage \in {"stored", "rejected"}
        PROVE  request'[o].op = "upload" /\ request'[o].photo \in objects'
    BY <1>1, <2>1 DEF PhotosRight, UploadsAreNew
  <2>2. ASSUME NEW o \in Requests, NEW r \in Requests, Uploading(o)', Uploading(r)',
               request'[o].photo = request'[r].photo
        PROVE  o = r
    BY <1>4, <2>2 DEF PhotosRight, UploadsAreNew
  <2>3. ASSUME NEW o \in Requests, Uploading(o)'
        PROVE  request'[o].photo \in Photos /\ row'[request'[o].photo] = "none"
    <3>1. request[o].photo # p
      BY <1>2, <1>4, <2>3 DEF PhotosRight, UploadsAreNew
    <3>2. request[o].photo \in Photos /\ row[request[o].photo] = "none"
      BY <1>4, <2>3 DEF PhotosRight, UploadsAreNew
    <3> QED BY <1>3, <1>4, <2>3, <3>1, <3>2
  <2> QED BY <2>1, <2>2, <2>3 DEF UploadsAreNew
<1>6. CleanupsAreRight'
  <2>1. ASSUME NEW x \in Photos, row[x] \in {"pending", "gone"} PROVE row'[x] = row[x]
    BY <1>2, <1>3, <2>1
  <2>2. ASSUME NEW o \in Requests PROVE \A x \in request'[o].left : row'[x] \in {"pending", "gone"}
    <3>1. request'[o].left \subseteq Photos
      BY DEF OnlyRequest, RequestRows
    <3> QED BY <1>1, <2>1, <3>1 DEF PhotosRight, CleanupsAreRight
  <2>3. ASSUME NEW o \in Requests, request'[o].stage = "removed"
        PROVE  /\ request'[o].photo \in Photos \ objects'
               /\ row'[request'[o].photo] \in {"pending", "gone"}
    BY <1>1, <2>1, <2>3 DEF PhotosRight, CleanupsAreRight
  <2> QED BY <2>2, <2>3 DEF CleanupsAreRight
<1>7. RowsAreRight'
  <2>1. ASSUME NEW x \in Photos, x # p
        PROVE  /\ x \in Linked(chart') <=> x \in Linked(chart)
               /\ \A o \in Requests : request[o].photo = x => request'[o] = request[o]
    BY <1>1, <2>1
  <2>2. ASSUME NEW x \in Photos, row'[x] = "none", x \in objects'
        PROVE  \/ x \in reported' \cup crashed'
               \/ \E o \in Requests : request'[o].photo = x
                                      /\ request'[o].stage \in {"stored", "rejected"}
    <3>1. x # p /\ row[x] = "none"
      BY <1>3, <2>2
    <3> QED BY <2>1, <2>2, <3>1 DEF PhotosRight, RowsAreRight
  <2>3. ASSUME NEW x \in Photos
        PROVE  /\ row'[x] = "live" <=> x \in Linked(chart')
               /\ row'[x] = "live" => x \in objects'
               /\ row'[x] = "gone" => x \notin objects'
    <3>1. CASE x = p
      BY <1>2, <3>1 DEF TypeOK
    <3>2. CASE x # p
      BY <1>3, <2>1, <3>2 DEF PhotosRight, RowsAreRight
    <3> QED BY <3>1, <3>2
  <2> QED BY <2>2, <2>3 DEF RowsAreRight
<1> QED BY <1>5, <1>6, <1>7 DEF PhotosRight

\* A photo taken off the draft is due for deletion unless another revision has it.
LEMMA RemovalKeepsPhotos ==
    ASSUME TypeOK, PhotosRight, NEW q \in Requests, OnlyRequest(q),
           ~Uploading(q), UNCHANGED <<objects, reported, crashed>>,
           request'[q].left = {}, request'[q].stage \in {"free", "clean"},
           NEW p \in Linked(chart), Linked(chart') \cup {p} = Linked(chart),
           row' = [row EXCEPT ![p] = IF p \in Linked(chart') THEN @ ELSE "pending"]
    PROVE  PhotosRight'
<1>1. \A o \in Requests : o # q => request'[o] = request[o]
  BY DEF OnlyRequest
<1>2. p \in Photos /\ row[p] = "live" /\ p \in objects
  <2>1. \A n \in Revisions : chart.revision[n].photos \subseteq Photos
    BY DEF TypeOK, ChartRows, RevisionRows
  <2>2. p \in Photos
    BY <2>1, LinkedIs
  <2> QED BY <2>2 DEF PhotosRight, RowsAreRight
<1>3. /\ row'[p] = IF p \in Linked(chart') THEN "live" ELSE "pending"
      /\ \A x \in Photos \ {p} : row'[x] = row[x]
  BY <1>2 DEF TypeOK
<1>4. \A o \in Requests : Uploading(o)' => o # q /\ Uploading(o) /\ request'[o] = request[o]
  BY <1>1 DEF Uploading
<1>5. \A x \in Photos : row[x] # "live" => row'[x] = row[x]
  BY <1>2, <1>3
<1>6. UploadsAreNew'
  <2>1. ASSUME NEW o \in Requests, request'[o].stage \in {"stored", "rejected"}
        PROVE  request'[o].op = "upload" /\ request'[o].photo \in objects'
    BY <1>1, <2>1 DEF PhotosRight, UploadsAreNew
  <2>2. ASSUME NEW o \in Requests, NEW r \in Requests, Uploading(o)', Uploading(r)',
               request'[o].photo = request'[r].photo
        PROVE  o = r
    BY <1>4, <2>2 DEF PhotosRight, UploadsAreNew
  <2>3. ASSUME NEW o \in Requests, Uploading(o)'
        PROVE  request'[o].photo \in Photos /\ row'[request'[o].photo] = "none"
    BY <1>4, <1>5, <2>3 DEF PhotosRight, UploadsAreNew
  <2> QED BY <2>1, <2>2, <2>3 DEF UploadsAreNew
<1>7. CleanupsAreRight'
  <2>1. ASSUME NEW o \in Requests PROVE \A x \in request'[o].left : row'[x] \in {"pending", "gone"}
    <3>1. request'[o].left \subseteq Photos
      BY DEF OnlyRequest, RequestRows
    <3> QED BY <1>1, <1>5, <3>1 DEF PhotosRight, CleanupsAreRight
  <2>2. ASSUME NEW o \in Requests, request'[o].stage = "removed"
        PROVE  /\ request'[o].photo \in Photos \ objects'
               /\ row'[request'[o].photo] \in {"pending", "gone"}
    BY <1>1, <1>5, <2>2 DEF PhotosRight, CleanupsAreRight
  <2> QED BY <2>1, <2>2 DEF CleanupsAreRight
<1>8. RowsAreRight'
  <2>1. \A o \in Requests : request[o].stage \in {"stored", "rejected"} => request'[o] = request[o]
    <3>1. request[q].stage \notin {"stored", "rejected"}
      BY DEF PhotosRight, UploadsAreNew, Uploading
    <3> QED BY <1>1, <3>1
  <2>2. ASSUME NEW x \in Photos
        PROVE  /\ row'[x] = "live" <=> x \in Linked(chart')
               /\ row'[x] = "live" => x \in objects'
               /\ row'[x] = "gone" => x \notin objects'
               /\ row'[x] = "none" => row[x] = "none"
    <3>1. CASE x = p
      BY <1>2, <1>3, <3>1
    <3>2. CASE x # p
      <4>1. x \in Linked(chart') <=> x \in Linked(chart)
        BY <3>2
      <4> QED BY <1>3, <3>2, <4>1 DEF PhotosRight, RowsAreRight
    <3> QED BY <3>1, <3>2
  <2> QED BY <2>1, <2>2 DEF PhotosRight, RowsAreRight
<1> QED BY <1>6, <1>7, <1>8 DEF PhotosRight

\* storage.remove takes the object of a photo that was given up.
LEMMA RemovedObjectKeepsPhotos ==
    ASSUME TypeOK, PhotosRight, NEW q \in Requests, OnlyRequest(q),
           UNCHANGED <<chart, row, reported, crashed>>, NEW p \in request[q].left,
           objects' = objects \ {p}, request[q].stage = "cleaning",
           request'[q].left = request[q].left, request'[q].stage = "removed",
           request'[q].photo = p
    PROVE  PhotosRight'
<1>1. \A o \in Requests : o # q => request'[o] = request[o]
  BY DEF OnlyRequest
<1>2. p \in Photos /\ row[p] \in {"pending", "gone"}
  BY DEF TypeOK, RequestRows, PhotosRight, CleanupsAreRight
<1>3. \A o \in Requests : Uploading(o)' => Uploading(o) /\ request'[o] = request[o]
  BY <1>1 DEF Uploading
<1>4. UploadsAreNew'
  <2>1. ASSUME NEW o \in Requests, request'[o].stage \in {"stored", "rejected"}
        PROVE  request'[o].op = "upload" /\ request'[o].photo \in objects'
    <3>1. o # q /\ request'[o] = request[o]
      BY <1>1, <2>1
    <3>2. request[o].op = "upload" /\ request[o].photo \in objects
      BY <2>1, <3>1 DEF PhotosRight, UploadsAreNew
    <3>3. row[request[o].photo] = "none"
      BY <2>1, <3>1, <3>2 DEF PhotosRight, UploadsAreNew, Uploading
    <3> QED BY <1>2, <3>1, <3>2, <3>3
  <2>2. ASSUME NEW o \in Requests, NEW r \in Requests, Uploading(o)', Uploading(r)',
               request'[o].photo = request'[r].photo
        PROVE  o = r
    BY <1>3, <2>2 DEF PhotosRight, UploadsAreNew
  <2>3. ASSUME NEW o \in Requests, Uploading(o)'
        PROVE  request'[o].photo \in Photos /\ row'[request'[o].photo] = "none"
    BY <1>3, <2>3 DEF PhotosRight, UploadsAreNew
  <2> QED BY <2>1, <2>2, <2>3 DEF UploadsAreNew
<1>5. CleanupsAreRight'
  BY <1>1, <1>2 DEF PhotosRight, CleanupsAreRight
<1>6. RowsAreRight'
  <2>1. \A o \in Requests : request[o].stage \in {"stored", "rejected"} => request'[o] = request[o]
    BY <1>1
  <2> QED BY <1>2, <2>1 DEF PhotosRight, RowsAreRight
<1> QED BY <1>4, <1>5, <1>6 DEF PhotosRight

\* The row of a photo whose object was removed is dropped, if it is still due.
LEMMA DroppedRowKeepsPhotos ==
    ASSUME TypeOK, PhotosRight, NEW q \in Requests, OnlyRequest(q),
           UNCHANGED <<chart, objects, reported, crashed>>, request[q].stage = "removed",
           request'[q].left \subseteq request[q].left, request'[q].stage = "cleaning",
           row' = [row EXCEPT ![request[q].photo] =
                      IF request[q].photo \in Unreferenced THEN "gone" ELSE @]
    PROVE  PhotosRight'
<1> DEFINE p == request[q].photo
<1>1. \A o \in Requests : o # q => request'[o] = request[o]
  BY DEF OnlyRequest
<1>2. p \in Photos \ objects /\ row[p] \in {"pending", "gone"}
  BY DEF PhotosRight, CleanupsAreRight
<1>3. row'[p] \in {"pending", "gone"} /\ \A x \in Photos \ {p} : row'[x] = row[x]
  BY <1>2 DEF TypeOK
<1>4. \A o \in Requests : Uploading(o)' => Uploading(o) /\ request'[o] = request[o]
  BY <1>1 DEF Uploading
<1>5. UploadsAreNew'
  <2>1. ASSUME NEW o \in Requests, request'[o].stage \in {"stored", "rejected"}
        PROVE  request'[o].op = "upload" /\ request'[o].photo \in objects'
    BY <1>1, <2>1 DEF PhotosRight, UploadsAreNew
  <2>2. ASSUME NEW o \in Requests, NEW r \in Requests, Uploading(o)', Uploading(r)',
               request'[o].photo = request'[r].photo
        PROVE  o = r
    BY <1>4, <2>2 DEF PhotosRight, UploadsAreNew
  <2>3. ASSUME NEW o \in Requests, Uploading(o)'
        PROVE  request'[o].photo \in Photos /\ row'[request'[o].photo] = "none"
    BY <1>2, <1>3, <1>4, <2>3 DEF PhotosRight, UploadsAreNew
  <2> QED BY <2>1, <2>2, <2>3 DEF UploadsAreNew
<1>6. \A x \in Photos : row[x] \in {"pending", "gone"} => row'[x] \in {"pending", "gone"}
  BY <1>3
<1>7. CleanupsAreRight'
  <2>1. ASSUME NEW o \in Requests PROVE \A x \in request'[o].left : row'[x] \in {"pending", "gone"}
    <3>1. request'[o].left \subseteq request[o].left /\ request[o].left \subseteq Photos
      BY <1>1 DEF TypeOK, RequestRows
    <3> QED BY <1>6, <3>1 DEF PhotosRight, CleanupsAreRight
  <2>2. ASSUME NEW o \in Requests, request'[o].stage = "removed"
        PROVE  /\ request'[o].photo \in Photos \ objects'
               /\ row'[request'[o].photo] \in {"pending", "gone"}
    BY <1>1, <1>6, <2>2 DEF PhotosRight, CleanupsAreRight
  <2> QED BY <2>1, <2>2 DEF CleanupsAreRight
<1>8. RowsAreRight'
  <2>1. \A o \in Requests : request[o].stage \in {"stored", "rejected"} => request'[o] = request[o]
    BY <1>1
  <2>2. ASSUME NEW x \in Photos
        PROVE  /\ row'[x] = "live" <=> row[x] = "live"
               /\ row'[x] = "gone" => x \notin objects
               /\ row'[x] = "none" => row[x] = "none"
    <3>1. CASE x = p
      BY <1>2, <1>3, <3>1
    <3>2. CASE x # p
      BY <1>3, <3>2 DEF PhotosRight, RowsAreRight
    <3> QED BY <3>1, <3>2
  <2> QED BY <2>1, <2>2 DEF PhotosRight, RowsAreRight
<1> QED BY <1>5, <1>7, <1>8 DEF PhotosRight
-----------------------------------------------------------------------------
(* Versions and texts                                                      *)

\* the chart stays, or gets a higher version
ChartMoves ==
    \/ UNCHANGED chart
    \/ chart' \in ChartRows /\ chart'.version > chart.version

KnownAfter(v, t) == v <= chart'.version /\ (v = chart'.version => t = Seen(chart').text)

\* What was known is known still.
LEMMA KnownStays ==
    ASSUME TypeOK, ChartMoves, NEW v \in Nat, NEW t, Known(v, t)
    PROVE  KnownAfter(v, t)
<1>1. chart.version \in Nat
  BY DEF TypeOK, ChartRows
<1>2. CASE UNCHANGED chart
  BY <1>2 DEF Known, KnownAfter
<1>3. CASE chart' \in ChartRows /\ chart'.version > chart.version
  <2>1. chart'.version \in Nat
    BY <1>3 DEF ChartRows
  <2> QED BY <1>1, <1>3, <2>1 DEF Known, KnownAfter
<1> QED BY <1>2, <1>3 DEF ChartMoves

\* A screen that does not change knows what it knew.
LEMMA ScreenStays ==
    ASSUME TypeOK, ViewsAreTrue, ChartMoves, NEW s \in Screens, screen'[s] = screen[s]
    PROVE  ScreenKnows(s)'
<1>1. screen[s].shown.version \in Nat
  BY DEF TypeOK, ScreenRows, SeenRows
<1>2. KnownAfter(screen[s].shown.version, screen[s].saved)
  BY <1>1, KnownStays DEF ViewsAreTrue, ScreenKnows
<1> QED BY <1>2 DEF ViewsAreTrue, ScreenKnows, Known, KnownAfter

\* So does a request, unless its screen changes.
LEMMA RequestStays ==
    ASSUME TypeOK, ViewsAreTrue, ChartMoves, NEW q \in Requests, request'[q] = request[q],
           request[q].by # NoScreen => /\ screen'[request[q].by].busy
                                       /\ screen'[request[q].by].saved = screen[request[q].by].saved
    PROVE  RequestKnows(q)'
<1> DEFINE r == request[q]
<1>1. r.expected \in Nat /\ r.result.version \in Nat
  BY DEF TypeOK, RequestRows, SeenRows
<1>2. r.stage # "free" => KnownAfter(r.expected, r.over)
  BY <1>1, KnownStays DEF ViewsAreTrue, RequestKnows
<1>3. r.stage # "free" /\ r.answer = "ok" => KnownAfter(r.result.version, TextAnswered(r))
  BY <1>1, KnownStays DEF ViewsAreTrue, RequestKnows
<1> QED BY <1>2, <1>3 DEF ViewsAreTrue, RequestKnows, Known, KnownAfter

\* The answer to a request is the chart as it left it; what others know gets old.
LEMMA HandlersKeepViews ==
    ASSUME TypeOK, ViewsAreTrue, NEW q \in Requests, Handled(q), request[q].stage # "free",
           UNCHANGED screen, ChartMoves,
           request'[q] # Idle =>
              LET r == request'[q] IN
              /\ r.answer = "ok" => KnownAfter(r.result.version, TextAnswered(r))
                                    /\ (r.result.draft => r.result.version > 0)
              /\ r.stage \notin {"sent", "stored"} => r.answer # "none"
    PROVE  ViewsAreTrue'
<1>1. ASSUME NEW s \in Screens PROVE ScreenKnows(s)'
  BY ScreenStays
<1>2. ASSUME NEW o \in Requests, o # q PROVE RequestKnows(o)'
  <2>1. request'[o] = request[o]
    BY <1>2 DEF Handled, OnlyRequest
  <2>2. request[o].by # NoScreen => screen[request[o].by].busy
    BY DEF ViewsAreTrue, RequestKnows
  <2> QED BY <2>1, <2>2, RequestStays
<1>3. RequestKnows(q)'
  <2>1. CASE request'[q] = Idle
    BY <2>1 DEF Idle, RequestKnows
  <2>2. CASE request'[q] # Idle /\ SameCall(q)
    <3>1. request[q].expected \in Nat
      BY DEF TypeOK, RequestRows
    <3>2. KnownAfter(request'[q].expected, request'[q].over)
      BY <2>2, <3>1, KnownStays DEF SameCall, ViewsAreTrue, RequestKnows
    <3>3. /\ request'[q].op \in Operations /\ (request'[q].op # "create" => request'[q].expected > 0)
          /\ request'[q].by # NoScreen => screen'[request'[q].by].busy
                                          /\ screen'[request'[q].by].saved = request'[q].over
          /\ request'[q].stage # "free"
      BY <2>2 DEF SameCall, ViewsAreTrue, RequestKnows
    <3>4. request'[q].answer = "ok" =>
             /\ KnownAfter(request'[q].result.version, TextAnswered(request'[q]))
             /\ (request'[q].result.draft => request'[q].result.version > 0)
      BY <2>2
    <3>5. request'[q].stage \notin {"sent", "stored"} => request'[q].answer # "none"
      BY <2>2
    <3> QED BY <3>2, <3>3, <3>4, <3>5 DEF RequestKnows, Known, KnownAfter
  <2> QED BY <2>1, <2>2 DEF Handled
<1>4. ASSUME NEW o \in Requests, NEW p \in Requests, request'[o].by = request'[p].by,
             request'[o].by # NoScreen
      PROVE  o = p
  <2>1. \A r \in Requests : request'[r].by \in {request[r].by, NoScreen}
    BY DEF Handled, OnlyRequest, SameCall, Idle
  <2> QED BY <1>4, <2>1 DEF ViewsAreTrue
<1> QED BY <1>1, <1>2, <1>3, <1>4 DEF ViewsAreTrue

\* A request carries what its screen knows.
LEMMA SendKeepsViews ==
    ASSUME TypeOK, ViewsAreTrue, NEW s \in Screens, NEW q \in Requests, OnlyRequest(q),
           UNCHANGED chart, ~screen[s].busy,
           \A x \in Screens \ {s} : screen'[x] = screen[x],
           screen'[s].busy, screen'[s].saved = screen[s].saved,
           screen'[s].shown = screen[s].shown,
           request'[q].by = s, request'[q].stage = "sent", request'[q].answer = "none",
           request'[q].op \in Operations,
           request'[q].op # "create" => screen[s].shown.version > 0,
           request'[q].expected = screen[s].shown.version, request'[q].over = screen[s].saved
    PROVE  ViewsAreTrue'
<1>1. \A o \in Requests : o # q => request'[o] = request[o]
  BY DEF OnlyRequest
<1>2. \A o \in Requests : request[o].by # s
  <2>1. s # NoScreen
    BY ChartsAssumption
  <2> QED BY <2>1 DEF ViewsAreTrue, RequestKnows
<1>3. ChartMoves
  BY DEF ChartMoves
<1>4. ASSUME NEW x \in Screens PROVE ScreenKnows(x)'
  <2>1. CASE x = s
    BY <2>1 DEF ViewsAreTrue, ScreenKnows, Known
  <2>2. CASE x # s
    BY <1>3, <2>2, ScreenStays
  <2> QED BY <2>1, <2>2
<1>5. ASSUME NEW o \in Requests, o # q PROVE RequestKnows(o)'
  <2>1. request[o].by \in Screens \cup {NoScreen}
    BY DEF TypeOK, RequestRows
  <2>2. request[o].by # NoScreen => /\ screen'[request[o].by].busy
                                    /\ screen'[request[o].by].saved = screen[request[o].by].saved
    BY <1>2, <2>1 DEF ViewsAreTrue, RequestKnows
  <2> QED BY <1>1, <1>3, <1>5, <2>2, RequestStays
<1>6. RequestKnows(q)'
  BY DEF RequestKnows, ViewsAreTrue, ScreenKnows, Known
<1>7. ASSUME NEW o \in Requests, NEW p \in Requests, request'[o].by = request'[p].by,
             request'[o].by # NoScreen
      PROVE  o = p
  BY <1>1, <1>2, <1>7 DEF ViewsAreTrue
<1> QED BY <1>4, <1>5, <1>6, <1>7 DEF ViewsAreTrue

\* An answer, or the loss of it, frees the screen of the request.
LEMMA AnswerKeepsViews ==
    ASSUME TypeOK, ViewsAreTrue, NEW q \in Requests, OnlyRequest(q), UNCHANGED chart,
           NEW s \in Screens, request[q].by = s, request[q].stage # "free",
           \/ request'[q] = Idle
           \/ /\ request'[q].by = NoScreen /\ request'[q].stage = request[q].stage
              /\ request'[q].op = request[q].op /\ request'[q].expected = request[q].expected
              /\ request'[q].over = request[q].over /\ request'[q].answer = request[q].answer
              /\ request'[q].result = request[q].result,
           \A x \in Screens \ {s} : screen'[x] = screen[x], ScreenKnows(s)'
    PROVE  ViewsAreTrue'
<1>1. \A o \in Requests : o # q => request'[o] = request[o] /\ request[o].by # s
  BY ChartsAssumption DEF OnlyRequest, ViewsAreTrue
<1>2. ChartMoves
  BY DEF ChartMoves
<1>3. ASSUME NEW x \in Screens PROVE ScreenKnows(x)'
  BY <1>2, ScreenStays
<1>4. ASSUME NEW o \in Requests, o # q PROVE RequestKnows(o)'
  <2>1. request[o].by \in Screens \cup {NoScreen}
    BY DEF TypeOK, RequestRows
  <2>2. request[o].by # NoScreen => /\ screen'[request[o].by].busy
                                    /\ screen'[request[o].by].saved = screen[request[o].by].saved
    BY <1>1, <1>4, <2>1 DEF ViewsAreTrue, RequestKnows
  <2> QED BY <1>1, <1>2, <1>4, <2>2, RequestStays
<1>5. RequestKnows(q)'
  <2>1. CASE request'[q] = Idle
    BY <2>1 DEF Idle, RequestKnows
  <2>2. CASE request'[q] # Idle
    BY <2>2 DEF RequestKnows, ViewsAreTrue, Known, TextAnswered
  <2> QED BY <2>1, <2>2
<1>6. ASSUME NEW o \in Requests, NEW p \in Requests, request'[o].by = request'[p].by,
             request'[o].by # NoScreen
      PROVE  o = p
  <2>1. request'[q].by = NoScreen
    BY DEF Idle
  <2> QED BY <1>1, <1>6, <2>1 DEF ViewsAreTrue
<1> QED BY <1>3, <1>4, <1>5, <1>6 DEF ViewsAreTrue

-----------------------------------------------------------------------------
(* The steps of the screens                                                *)

\* A screen that is given what a chart has is a screen.
LEMMA AcceptedIs ==
    ASSUME NEW scr \in ScreenRows, NEW seen \in SeenRows
    PROVE  /\ AcceptAll(scr, seen) \in ScreenRows
           /\ AcceptAll(scr, seen).shown = seen /\ AcceptAll(scr, seen).saved = seen.text
           /\ AcceptAll(scr, seen).busy = scr.busy
BY DEF AcceptAll, ScreenRows, SeenRows

\* The clerk presses a button.
LEMMA SendKeeps ==
    ASSUME ChartsInv, NEW s \in Screens, NEW q \in Requests, NEW op \in Operations,
           NEW text \in Texts, NEW photo \in Photos \cup {NoPhoto},
           op \in {"upload", "remove"} => photo \in Photos,
           Send(s, q, op, text, photo)
    PROVE  ChartsInv'
<1> DEFINE seen == screen[s].shown
           new == [Idle EXCEPT !.op = op, !.stage = "sent", !.by = s, !.photo = photo,
                               !.expected = screen[s].shown.version,
                               !.text = text, !.over = screen[s].saved]
           scr == [screen[s] EXCEPT !.busy = TRUE]
<1>1. /\ TypeOK /\ ChartShape /\ PhotosRight /\ ViewsAreTrue
      /\ screen[s] \in ScreenRows /\ seen.version \in Nat /\ screen[s].saved \in Texts
  BY DEF ChartsInv, PhotosRight, TypeOK, ScreenRows, SeenRows
<1>2. /\ request[q].stage = "free" /\ ~screen[s].busy /\ Offers(seen, op, photo)
      /\ request' = [request EXCEPT ![q] = new]
      /\ screen' = [screen EXCEPT ![s].busy = TRUE]
      /\ UNCHANGED <<chart, row, objects, reported, crashed>>
  BY DEF Send, Locked
<1>3. /\ new \in RequestRows /\ new.op = op /\ new.stage = "sent" /\ new.by = s
      /\ new.photo = photo /\ new.expected = seen.version /\ new.over = screen[s].saved
      /\ new.left = {} /\ new.answer = "none"
  <2> HIDE DEF seen
  <2>1. Idle \in RequestRows
    BY IdleIs
  <2> QED BY <1>1, <2>1 DEF Idle, RequestRows, seen
<1>4. /\ scr \in ScreenRows /\ scr.busy /\ scr.saved = screen[s].saved
      /\ scr.shown = screen[s].shown
  BY <1>1 DEF ScreenRows
<1> HIDE DEF new
<1>5. OnlyRequest(q) /\ request'[q] = new
  BY <1>1, <1>2, <1>3 DEF TypeOK, OnlyRequest
<1>6. /\ screen' = [screen EXCEPT ![s] = scr]
  BY <1>1, <1>2 DEF TypeOK
<1> HIDE DEF scr
<1>7. /\ screen' \in [Screens -> ScreenRows] /\ screen'[s] = scr
      /\ \A x \in Screens \ {s} : screen'[x] = screen[x]
  BY <1>1, <1>4, <1>6 DEF TypeOK
<1>8. op # "create" => seen.version > 0
  <2>1. seen.draft => seen.version > 0
    BY <1>1 DEF ViewsAreTrue, ScreenKnows
  <2>2. op = "upload" => seen.draft
    BY <1>2 DEF Offers, MayUpload
  <2>3. op = "remove" => seen.draft
    BY <1>2 DEF Offers, MayRemove
  <2>4. op = "draft" => seen.draft
    BY <1>2 DEF Offers
  <2>5. op = "finalize" => seen.draft
    BY <1>2 DEF Offers
  <2>6. op = "amend" => seen.version > 0
    BY <1>2 DEF Offers
  <2> QED BY <2>1, <2>2, <2>3, <2>4, <2>5, <2>6 DEF Operations
<1>9. op = "upload" => /\ photo \in Photos /\ row[photo] = "none"
                       /\ \A o \in Requests : request[o].photo # photo
  BY <1>2 DEF Offers, MayUpload
<1>10. PhotosRight'
  BY <1>1, <1>2, <1>3, <1>5, <1>9, SendKeepsPhotos
<1>11. ViewsAreTrue'
  BY <1>1, <1>2, <1>3, <1>4, <1>5, <1>7, <1>8, SendKeepsViews
<1>12. TypeOK' /\ ChartShape'
  BY <1>1, <1>2, <1>5, <1>7 DEF TypeOK, ChartShape, OnlyRequest
<1> QED BY <1>10, <1>11, <1>12 DEF ChartsInv, PhotosRight

\* The screen is given the chart as it is.
LEMMA RefreshKeeps ==
    ASSUME ChartsInv, NEW s \in Screens, Refresh(s)
    PROVE  ChartsInv'
<1> DEFINE seen == Seen(chart)
           scr == AcceptAll(screen[s], seen)
           new == [scr EXCEPT !.conflict = FALSE]
<1>1. TypeOK /\ ChartShape /\ ViewsAreTrue /\ screen[s] \in ScreenRows
  BY DEF ChartsInv, TypeOK
<1>2. /\ ~screen[s].busy /\ UNCHANGED <<chart, row, objects, request, reported, crashed>>
      /\ screen' = [screen EXCEPT ![s] = new]
  BY DEF Refresh
<1>3. seen \in SeenRows /\ seen.version = chart.version /\ (seen.draft => seen.version > 0)
  BY <1>1, SeenIs
<1> HIDE DEF seen
<1>4. scr \in ScreenRows /\ scr.shown = seen /\ scr.saved = seen.text
  BY <1>1, <1>3, AcceptedIs
<1> HIDE DEF scr
<1>5. new \in ScreenRows /\ new.shown = seen /\ new.saved = seen.text
  BY <1>4 DEF ScreenRows
<1> HIDE DEF new
<1>6. /\ screen' \in [Screens -> ScreenRows] /\ screen'[s] = new
      /\ \A x \in Screens \ {s} : screen'[x] = screen[x]
  BY <1>1, <1>2, <1>5 DEF TypeOK
<1>7. ChartMoves
  BY <1>2 DEF ChartMoves
<1>8. ScreenKnows(s)'
  <2>1. chart.version \in Nat
    BY <1>1 DEF TypeOK, ChartRows
  <2> QED BY <1>2, <1>3, <1>5, <1>6, <2>1 DEF ScreenKnows, Known, seen
<1>9. ASSUME NEW x \in Screens PROVE ScreenKnows(x)'
  BY <1>1, <1>6, <1>7, <1>8, ScreenStays
<1>10. ASSUME NEW q \in Requests PROVE RequestKnows(q)'
  <2>1. request[q].by \in Screens \cup {NoScreen} /\ request'[q] = request[q]
    BY <1>1, <1>2 DEF TypeOK, RequestRows
  <2>2. request[q].by # NoScreen => screen[request[q].by].busy
    BY <1>1 DEF ViewsAreTrue, RequestKnows
  <2>3. request[q].by # NoScreen => /\ screen'[request[q].by].busy
                                    /\ screen'[request[q].by].saved = screen[request[q].by].saved
    BY <1>2, <1>6, <2>1, <2>2
  <2> QED BY <1>1, <1>7, <2>1, <2>3, RequestStays
<1>11. ViewsAreTrue'
  BY <1>1, <1>2, <1>9, <1>10 DEF ViewsAreTrue
<1>12. TypeOK' /\ ChartShape' /\ UploadsAreNew' /\ CleanupsAreRight' /\ RowsAreRight'
  BY <1>2, <1>6 DEF ChartsInv, TypeOK, ChartShape, UploadsAreNew, Uploading, CleanupsAreRight,
                   RowsAreRight
<1> QED BY <1>11, <1>12 DEF ChartsInv

\* An answer arrives.
LEMMA ReceiveKeeps ==
    ASSUME ChartsInv, NEW q \in Requests, Receive(q)
    PROVE  ChartsInv'
<1> DEFINE r == request[q]
           s == r.by
           free == [screen[s] EXCEPT !.busy = FALSE]
           held == [free EXCEPT !.conflict = (r.op # "create")]
           shown == [free EXCEPT !.shown = r.result]
           new == CASE r.answer = "refused" -> free
                    [] r.answer = "conflict" -> held
                    [] r.answer = "ok" /\ r.op \in {"upload", "remove"} -> shown
                    [] OTHER -> AcceptAll(free, r.result)
<1>1. /\ TypeOK /\ ChartShape /\ PhotosRight /\ ViewsAreTrue /\ r \in RequestRows
      /\ r.result \in SeenRows
  BY DEF ChartsInv, PhotosRight, TypeOK, RequestRows
<1>2. /\ r.stage = "done" /\ s \in Screens /\ request' = [request EXCEPT ![q] = Idle]
      /\ screen' = [screen EXCEPT ![s] = new]
      /\ UNCHANGED <<chart, row, objects, reported, crashed>>
  BY <1>1 DEF Receive, RequestRows
<1>3. screen[s] \in ScreenRows
  BY <1>1, <1>2 DEF TypeOK
<1>4. /\ free \in ScreenRows /\ free.shown = screen[s].shown /\ free.saved = screen[s].saved
  BY <1>3 DEF ScreenRows
<1>5. /\ held \in ScreenRows /\ held.shown = screen[s].shown /\ held.saved = screen[s].saved
  <2> HIDE DEF free
  <2> QED BY <1>4 DEF ScreenRows
<1>6. /\ shown \in ScreenRows /\ shown.shown = r.result /\ shown.saved = screen[s].saved
  <2> HIDE DEF free
  <2> QED BY <1>1, <1>4 DEF ScreenRows
<1>7. LET all == AcceptAll(free, r.result)
      IN all \in ScreenRows /\ all.shown = r.result /\ all.saved = r.result.text
  <2> HIDE DEF free
  <2> QED BY <1>1, <1>4, AcceptedIs
<1>8. /\ Known(screen[s].shown.version, screen[s].saved)
      /\ screen[s].shown.draft => screen[s].shown.version > 0
      /\ r.answer = "ok" => /\ Known(r.result.version, TextAnswered(r))
                            /\ r.result.draft => r.result.version > 0
      /\ screen[s].saved = r.over /\ r.answer \in {"ok", "conflict", "refused"}
  BY <1>1, <1>2, ChartsAssumption DEF ViewsAreTrue, ScreenKnows, RequestKnows, RequestRows
<1>9. /\ new \in ScreenRows
      /\ Known(new.shown.version, new.saved) /\ (new.shown.draft => new.shown.version > 0)
  <2> HIDE DEF free, held, shown
  <2>1. CASE r.answer = "refused"
    BY <1>4, <1>8, <2>1
  <2>2. CASE r.answer = "conflict"
    BY <1>5, <1>8, <2>2
  <2>3. CASE r.answer = "ok" /\ r.op \in {"upload", "remove"}
    BY <1>6, <1>8, <2>3 DEF TextAnswered
  <2>4. CASE r.answer = "ok" /\ r.op \notin {"upload", "remove"}
    BY <1>7, <1>8, <2>4 DEF TextAnswered
  <2> QED BY <1>8, <2>1, <2>2, <2>3, <2>4
<1> HIDE DEF new
<1>10. OnlyRequest(q) /\ request'[q] = Idle
  BY <1>1, <1>2, IdleIs DEF TypeOK, OnlyRequest
<1>11. /\ screen' \in [Screens -> ScreenRows] /\ screen'[s] = new
       /\ \A x \in Screens \ {s} : screen'[x] = screen[x]
  BY <1>1, <1>2, <1>9 DEF TypeOK
<1>12. ViewsAreTrue'
  <2> DEFINE x == s
  <2>1. PICK y \in Screens : y = s
    BY <1>2
  <2>2. ScreenKnows(y)'
    BY <1>2, <1>9, <1>11, <2>1 DEF ScreenKnows, Known
  <2> QED BY <1>1, <1>2, <1>10, <1>11, <2>1, <2>2, AnswerKeepsViews
<1>13. PhotosRight'
  <2>1. Quiet(q)
    BY <1>2, <1>10 DEF Quiet, Holds, Idle, Linked
  <2> QED BY <1>1, <2>1, QuietKeepsPhotos
<1>14. TypeOK' /\ ChartShape'
  BY <1>1, <1>2, <1>10, <1>11 DEF TypeOK, ChartShape, OnlyRequest
<1> QED BY <1>12, <1>13, <1>14 DEF ChartsInv, PhotosRight

\* An answer will not arrive.
LEMMA LoseAnswerKeeps ==
    ASSUME ChartsInv, NEW q \in Requests, LoseAnswer(q)
    PROVE  ChartsInv'
<1> DEFINE r == request[q]
           alone == [r EXCEPT !.by = NoScreen]
           new == IF r.stage = "done" THEN Idle ELSE alone
           free == [screen[r.by] EXCEPT !.busy = FALSE]
<1>1. /\ TypeOK /\ ChartShape /\ PhotosRight /\ ViewsAreTrue /\ r \in RequestRows
  BY DEF ChartsInv, PhotosRight, TypeOK
<1>2. /\ r.stage # "free" /\ r.by \in Screens /\ request' = [request EXCEPT ![q] = new]
      /\ screen' = [screen EXCEPT ![r.by].busy = FALSE]
      /\ UNCHANGED <<chart, row, objects, reported, crashed>>
  BY <1>1 DEF LoseAnswer, RequestRows
<1>3. /\ alone \in RequestRows /\ alone.by = NoScreen /\ alone.stage = r.stage
      /\ alone.op = r.op /\ alone.expected = r.expected /\ alone.over = r.over
      /\ alone.answer = r.answer /\ alone.result = r.result /\ alone.photo = r.photo
      /\ alone.left = r.left
  BY <1>1 DEF RequestRows
<1> HIDE DEF alone
<1>4. new \in RequestRows
  BY <1>3, IdleIs
<1>5. OnlyRequest(q) /\ request'[q] = new
  <2> HIDE DEF new
  <2> QED BY <1>1, <1>2, <1>4 DEF TypeOK, OnlyRequest
<1>6. screen[r.by] \in ScreenRows
  BY <1>1, <1>2 DEF TypeOK
<1>7. free \in ScreenRows /\ free.shown = screen[r.by].shown /\ free.saved = screen[r.by].saved
  BY <1>6 DEF ScreenRows
<1>8. /\ screen' \in [Screens -> ScreenRows] /\ screen'[r.by] = free
      /\ \A x \in Screens \ {r.by} : screen'[x] = screen[x]
  <2>1. screen' = [screen EXCEPT ![r.by] = free]
    BY <1>1, <1>2 DEF TypeOK
  <2> HIDE DEF free
  <2> QED BY <1>1, <1>2, <1>7, <2>1 DEF TypeOK
<1> HIDE DEF free
<1>9. ViewsAreTrue'
  <2>1. PICK y \in Screens : y = r.by
    BY <1>2
  <2>2. ScreenKnows(y)'
    BY <1>1, <1>2, <1>7, <1>8, <2>1 DEF ViewsAreTrue, ScreenKnows, Known
  <2> QED BY <1>1, <1>2, <1>3, <1>5, <1>8, <2>1, <2>2, AnswerKeepsViews
<1>10. PhotosRight'
  <2>1. \A p \in r.left : row[p] \in {"pending", "gone"}
    BY <1>1 DEF PhotosRight, CleanupsAreRight
  <2>2. Quiet(q)
    BY <1>2, <1>3, <1>5, <2>1 DEF Quiet, Holds, Idle, Linked
  <2> QED BY <1>1, <2>2, QuietKeepsPhotos
<1>11. TypeOK' /\ ChartShape'
  BY <1>1, <1>2, <1>5, <1>8 DEF TypeOK, ChartShape, OnlyRequest
<1> QED BY <1>9, <1>10, <1>11 DEF ChartsInv, PhotosRight

-----------------------------------------------------------------------------
(* The steps of the handlers                                               *)

\* What has to be shown of a handler's step.
LEMMA HandlerKeeps ==
    ASSUME ChartsInv, NEW q \in Requests, Handled(q), request[q].stage # "free",
           UNCHANGED screen, ChartMoves, chart' \in ChartRows, ChartShape',
           row' \in [Photos -> {"none", "live", "pending", "gone"}], objects' \subseteq Photos,
           PhotosRight',
           request'[q] # Idle =>
              LET r == request'[q] IN
              /\ r.answer = "ok" => KnownAfter(r.result.version, TextAnswered(r))
                                    /\ (r.result.draft => r.result.version > 0)
              /\ r.stage \notin {"sent", "stored"} => r.answer # "none"
    PROVE  ChartsInv'
<1>1. TypeOK /\ ViewsAreTrue
  BY DEF ChartsInv
<1>2. ViewsAreTrue'
  BY <1>1, HandlersKeepViews
<1>3. TypeOK'
  BY <1>1 DEF TypeOK, Handled, OnlyRequest
<1> QED BY <1>2, <1>3 DEF ChartsInv, PhotosRight

\* A request that answers, and leaves rows, objects and chart.
LEMMA QuietFinishKeeps ==
    ASSUME ChartsInv, NEW q \in Requests, request[q].stage # "free",
           UNCHANGED <<chart, row, objects, screen>>,
           reported \subseteq reported', crashed \subseteq crashed',
           NEW stage \in {"rejected", "done"},
           NEW answer \in {"ok", "conflict", "refused"}, NEW result \in SeenRows,
           Finish(q, stage, answer, result),
           answer = "ok" => \/ request[q].answer = "ok" /\ result = request[q].result
                            \/ request[q].op # "create" /\ result = NothingSeen,
           stage = "rejected" => Holds(request[q]),
           Holds(request[q]) => stage = "rejected" \/ request[q].photo \in reported' \cup crashed'
    PROVE  ChartsInv'
<1>1. TypeOK /\ ChartShape /\ PhotosRight /\ ViewsAreTrue
  BY DEF ChartsInv, PhotosRight
<1>2. /\ Handled(q)
      /\ \/ stage = "done" /\ request'[q] = Idle
         \/ /\ SameCall(q) /\ request'[q].photo = request[q].photo
            /\ request'[q].stage = stage /\ request'[q].answer = answer
            /\ request'[q].result = result /\ request'[q].left = {}
  BY <1>1, FinishHandles
<1>3. Quiet(q)
  BY <1>2 DEF Quiet, Holds, Handled, SameCall, Idle, Linked
<1>4. PhotosRight'
  BY <1>1, <1>3, QuietKeepsPhotos
<1>5. ChartMoves /\ chart' \in ChartRows /\ ChartShape'
      /\ row' \in [Photos -> {"none", "live", "pending", "gone"}] /\ objects' \subseteq Photos
  BY <1>1 DEF ChartMoves, TypeOK, ChartShape
<1>6. request'[q] # Idle =>
         LET r == request'[q] IN
         /\ r.answer = "ok" => KnownAfter(r.result.version, TextAnswered(r))
                               /\ (r.result.draft => r.result.version > 0)
         /\ r.stage \notin {"sent", "stored"} => r.answer # "none"
  <2> SUFFICES ASSUME request'[q] # Idle, answer = "ok"
               PROVE  /\ KnownAfter(result.version, TextAnswered(request'[q]))
                      /\ result.draft => result.version > 0
    BY <1>2
  <2>1. CASE request[q].answer = "ok" /\ result = request[q].result
    <3>1. /\ Known(result.version, TextAnswered(request[q])) /\ result.version \in Nat
          /\ result.draft => result.version > 0
      BY <1>1, <2>1 DEF ViewsAreTrue, RequestKnows, SeenRows
    <3>2. TextAnswered(request'[q]) = TextAnswered(request[q])
      BY <1>2, <2>1 DEF TextAnswered, SameCall
    <3> QED BY <1>1, <1>5, <3>1, <3>2, KnownStays
  <2>2. CASE request[q].op # "create" /\ result = NothingSeen
    <3>1. /\ request[q].expected > 0 /\ request[q].expected <= chart.version
          /\ request[q].expected \in Nat /\ chart.version \in Nat
      BY <1>1, <2>2 DEF ViewsAreTrue, RequestKnows, Known, TypeOK, RequestRows, ChartRows
    <3>2. chart.version > 0
      BY <3>1
    <3> QED BY <2>2, <3>1, <3>2 DEF KnownAfter, NothingSeen
  <2> QED BY <2>1, <2>2
<1> QED BY <1>2, <1>4, <1>5, <1>6, HandlerKeeps

\* An accepted request answers with the chart it made.
LEMMA AcceptedAnswers ==
    ASSUME ChartsInv, NEW q \in Requests, request[q].stage # "free",
           request[q].op # "create", request[q].op = "upload" => request[q].photo \in Photos,
           Refusal(request[q]) = "none", chart' = Updated(request[q]),
           chart.version < MaxVersion,
           NEW stage \in {"clean", "done"}, NEW answer \in {"ok", "refused"},
           answer = "refused" => stage = "done",
           NEW result \in {NothingSeen, Seen(chart')}, answer = "ok" => result = Seen(chart'),
           Finish(q, stage, answer, result)
    PROVE  /\ ChartMoves /\ chart' \in ChartRows /\ ChartShape' /\ Handled(q)
           /\ \/ stage = "done" /\ request'[q] = Idle
              \/ request'[q].stage = stage /\ request'[q].left = {}
           /\ request'[q] # Idle =>
                LET r == request'[q] IN
                /\ r.answer = "ok" => KnownAfter(r.result.version, TextAnswered(r))
                                      /\ (r.result.draft => r.result.version > 0)
                /\ r.stage \notin {"sent", "stored"} => r.answer # "none"
<1> DEFINE r == request[q]
<1>1. /\ TypeOK /\ ChartShape /\ r \in RequestRows /\ r.op \in Operations \ {"create"}
      /\ r.expected > 0 /\ Known(r.expected, r.over)
  BY DEF ChartsInv, TypeOK, ViewsAreTrue, RequestKnows
<1>2. /\ chart' \in ChartRows /\ ChartShape' /\ chart'.version = chart.version + 1
      /\ chart'.version > 0 /\ r.expected = chart.version
      /\ r.op # "draft" => Seen(chart').text = Seen(chart).text
  BY <1>1, ChartChanges
<1>3. ChartMoves
  <2>1. chart.version \in Nat
    BY <1>1 DEF TypeOK, ChartRows
  <2> QED BY <1>2, <2>1 DEF ChartMoves
<1>4. Seen(chart') \in SeenRows /\ Seen(chart').version = chart'.version
  BY <1>2, SeenOf DEF ChartShape
<1>5. /\ Handled(q)
      /\ \/ stage = "done" /\ request'[q] = Idle
         \/ /\ SameCall(q) /\ request'[q].photo = request[q].photo
            /\ request'[q].stage = stage /\ request'[q].answer = answer
            /\ request'[q].result = result /\ request'[q].left = {}
  BY <1>1, <1>4, FinishHandles, IdleIs
<1>6. ASSUME answer = "ok", SameCall(q), request'[q].result = result
      PROVE  KnownAfter(request'[q].result.version, TextAnswered(request'[q]))
  <2>1. chart'.version \in Nat
    BY <1>2 DEF ChartRows
  <2>2. r.over = Seen(chart).text
    BY <1>1, <1>2 DEF Known
  <2>3. TextAnswered(request'[q]) = Seen(chart').text
    BY <1>2, <1>6, <2>2 DEF TextAnswered, SameCall
  <2> QED BY <1>4, <1>6, <2>1, <2>3 DEF KnownAfter
<1>7. Seen(chart').draft => Seen(chart').version > 0
  BY <1>2, <1>4
<1> QED BY <1>2, <1>3, <1>5, <1>6, <1>7

\* POST /api/charts.
LEMMA CreateKeeps ==
    ASSUME ChartsInv, NEW q \in Requests, Create(q)
    PROVE  ChartsInv'
<1>1. /\ TypeOK /\ ChartShape /\ PhotosRight /\ request[q] \in RequestRows
      /\ request[q].op = "create" /\ request[q].stage = "sent"
      /\ UNCHANGED <<row, objects, screen, reported, crashed>>
  BY DEF ChartsInv, PhotosRight, Create, TypeOK
<1>2. CASE chart.version > 0
  <2>1. Finish(q, "done", "conflict", NothingSeen) /\ UNCHANGED chart
    BY <1>2 DEF Create
  <2> QED BY <1>1, <2>1, IdleIs, QuietFinishKeeps DEF Holds
<1>3. CASE ~(chart.version > 0)
  <2>1. chart.version = 0 /\ chart.version \in Nat
    BY <1>1, <1>3 DEF TypeOK, ChartRows
  <2>2. /\ Finish(q, "done", "ok", Seen(chart'))
        /\ chart' = [version |-> 1, current |-> 1, revision |->
                        [NoChart.revision EXCEPT ![1] = [status |-> "DRAFT", photos |-> {},
                                                         text |-> request[q].text]]]
    BY <1>3 DEF Create
  <2>3. request[q].text \in Texts
    BY <1>1 DEF RequestRows
  <2>4. /\ chart' \in ChartRows /\ ChartShape' /\ chart'.version = 1
        /\ Linked(chart') = Linked(chart)
    BY <1>1, <2>1, <2>2, <2>3, ChartBegins
  <2>5. ChartMoves
    BY <2>1, <2>4 DEF ChartMoves
  <2>6. Seen(chart') \in SeenRows /\ Seen(chart').version = 1
    BY <2>4, SeenOf DEF ChartShape
  <2>7. /\ Handled(q)
        /\ \/ request'[q] = Idle
           \/ /\ SameCall(q) /\ request'[q].photo = request[q].photo
              /\ request'[q].stage = "done" /\ request'[q].answer = "ok"
              /\ request'[q].result = Seen(chart') /\ request'[q].left = {}
    BY <1>1, <2>2, <2>6, FinishHandles
  <2>8. PhotosRight'
    <3>1. Quiet(q)
      BY <1>1, <2>4, <2>7 DEF Quiet, Holds, Handled, Idle
    <3> QED BY <1>1, <3>1, QuietKeepsPhotos
  <2>9. request'[q] # Idle =>
           LET r == request'[q] IN
           /\ r.answer = "ok" => KnownAfter(r.result.version, TextAnswered(r))
                                 /\ (r.result.draft => r.result.version > 0)
           /\ r.stage \notin {"sent", "stored"} => r.answer # "none"
    BY <1>1, <2>4, <2>6, <2>7 DEF KnownAfter, TextAnswered, SameCall
  <2> QED BY <1>1, <2>4, <2>5, <2>7, <2>8, <2>9, HandlerKeeps DEF TypeOK
<1> QED BY <1>2, <1>3

\* PATCH draft, POST finalize, POST amend.
LEMMA ChangeKeeps ==
    ASSUME ChartsInv, NEW q \in Requests, Change(q)
    PROVE  ChartsInv'
<1>1. /\ TypeOK /\ ChartShape /\ PhotosRight /\ request[q] \in RequestRows
      /\ request[q].op \in {"draft", "finalize", "amend"} /\ request[q].stage = "sent"
      /\ chart.version < MaxVersion /\ UNCHANGED <<row, objects, screen, reported, crashed>>
  BY DEF ChartsInv, PhotosRight, Change, TypeOK
<1>2. CASE Refusal(request[q]) # "none"
  <2>1. Finish(q, "done", Refusal(request[q]), NothingSeen) /\ UNCHANGED chart
    BY <1>2 DEF Change
  <2>2. Refusal(request[q]) \in {"conflict", "refused"}
    BY <1>2 DEF Refusal
  <2> QED BY <1>1, <2>1, <2>2, IdleIs, QuietFinishKeeps DEF Holds
<1>3. CASE Refusal(request[q]) = "none"
  <2>1. chart' = Updated(request[q]) /\ Finish(q, "done", "ok", Seen(chart'))
    BY <1>3 DEF Change
  <2>2. /\ ChartMoves /\ chart' \in ChartRows /\ ChartShape' /\ Handled(q)
        /\ \/ request'[q] = Idle
           \/ request'[q].stage = "done" /\ request'[q].left = {}
        /\ request'[q] # Idle =>
              LET r == request'[q] IN
              /\ r.answer = "ok" => KnownAfter(r.result.version, TextAnswered(r))
                                    /\ (r.result.draft => r.result.version > 0)
              /\ r.stage \notin {"sent", "stored"} => r.answer # "none"
    BY <1>1, <1>3, <2>1, AcceptedAnswers
  <2>3. request[q].expected > 0 /\ request[q].op \in Operations \ {"create"}
    BY <1>1 DEF ChartsInv, ViewsAreTrue, RequestKnows, Operations
  <2>4. Linked(chart') = Linked(chart)
    BY <1>1, <1>3, <2>1, <2>3, ChartChanges
  <2>5. PhotosRight'
    <3>1. Quiet(q)
      BY <1>1, <2>2, <2>4 DEF Quiet, Holds, Handled, Idle
    <3> QED BY <1>1, <3>1, QuietKeepsPhotos
  <2> QED BY <1>1, <2>2, <2>5, HandlerKeeps DEF TypeOK
<1> QED BY <1>2, <1>3

\* DELETE photo.
LEMMA RemoveKeeps ==
    ASSUME ChartsInv, NEW q \in Requests, Remove(q)
    PROVE  ChartsInv'
<1> DEFINE p == request[q].photo
<1>1. /\ TypeOK /\ ChartShape /\ PhotosRight /\ request[q] \in RequestRows
      /\ request[q].op = "remove" /\ request[q].stage = "sent"
      /\ chart.version < MaxVersion /\ UNCHANGED <<objects, screen, reported, crashed>>
  BY DEF ChartsInv, PhotosRight, Remove, TypeOK
<1>2. CASE Refusal(request[q]) # "none"
  <2>1. Finish(q, "done", Refusal(request[q]), NothingSeen) /\ UNCHANGED <<chart, row>>
    BY <1>2 DEF Remove
  <2>2. Refusal(request[q]) \in {"conflict", "refused"}
    BY <1>2 DEF Refusal
  <2> QED BY <1>1, <2>1, <2>2, IdleIs, QuietFinishKeeps DEF Holds
<1>3. CASE Refusal(request[q]) = "none"
  <2>1. /\ chart' = Updated(request[q]) /\ Finish(q, "clean", "ok", Seen(chart'))
        /\ row' = [row EXCEPT ![p] = IF p \in Linked(chart') THEN @ ELSE "pending"]
    BY <1>3 DEF Remove, AfterRemoval
  <2>2. /\ ChartMoves /\ chart' \in ChartRows /\ ChartShape' /\ Handled(q)
        /\ request'[q].stage = "clean" /\ request'[q].left = {}
        /\ request'[q] # Idle =>
              LET r == request'[q] IN
              /\ r.answer = "ok" => KnownAfter(r.result.version, TextAnswered(r))
                                    /\ (r.result.draft => r.result.version > 0)
              /\ r.stage \notin {"sent", "stored"} => r.answer # "none"
    BY <1>1, <1>3, <2>1, AcceptedAnswers
  <2>3. request[q].expected > 0 /\ request[q].op \in Operations \ {"create"}
    BY <1>1 DEF ChartsInv, ViewsAreTrue, RequestKnows, Operations
  <2>4. p \in Linked(chart) /\ Linked(chart') \cup {p} = Linked(chart)
    BY <1>1, <1>3, <2>1, <2>3, ChartChanges
  <2>5. PhotosRight'
    <3>1. OnlyRequest(q) /\ ~Uploading(q)
      BY <1>1, <2>2 DEF Handled, Uploading
    <3> QED BY <1>1, <2>1, <2>2, <2>4, <3>1, RemovalKeepsPhotos
  <2>6. row' \in [Photos -> {"none", "live", "pending", "gone"}]
    BY <1>1, <2>1 DEF TypeOK
  <2> QED BY <1>1, <2>2, <2>5, <2>6, HandlerKeeps DEF TypeOK
<1> QED BY <1>2, <1>3

\* The image is refused.
LEMMA RefusePhotoKeeps ==
    ASSUME ChartsInv, NEW q \in Requests, RefusePhoto(q)
    PROVE  ChartsInv'
<1>1. /\ request[q].stage = "sent" /\ Finish(q, "done", "refused", NothingSeen)
      /\ UNCHANGED <<chart, row, objects, screen, reported, crashed>>
  BY DEF RefusePhoto
<1> QED BY <1>1, IdleIs, QuietFinishKeeps DEF Holds

\* The object is stored, or a failure of the bucket is reported.
LEMMA PutKeeps ==
    ASSUME ChartsInv, NEW q \in Requests, Put(q)
    PROVE  ChartsInv'
<1> DEFINE p == request[q].photo
<1>1. /\ TypeOK /\ ChartShape /\ PhotosRight /\ Uploading(q)
      /\ request[q].op = "upload" /\ request[q].stage = "sent"
      /\ UNCHANGED <<chart, row, screen, crashed>>
  BY DEF ChartsInv, PhotosRight, Put, Uploading
<1>2. p \in Photos /\ ChartMoves
  BY <1>1 DEF PhotosRight, UploadsAreNew, ChartMoves
<1>3. CASE Refusal(request[q]) # "none" /\ Finish(q, "done", Refusal(request[q]), NothingSeen)
           /\ UNCHANGED <<objects, reported>>
  <2>1. Refusal(request[q]) \in {"conflict", "refused"}
    BY <1>3 DEF Refusal
  <2> QED BY <1>1, <1>3, <2>1, IdleIs, QuietFinishKeeps DEF Holds
<1>4. CASE Finish(q, "stored", "none", NothingSeen) /\ StoragePut(p) /\ UNCHANGED reported
  <2>1. /\ Handled(q) /\ SameCall(q) /\ request'[q].photo = p
        /\ request'[q].stage = "stored" /\ request'[q].answer = "none" /\ request'[q].left = {}
    BY <1>1, <1>4, IdleIs, FinishHandles
  <2>2. objects' = objects \cup {p}
    BY <1>4 DEF StoragePut
  <2>3. PhotosRight'
    <3>1. OnlyRequest(q) /\ request'[q].op = "upload"
      BY <1>1, <2>1 DEF Handled, SameCall
    <3> QED BY <1>1, <1>4, <2>1, <2>2, <3>1, PutKeepsPhotos
  <2>4. chart' \in ChartRows /\ ChartShape' /\ objects' \subseteq Photos
        /\ row' \in [Photos -> {"none", "live", "pending", "gone"}]
    BY <1>1, <1>2, <2>2 DEF TypeOK, ChartShape
  <2> QED BY <1>1, <1>2, <2>1, <2>3, <2>4, HandlerKeeps
<1>5. CASE Finish(q, "done", "refused", NothingSeen) /\ StoragePutFails(p)
           /\ reported' = reported \cup {p}
  <2>1. /\ Handled(q)
        /\ \/ request'[q] = Idle
           \/ /\ request'[q].stage = "done" /\ request'[q].answer = "refused"
              /\ request'[q].left = {}
    BY <1>1, <1>5, IdleIs, FinishHandles
  <2>2. objects' \in {objects, objects \cup {p}}
    BY <1>5 DEF StoragePutFails
  <2>3. PhotosRight'
    <3>1. OnlyRequest(q) /\ request'[q].stage \in {"free", "done"} /\ request'[q].left = {}
      BY <2>1 DEF Handled, Idle
    <3> QED BY <1>1, <1>5, <2>2, <3>1, PutKeepsPhotos
  <2>4. chart' \in ChartRows /\ ChartShape' /\ objects' \subseteq Photos
        /\ row' \in [Photos -> {"none", "live", "pending", "gone"}]
    BY <1>1, <1>2, <2>2 DEF TypeOK, ChartShape
  <2> QED BY <1>1, <1>2, <2>1, <2>3, <2>4, HandlerKeeps
<1> QED BY <1>3, <1>4, <1>5 DEF Put

\* The transaction that records a photo is refused, done, or of unknown outcome.
LEMMA RecordKeeps ==
    ASSUME ChartsInv, NEW q \in Requests, Record(q)
    PROVE  ChartsInv'
<1> DEFINE p == request[q].photo
<1>1. /\ TypeOK /\ ChartShape /\ PhotosRight /\ request[q] \in RequestRows
      /\ request[q].op = "upload" /\ request[q].stage = "stored" /\ chart.version < MaxVersion
      /\ UNCHANGED <<objects, screen, crashed>> /\ Holds(request[q])
  BY DEF ChartsInv, PhotosRight, Record, TypeOK, Holds
<1>2. p \in Photos
  BY <1>1 DEF PhotosRight, UploadsAreNew, Uploading
<1>3. CASE Refusal(request[q]) # "none" /\ Finish(q, "rejected", Refusal(request[q]), NothingSeen)
           /\ UNCHANGED <<chart, row, reported>>
  <2>1. Refusal(request[q]) \in {"conflict", "refused"}
    BY <1>3 DEF Refusal
  <2> QED BY <1>1, <1>3, <2>1, IdleIs, QuietFinishKeeps
<1>4. ASSUME NEW stage \in {"clean", "done"}, NEW answer \in {"ok", "refused"},
             answer = "refused" => stage = "done",
             NEW result \in {NothingSeen, Seen(chart')}, answer = "ok" => result = Seen(chart'),
             Refusal(request[q]) = "none", Recorded(request[q]),
             Finish(q, stage, answer, result), reported \subseteq reported'
      PROVE  ChartsInv'
  <2>1. chart' = Updated(request[q]) /\ row' = [row EXCEPT ![p] = "live"]
    BY <1>4 DEF Recorded
  <2>2. /\ ChartMoves /\ chart' \in ChartRows /\ ChartShape' /\ Handled(q)
        /\ \/ stage = "done" /\ request'[q] = Idle
           \/ request'[q].stage = stage /\ request'[q].left = {}
        /\ request'[q] # Idle =>
              LET r == request'[q] IN
              /\ r.answer = "ok" => KnownAfter(r.result.version, TextAnswered(r))
                                    /\ (r.result.draft => r.result.version > 0)
              /\ r.stage \notin {"sent", "stored"} => r.answer # "none"
    BY <1>1, <1>2, <1>4, <2>1, AcceptedAnswers
  <2>3. request[q].expected > 0 /\ request[q].op \in Operations \ {"create"}
    BY <1>1 DEF ChartsInv, ViewsAreTrue, RequestKnows, Operations
  <2>4. Linked(chart') = Linked(chart) \cup {p}
    BY <1>1, <1>2, <1>4, <2>1, <2>3, ChartChanges
  <2>5. PhotosRight'
    <3>1. OnlyRequest(q) /\ request'[q].stage \in {"free", "clean", "done"}
          /\ request'[q].left = {}
      BY <2>2 DEF Handled, Idle
    <3> QED BY <1>1, <1>4, <2>1, <2>4, <3>1, RowOfUploadKeepsPhotos
  <2>6. row' \in [Photos -> {"none", "live", "pending", "gone"}]
    BY <1>1, <2>1 DEF TypeOK
  <2> QED BY <1>1, <2>2, <2>5, <2>6, HandlerKeeps DEF TypeOK
<1>5. CASE UNCHANGED <<chart, row>> /\ reported' = reported \cup {p}
           /\ Finish(q, "done", "refused", NothingSeen)
  BY <1>1, <1>5, IdleIs, QuietFinishKeeps
<1> QED BY <1>3, <1>4, <1>5 DEF Record

\* A rejected upload gets a row for the cleanup, or is reported.
LEMMA MarkRejectedKeeps ==
    ASSUME ChartsInv, NEW q \in Requests, MarkRejected(q)
    PROVE  ChartsInv'
<1> DEFINE p == request[q].photo
<1>1. /\ TypeOK /\ ChartShape /\ PhotosRight /\ request[q] \in RequestRows
      /\ request[q].stage = "rejected" /\ UNCHANGED <<chart, objects, screen, crashed>>
      /\ Holds(request[q])
  BY DEF ChartsInv, PhotosRight, MarkRejected, TypeOK, Holds
<1>2. /\ request[q].op = "upload" /\ request[q].answer \in {"ok", "conflict", "refused"}
      /\ request[q].expected > 0 /\ Known(request[q].expected, request[q].over)
  BY <1>1 DEF ChartsInv, PhotosRight, UploadsAreNew, ViewsAreTrue, RequestKnows, RequestRows
<1>3. CASE row' = [row EXCEPT ![p] = "pending"] /\ Finish(q, "clean", request[q].answer, NothingSeen)
           /\ UNCHANGED reported
  <2>1. /\ Handled(q) /\ SameCall(q) /\ request'[q].photo = p
        /\ request'[q].stage = "clean" /\ request'[q].answer = request[q].answer
        /\ request'[q].result = NothingSeen /\ request'[q].left = {}
    BY <1>1, <1>2, <1>3, IdleIs, FinishHandles
  <2>2. PhotosRight'
    <3>1. OnlyRequest(q) /\ Linked(chart') = Linked(chart)
      BY <1>1, <2>1 DEF Handled, Linked
    <3> QED BY <1>1, <1>3, <2>1, <3>1, RowOfUploadKeepsPhotos
  <2>3. chart' \in ChartRows /\ ChartShape' /\ objects' \subseteq Photos /\ ChartMoves
        /\ row' \in [Photos -> {"none", "live", "pending", "gone"}]
    BY <1>1, <1>3 DEF TypeOK, ChartShape, ChartMoves
  <2>4. KnownAfter(NothingSeen.version, TextAnswered(request'[q]))
    <3>1. chart'.version \in Nat /\ chart'.version > 0
      BY <1>1, <1>2 DEF TypeOK, ChartRows, RequestRows, Known
    <3> QED BY <3>1 DEF NothingSeen, KnownAfter
  <2>5. request'[q] # Idle =>
           LET r == request'[q] IN
           /\ r.answer = "ok" => KnownAfter(r.result.version, TextAnswered(r))
                                 /\ (r.result.draft => r.result.version > 0)
           /\ r.stage \notin {"sent", "stored"} => r.answer # "none"
    BY <1>2, <2>1, <2>4 DEF NothingSeen
  <2> QED BY <1>1, <2>1, <2>2, <2>3, <2>5, HandlerKeeps
<1>4. CASE Finish(q, "done", request[q].answer, NothingSeen) /\ UNCHANGED row
           /\ reported' = reported \cup {p}
  BY <1>1, <1>2, <1>4, IdleIs, QuietFinishKeeps
<1> QED BY <1>3, <1>4 DEF MarkRejected

-----------------------------------------------------------------------------
(* The steps of a cleanup                                                  *)

Cleaning == {"clean", "cleaning", "removed"}

\* A step of a cleanup keeps what the request asked for and will answer.
LEMMA CleanupHandles ==
    ASSUME TypeOK, NEW q \in Requests, NEW new \in RequestRows,
           request' = [request EXCEPT ![q] = new],
           new.op = request[q].op, new.by = request[q].by, new.expected = request[q].expected,
           new.over = request[q].over, new.stage \in Cleaning
    PROVE  Handled(q) /\ OnlyRequest(q) /\ SameCall(q) /\ request'[q] = new
<1>1. OnlyRequest(q) /\ request'[q] = new
  BY DEF TypeOK, OnlyRequest
<1> QED BY <1>1 DEF Handled, SameCall, Cleaning

\* So all that is left to show is what it does to the photos.
LEMMA CleanupKeeps ==
    ASSUME ChartsInv, NEW q \in Requests, request[q].stage \in Cleaning,
           Handled(q), SameCall(q), request'[q].stage \in Cleaning,
           request'[q].answer = request[q].answer, request'[q].result = request[q].result,
           UNCHANGED <<chart, screen>>, objects' \subseteq Photos,
           row' \in [Photos -> {"none", "live", "pending", "gone"}], PhotosRight'
    PROVE  ChartsInv'
<1>1. TypeOK /\ ViewsAreTrue /\ chart' \in ChartRows /\ ChartShape' /\ ChartMoves
  BY DEF ChartsInv, TypeOK, ChartShape, ChartMoves
<1>2. /\ request[q].answer # "none" /\ request[q].result.version \in Nat
      /\ request[q].answer = "ok" => Known(request[q].result.version, TextAnswered(request[q]))
                                     /\ (request[q].result.draft => request[q].result.version > 0)
  BY <1>1 DEF ViewsAreTrue, RequestKnows, Cleaning, TypeOK, RequestRows, SeenRows
<1>3. TextAnswered(request'[q]) = TextAnswered(request[q])
  BY DEF TextAnswered, SameCall
<1>4. request[q].answer = "ok" =>
         KnownAfter(request'[q].result.version, TextAnswered(request'[q]))
  BY <1>1, <1>2, <1>3, KnownStays
<1>5. request[q].stage # "free"
  BY DEF Cleaning
<1> QED BY <1>1, <1>2, <1>4, <1>5, HandlerKeeps

\* The cleanup reads which photos are due.
LEMMA ReadPendingKeeps ==
    ASSUME ChartsInv, NEW q \in Requests, ReadPending(q)
    PROVE  ChartsInv'
<1> DEFINE staged == [request[q] EXCEPT !.stage = "cleaning"]
           new == [staged EXCEPT !.left = Unreferenced]
<1>1. /\ TypeOK /\ PhotosRight /\ ViewsAreTrue /\ request[q] \in RequestRows
      /\ request[q].stage = "clean"
      /\ UNCHANGED <<chart, row, objects, screen, reported, crashed>>
  BY DEF ChartsInv, PhotosRight, ReadPending, TypeOK
<1>2. CASE Unreferenced = {}
  <2>1. /\ Finish(q, "done", request[q].answer, request[q].result)
        /\ request[q].answer \in {"ok", "conflict", "refused"} /\ request[q].result \in SeenRows
    BY <1>1, <1>2 DEF ReadPending, ViewsAreTrue, RequestKnows, RequestRows
  <2> QED BY <1>1, <2>1, QuietFinishKeeps DEF Holds
<1>3. CASE Unreferenced # {}
  <2>1. request' = [request EXCEPT ![q] = new]
    BY <1>1, <1>3 DEF ReadPending, TypeOK
  <2>2. Unreferenced \subseteq Photos /\ \A p \in Unreferenced : row[p] = "pending"
    BY DEF Unreferenced
  <2>3. /\ staged \in RequestRows /\ staged.op = request[q].op /\ staged.by = request[q].by
        /\ staged.expected = request[q].expected /\ staged.over = request[q].over
        /\ staged.stage = "cleaning" /\ staged.photo = request[q].photo
        /\ staged.answer = request[q].answer /\ staged.result = request[q].result
    BY <1>1 DEF RequestRows
  <2>4. /\ new \in RequestRows /\ new.op = request[q].op /\ new.by = request[q].by
        /\ new.expected = request[q].expected /\ new.over = request[q].over
        /\ new.stage = "cleaning" /\ new.photo = request[q].photo
        /\ new.answer = request[q].answer /\ new.result = request[q].result
        /\ new.left = Unreferenced
    <3> HIDE DEF staged
    <3> QED BY <2>2, <2>3 DEF RequestRows
  <2> HIDE DEF new
  <2>5. Handled(q) /\ OnlyRequest(q) /\ SameCall(q) /\ request'[q] = new
    BY <1>1, <2>1, <2>4, CleanupHandles DEF Cleaning
  <2>6. PhotosRight'
    <3>1. Quiet(q)
      BY <1>1, <2>2, <2>4, <2>5 DEF Quiet, Holds, Linked
    <3> QED BY <1>1, <3>1, QuietKeepsPhotos
  <2> QED BY <1>1, <2>4, <2>5, <2>6, CleanupKeeps DEF TypeOK, Cleaning
<1> QED BY <1>2, <1>3

\* The object of a due photo is removed, or not.
LEMMA RemoveObjectKeeps ==
    ASSUME ChartsInv, NEW q \in Requests, NEW p \in Photos, RemoveObject(q, p)
    PROVE  ChartsInv'
<1> DEFINE removed == [request[q] EXCEPT !.stage = "removed"]
           new == [removed EXCEPT !.photo = p]
           left == request[q].left \ {p}
           skipped == [request[q] EXCEPT !.left = left]
<1>1. /\ TypeOK /\ PhotosRight /\ request[q] \in RequestRows
      /\ request[q].stage = "cleaning" /\ p \in request[q].left
      /\ UNCHANGED <<chart, row, screen, reported, crashed>>
      /\ \A x \in request[q].left : row[x] \in {"pending", "gone"}
  BY DEF ChartsInv, PhotosRight, CleanupsAreRight, RemoveObject, TypeOK
<1>2. CASE objects' = objects \ {p}
           /\ request' = [request EXCEPT ![q].stage = "removed", ![q].photo = p]
  <2>1. request' = [request EXCEPT ![q] = new]
    BY <1>1, <1>2 DEF TypeOK
  <2>2. /\ removed \in RequestRows /\ removed.op = request[q].op /\ removed.by = request[q].by
        /\ removed.expected = request[q].expected /\ removed.over = request[q].over
        /\ removed.stage = "removed" /\ removed.left = request[q].left
        /\ removed.answer = request[q].answer /\ removed.result = request[q].result
    BY <1>1 DEF RequestRows
  <2>3. /\ new \in RequestRows /\ new.op = request[q].op /\ new.by = request[q].by
        /\ new.expected = request[q].expected /\ new.over = request[q].over
        /\ new.stage = "removed" /\ new.photo = p
        /\ new.answer = request[q].answer /\ new.result = request[q].result
        /\ new.left = request[q].left
    <3> HIDE DEF removed
    <3> QED BY <2>2 DEF RequestRows
  <2> HIDE DEF new
  <2>4. Handled(q) /\ OnlyRequest(q) /\ SameCall(q) /\ request'[q] = new
    BY <1>1, <2>1, <2>3, CleanupHandles DEF Cleaning
  <2>5. PhotosRight'
    BY <1>1, <1>2, <2>3, <2>4, RemovedObjectKeepsPhotos
  <2> QED BY <1>1, <1>2, <2>3, <2>4, <2>5, CleanupKeeps DEF TypeOK, Cleaning
<1>3. CASE UNCHANGED objects /\ request' = [request EXCEPT ![q].left = @ \ {p}]
  <2>1. request' = [request EXCEPT ![q] = skipped]
    BY <1>1, <1>3 DEF TypeOK
  <2>2. left \subseteq request[q].left /\ left \subseteq Photos
    BY <1>1 DEF RequestRows
  <2>3. /\ skipped \in RequestRows /\ skipped.op = request[q].op /\ skipped.by = request[q].by
        /\ skipped.expected = request[q].expected /\ skipped.over = request[q].over
        /\ skipped.stage = "cleaning" /\ skipped.photo = request[q].photo
        /\ skipped.answer = request[q].answer /\ skipped.result = request[q].result
        /\ skipped.left = left
    <3> HIDE DEF left
    <3> QED BY <1>1, <2>2 DEF RequestRows
  <2> HIDE DEF skipped, left
  <2>4. Handled(q) /\ OnlyRequest(q) /\ SameCall(q) /\ request'[q] = skipped
    BY <1>1, <2>1, <2>3, CleanupHandles DEF Cleaning
  <2>5. PhotosRight'
    <3>1. Quiet(q)
      BY <1>1, <1>3, <2>2, <2>3, <2>4 DEF Quiet, Holds, Linked
    <3> QED BY <1>1, <3>1, QuietKeepsPhotos
  <2> QED BY <1>1, <1>3, <2>3, <2>4, <2>5, CleanupKeeps DEF TypeOK, Cleaning
<1> QED BY <1>2, <1>3 DEF RemoveObject

\* The row of the removed object is dropped, or not.
LEMMA DropRowKeeps ==
    ASSUME ChartsInv, NEW q \in Requests, DropRow(q)
    PROVE  ChartsInv'
<1> DEFINE p == request[q].photo
           left == request[q].left \ {p}
           staged == [request[q] EXCEPT !.stage = "cleaning"]
           new == [staged EXCEPT !.left = left]
<1>1. /\ TypeOK /\ PhotosRight /\ request[q] \in RequestRows /\ request[q].stage = "removed"
      /\ UNCHANGED <<chart, objects, screen, reported, crashed>>
      /\ \A x \in request[q].left : row[x] \in {"pending", "gone"}
      /\ p \in Photos
  BY DEF ChartsInv, PhotosRight, CleanupsAreRight, DropRow, TypeOK
<1>2. request' = [request EXCEPT ![q] = new]
  BY <1>1 DEF DropRow, TypeOK
<1>3. left \subseteq request[q].left /\ left \subseteq Photos
  BY <1>1 DEF RequestRows
<1>4. /\ staged \in RequestRows /\ staged.op = request[q].op /\ staged.by = request[q].by
      /\ staged.expected = request[q].expected /\ staged.over = request[q].over
      /\ staged.stage = "cleaning" /\ staged.photo = p
      /\ staged.answer = request[q].answer /\ staged.result = request[q].result
  BY <1>1 DEF RequestRows
<1>5. /\ new \in RequestRows /\ new.op = request[q].op /\ new.by = request[q].by
      /\ new.expected = request[q].expected /\ new.over = request[q].over
      /\ new.stage = "cleaning" /\ new.photo = p
      /\ new.answer = request[q].answer /\ new.result = request[q].result
      /\ new.left = left
  <2> HIDE DEF staged, left
  <2> QED BY <1>3, <1>4 DEF RequestRows
<1> HIDE DEF new, left
<1>6. Handled(q) /\ OnlyRequest(q) /\ SameCall(q) /\ request'[q] = new
  BY <1>1, <1>2, <1>5, CleanupHandles DEF Cleaning
<1>7. CASE row' = [row EXCEPT ![p] = IF p \in Unreferenced THEN "gone" ELSE @]
  <2>1. PhotosRight'
    BY <1>1, <1>3, <1>5, <1>6, <1>7, DroppedRowKeepsPhotos
  <2>2. row' \in [Photos -> {"none", "live", "pending", "gone"}]
    BY <1>1, <1>7 DEF TypeOK
  <2> QED BY <1>1, <1>5, <1>6, <2>1, <2>2, CleanupKeeps DEF TypeOK, Cleaning
<1>8. CASE UNCHANGED row
  <2>1. Quiet(q)
    BY <1>1, <1>3, <1>5, <1>6, <1>8 DEF Quiet, Holds, Linked
  <2>2. PhotosRight'
    BY <1>1, <2>1, QuietKeepsPhotos
  <2> QED BY <1>1, <1>5, <1>6, <1>8, <2>2, CleanupKeeps DEF TypeOK, Cleaning
<1> QED BY <1>7, <1>8 DEF DropRow

\* The cleanup is over, and the request answers.
LEMMA EndCleanupKeeps ==
    ASSUME ChartsInv, NEW q \in Requests, EndCleanup(q)
    PROVE  ChartsInv'
<1>1. /\ request[q].stage = "cleaning" /\ Finish(q, "done", request[q].answer, request[q].result)
      /\ UNCHANGED <<chart, row, objects, screen, reported, crashed>>
  BY DEF EndCleanup
<1>2. request[q].answer \in {"ok", "conflict", "refused"} /\ request[q].result \in SeenRows
  BY <1>1 DEF ChartsInv, TypeOK, ViewsAreTrue, RequestKnows, RequestRows
<1> QED BY <1>1, <1>2, QuietFinishKeeps DEF Holds

\* A crash leaves a stored photo to the audit.
LEMMA CrashKeeps ==
    ASSUME ChartsInv, NEW q \in Requests, Crash(q)
    PROVE  ChartsInv'
<1>1. /\ request[q].stage # "free" /\ Finish(q, "done", "refused", NothingSeen)
      /\ UNCHANGED <<chart, row, objects, screen, reported>> /\ crashed \subseteq crashed'
      /\ Holds(request[q]) => request[q].photo \in crashed'
  BY DEF Crash, Holds
<1> QED BY <1>1, IdleIs, QuietFinishKeeps

-----------------------------------------------------------------------------
(* The theorems                                                            *)

\* A reservation without a chart, and screens that know of none.
LEMMA InitChartsInv == Init => ChartsInv
<1> SUFFICES ASSUME Init PROVE ChartsInv
  OBVIOUS
<1> DEFINE first == [shown |-> NothingSeen, saved |-> Blank, conflict |-> FALSE, busy |-> FALSE]
<1>1. /\ chart = NoChart /\ row = [p \in Photos |-> "none"] /\ objects = {}
      /\ screen = [s \in Screens |-> first] /\ request = [q \in Requests |-> Idle]
  BY DEF Init
<1>2. NoRevision \in RevisionRows /\ first \in ScreenRows
  BY IdleIs, ChartsAssumption DEF NoRevision, RevisionRows, ScreenRows
<1>3. NoChart \in ChartRows /\ NoChart.version = 0
  BY <1>2 DEF NoChart, ChartRows
<1>4. \A p : p \notin Linked(chart)
  BY <1>1 DEF Linked, NoChart, NoRevision
<1>5. TypeOK /\ ChartShape
  <2> HIDE DEF first
  <2> QED BY <1>1, <1>2, <1>3, IdleIs DEF TypeOK, ChartShape
<1>6. \A q \in Requests : /\ request[q].stage = "free" /\ request[q].by = NoScreen
                          /\ request[q].left = {}
  BY <1>1 DEF Idle
<1>7. UploadsAreNew /\ CleanupsAreRight
  BY <1>6 DEF UploadsAreNew, Uploading, CleanupsAreRight
<1>8. RowsAreRight
  BY <1>1, <1>4 DEF RowsAreRight
<1>9. \A s \in Screens : ScreenKnows(s)
  BY <1>1, <1>3 DEF ScreenKnows, Known, Seen, NothingSeen
<1>10. ViewsAreTrue
  BY <1>6, <1>9 DEF ViewsAreTrue, RequestKnows
<1> QED BY <1>5, <1>7, <1>8, <1>10 DEF ChartsInv

\* Every step keeps the invariant.
LEMMA StepKeepsChartsInv == ChartsInv /\ [Next]_vars => ChartsInv'
<1> SUFFICES ASSUME ChartsInv, [Next]_vars PROVE ChartsInv'
  OBVIOUS
<1>1. CASE UNCHANGED vars
  BY <1>1 DEF vars, ChartsInv, TypeOK, ChartShape, UploadsAreNew, Uploading, CleanupsAreRight,
              RowsAreRight, ViewsAreTrue, ScreenKnows, RequestKnows, Known
<1>2. ASSUME NEW s \in Screens, Refresh(s) PROVE ChartsInv'
  BY <1>2, RefreshKeeps
<1>3. ASSUME NEW s \in Screens, NEW q \in Requests, NEW op \in {"finalize", "amend"},
             Send(s, q, op, screen[s].saved, NoPhoto)
      PROVE  ChartsInv'
  <2>1. screen[s].saved \in Texts
    BY DEF ChartsInv, TypeOK, ScreenRows
  <2> QED BY <1>3, <2>1, SendKeeps DEF Operations
<1>4. ASSUME NEW s \in Screens, NEW q \in Requests, NEW op \in {"create", "draft"},
             NEW text \in Texts, Send(s, q, op, text, NoPhoto)
      PROVE  ChartsInv'
  BY <1>4, SendKeeps DEF Operations
<1>5. ASSUME NEW s \in Screens, NEW q \in Requests, NEW op \in {"upload", "remove"},
             NEW p \in Photos, Send(s, q, op, screen[s].saved, p)
      PROVE  ChartsInv'
  <2>1. screen[s].saved \in Texts
    BY DEF ChartsInv, TypeOK, ScreenRows
  <2> QED BY <1>5, <2>1, SendKeeps DEF Operations
<1>6. ASSUME NEW q \in Requests,
             \/ Receive(q) \/ LoseAnswer(q) \/ Create(q) \/ Change(q) \/ Remove(q)
             \/ RefusePhoto(q) \/ Put(q) \/ Record(q) \/ MarkRejected(q)
             \/ ReadPending(q) \/ DropRow(q) \/ EndCleanup(q) \/ Crash(q)
      PROVE  ChartsInv'
  BY <1>6, ReceiveKeeps, LoseAnswerKeeps, CreateKeeps, ChangeKeeps, RemoveKeeps,
     RefusePhotoKeeps, PutKeeps, RecordKeeps, MarkRejectedKeeps, ReadPendingKeeps,
     DropRowKeeps, EndCleanupKeeps, CrashKeeps
<1>7. ASSUME NEW q \in Requests, NEW p \in Photos, RemoveObject(q, p) PROVE ChartsInv'
  BY <1>7, RemoveObjectKeeps
<1> QED BY <1>1, <1>2, <1>3, <1>4, <1>5, <1>6, <1>7 DEF Next

\* The invariant of the charts: uploads are new, cleanups work on what was given up,
\* rows agree with revisions and bucket, and nobody knows a wrong text of the present.
THEOREM ChartsSafe == Spec => []ChartsInv
BY InitChartsInv, StepKeepsChartsInv, PTL DEF Spec

\* A photo some revision shows has its row and its object, whatever uploads,
\* cleanups, lost answers and crashes there are.
THEOREM LinkedPhotosStayLinked == Spec => []LinkedPhotosStay
<1>1. ChartsInv => LinkedPhotosStay
  <2> SUFFICES ASSUME ChartsInv, NEW p \in Linked(chart) PROVE row[p] = "live" /\ p \in objects
    BY DEF LinkedPhotosStay
  <2>1. \A n \in Revisions : chart.revision[n].photos \subseteq Photos
    BY DEF ChartsInv, TypeOK, ChartRows, RevisionRows
  <2>2. p \in Photos
    BY <2>1, LinkedIs
  <2> QED BY <2>2 DEF ChartsInv, RowsAreRight
<1> QED BY <1>1, ChartsSafe, PTL

\* Every object in the bucket is shown, due for deletion, being recorded, reported,
\* or left by a crash.
THEOREM EveryObjectIsKnown == Spec => []OrphansAreKnown
<1>1. ChartsInv => OrphansAreKnown
  <2> SUFFICES ASSUME ChartsInv, NEW p \in objects
               PROVE  \/ AuditReason(p) \in {"referenced", "PENDING_DELETION"}
                      \/ /\ AuditReason(p) = "NO_DATABASE_RECORD"
                         /\ \/ p \in reported \cup crashed
                            \/ \E q \in Requests : /\ request[q].photo = p
                                                   /\ request[q].stage \in {"stored", "rejected"}
    BY DEF OrphansAreKnown
  <2>1. /\ p \in Photos /\ row[p] \in {"none", "live", "pending"}
        /\ row[p] = "live" <=> p \in Linked(chart)
    BY DEF ChartsInv, TypeOK, RowsAreRight
  <2>2. CASE row[p] = "none"
    BY <2>1, <2>2 DEF AuditReason, ChartsInv, RowsAreRight
  <2>3. CASE row[p] \in {"live", "pending"}
    BY <2>1, <2>3 DEF AuditReason
  <2> QED BY <2>1, <2>2, <2>3
<1> QED BY <1>1, ChartsSafe, PTL

\* What SavesOverWhatWasShown says of one step.
SavesOver ==
    \A n \in Revisions :
       LET before == chart.revision[n]
           after == chart'.revision[n]
       IN /\ before.status = "FINALIZED" => after = before
          /\ before.status = "DRAFT" /\ after.text # before.text =>
                \E q \in Requests : /\ request[q].op = "draft" /\ request'[q] # request[q]
                                    /\ request[q].over = before.text

\* An accepted change is the change of a clerk who was shown the text.
LEMMA UpdateSavesOver ==
    ASSUME ChartsInv, NEW q \in Requests, request[q].stage # "free", request[q].op # "create",
           request[q].op = "upload" => request[q].photo \in Photos, chart.version < MaxVersion,
           Refusal(request[q]) = "none", chart' = Updated(request[q]),
           request'[q] # request[q]
    PROVE  SavesOver
<1>1. /\ TypeOK /\ ChartShape /\ request[q] \in RequestRows
      /\ request[q].op \in Operations \ {"create"} /\ request[q].expected > 0
      /\ Known(request[q].expected, request[q].over)
  BY DEF ChartsInv, TypeOK, ViewsAreTrue, RequestKnows
<1>2. /\ request[q].expected = chart.version
      /\ \A n \in Revisions :
            /\ chart.revision[n].status = "FINALIZED" => chart'.revision[n] = chart.revision[n]
            /\ chart.revision[n].status = "DRAFT"
               /\ chart'.revision[n].text # chart.revision[n].text =>
                  request[q].op = "draft" /\ Seen(chart).text = chart.revision[n].text
  BY <1>1, ChartChanges
<1>3. request[q].over = Seen(chart).text
  BY <1>1, <1>2 DEF Known
<1> QED BY <1>2, <1>3 DEF SavesOver

\* A step that answers changes the request.
LEMMA FinishChanges ==
    ASSUME ChartsInv, NEW q \in Requests, NEW stage \in {"clean", "done"}, NEW answer, NEW result,
           request[q].stage \notin {"free", stage}, Finish(q, stage, answer, result)
    PROVE  request'[q] # request[q]
<1> DEFINE new == IF stage = "done" /\ request[q].by = NoScreen THEN Idle
                  ELSE [request[q] EXCEPT !.stage = stage, !.answer = answer,
                                          !.result = result, !.left = {}]
<1>1. request[q] \in RequestRows /\ request'[q] = new
  BY DEF ChartsInv, TypeOK, Finish
<1>2. new.stage \in {"free", stage}
  BY <1>1 DEF Idle, RequestRows
<1> HIDE DEF new
<1> QED BY <1>1, <1>2

\* The text of a draft is replaced only by a clerk who was shown that very text, and
\* a finalized revision by nobody.
THEOREM SavesAreSeen == Spec => SavesOverWhatWasShown
<1>1. ChartsInv /\ [Next]_vars => [SavesOver]_vars
  <2> SUFFICES ASSUME ChartsInv, Next PROVE SavesOver
    OBVIOUS
  <2>1. CASE UNCHANGED chart
    BY <2>1 DEF SavesOver
  <2>2. ASSUME NEW q \in Requests, Create(q), ~UNCHANGED chart PROVE SavesOver
    <3>1. chart.version = 0
      BY <2>2 DEF Create, ChartsInv, TypeOK, ChartRows
    <3>2. chart.revision = [n \in Revisions |-> NoRevision]
      BY <3>1 DEF ChartsInv, ChartShape, NoChart
    <3> QED BY <3>2 DEF SavesOver, NoRevision
  <2>3. ASSUME NEW q \in Requests, Change(q), ~UNCHANGED chart PROVE SavesOver
    <3>1. /\ request[q].op \in {"draft", "finalize", "amend"} /\ request[q].stage = "sent"
          /\ chart.version < MaxVersion /\ Refusal(request[q]) = "none"
          /\ chart' = Updated(request[q]) /\ Finish(q, "done", "ok", Seen(chart'))
      BY <2>3 DEF Change
    <3>2. request'[q] # request[q]
      BY <3>1, FinishChanges
    <3> QED BY <3>1, <3>2, UpdateSavesOver
  <2>4. ASSUME NEW q \in Requests, Remove(q), ~UNCHANGED chart PROVE SavesOver
    <3>1. /\ request[q].op = "remove" /\ request[q].stage = "sent"
          /\ chart.version < MaxVersion /\ Refusal(request[q]) = "none"
          /\ chart' = Updated(request[q]) /\ Finish(q, "clean", "ok", Seen(chart'))
      BY <2>4 DEF Remove
    <3>2. request'[q] # request[q]
      BY <3>1, FinishChanges
    <3> QED BY <3>1, <3>2, UpdateSavesOver
  <2>5. ASSUME NEW q \in Requests, Record(q), ~UNCHANGED chart PROVE SavesOver
    <3>1. /\ request[q].op = "upload" /\ request[q].stage = "stored"
          /\ chart.version < MaxVersion /\ Refusal(request[q]) = "none"
          /\ chart' = Updated(request[q])
          /\ \/ Finish(q, "clean", "ok", Seen(chart'))
             \/ Finish(q, "done", "refused", NothingSeen)
      BY <2>5 DEF Record, Recorded
    <3>2. request'[q] # request[q]
      BY <3>1, FinishChanges
    <3>3. request[q].photo \in Photos
      BY <3>1 DEF ChartsInv, UploadsAreNew, Uploading
    <3> QED BY <3>1, <3>2, <3>3, UpdateSavesOver
  <2>6. ASSUME NEW q \in Requests,
               \/ Receive(q) \/ LoseAnswer(q) \/ RefusePhoto(q) \/ Put(q) \/ MarkRejected(q)
               \/ ReadPending(q) \/ DropRow(q) \/ EndCleanup(q) \/ Crash(q)
               \/ \E p \in Photos : RemoveObject(q, p)
        PROVE  UNCHANGED chart
    BY <2>6 DEF Receive, LoseAnswer, RefusePhoto, Put, MarkRejected, ReadPending, DropRow,
                EndCleanup, Crash, RemoveObject
  <2>7. ASSUME NEW s \in Screens, NEW q \in Requests, NEW op, NEW text, NEW p,
               Send(s, q, op, text, p)
        PROVE  UNCHANGED chart
    BY <2>7 DEF Send
  <2>8. ASSUME NEW s \in Screens, Refresh(s) PROVE UNCHANGED chart
    BY <2>8 DEF Refresh
  <2> QED BY <2>1, <2>2, <2>3, <2>4, <2>5, <2>6, <2>7, <2>8 DEF Next
<1>2. SavesOverWhatWasShown <=> [][SavesOver]_vars
  BY DEF SavesOverWhatWasShown, SavesOver
<1> QED BY <1>1, <1>2, ChartsSafe, PTL DEF Spec
===============================================================================
